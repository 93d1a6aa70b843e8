------------------------ MODULE MCAttestationExchange ------------------------
EXTENDS AttestationExchange, TLC

=============================================================================
