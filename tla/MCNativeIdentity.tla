-------------------------- MODULE MCNativeIdentity --------------------------
(* One target; a bridge that shows it, or something else.                    *)
EXTENDS NativeIdentity

MCPolicy ==
  [providers |-> {"poco"}, appId |-> "app", deviceDigest |-> "device", revision |-> "r2",
   mappings |-> {[provider |-> "poco", build |-> "11", revision |-> "r1"],
                 [provider |-> "poco", build |-> "12", revision |-> "r2"]}]

MCObservations ==
  [provider : {"poco"}, appId : {"app"}, deviceDigest : {"device", "unobserved"},
   appBuild : {"11", "12"}, declared : {"nothing", "r1", "r2"}]
=============================================================================
