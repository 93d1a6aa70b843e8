--------------------------- MODULE RunFinalization ---------------------------
(***************************************************************************)
(* A batch of scripted or LLM-selected runs, from the launch of the        *)
(* browser to the manifest: runLakdaBatch, runLakda and executePlan in     *)
(* src/core/runner.ts, with the policy of the run directory that they      *)
(* apply (src/core/artifacts.ts, artifact-policy.ts, outcome.ts, hate.ts). *)
(*                                                                         *)
(* The verdict of a run is decided early and then corrected: by what fails *)
(* while the browser is stopped, by the handoff of the captured media, by  *)
(* what is found in the directory, and by the export of the manifest.  The *)
(* page goes on reporting failures, and finishing what it was asked to do, *)
(* until it is closed.                                                     *)
(*                                                                         *)
(* The rate budget and the clock are choices (AdaptiveRun models them),    *)
(* the handoff is reduced to its results (AttestationExchange models it),  *)
(* and sizes are counted in files.                                         *)
(***************************************************************************)
EXTENDS ModelClient, Sequences, SequencesExt, FiniteSets

CONSTANTS
  Configs,      \* the configurations a batch may have
  Workers,      \* config.workers
  MaxActions,   \* config.maxActions
  MaxRunFiles,  \* config.artifacts.maxRunBytes, in files
  MaxFaults     \* bound on the operations that fail in a batch

Media == {"screenshot", "trace", "video"}

Config == [mutates : BOOLEAN, llm : BOOLEAN, har : BOOLEAN, dom : BOOLEAN,
           video : {"off", "on", "non-pass"}, attested : BOOLEAN]

ASSUME FinalizationAssumption ==
  /\ Configs \subseteq Config /\ Workers \in Nat \ {0}
  /\ MaxActions \in Nat \ {0} /\ MaxRunFiles \in Nat /\ MaxFaults \in Nat

VARIABLES
  cfg,       \* the configuration of the batch
  results,   \* workerResults: one outcome for each run that ended
  loose,     \* a page of an earlier run, which could not be closed, is at work
  faults,    \* operations that failed
  pc,        \* where the run is
  verdict,   \* execution, then resolved
  page,      \* "none", "context" (no page yet), "open"
  capture,   \* collector.captureState
  stopped,   \* neither close has failed
  done,      \* actions carried out
  asked,     \* a mutating action has been started
  dirty,     \* the fixture is not as its reset leaves it
  failed,    \* collector.failures holds something the page or an action did
  flags,     \* collector.artifactFailure, collector.executorFailure
  capable,   \* captureCapabilities
  media,     \* the media in the run directory
  text,      \* the HAR, and the DOM snapshots in the run directory
  expect,    \* metadata.artifactPolicy.expectations
  handoff,   \* what the handoff came to
  pass,      \* passes of the artifact policy
  metadata,  \* the verdict in run-metadata.json
  manifest   \* the files the manifest lists

fixed == <<cfg, loose, model>>
batch == <<fixed, results, faults>>
elsewhere == <<cfg, loose, file, cache, results, faults>>
browser == <<page, capture, stopped, done, asked, dirty, failed>>
evidence == <<capable, media, text, expect>>
ending == <<handoff, pass, metadata, manifest>>
run == <<cfg, loose, results, faults, pc, verdict, browser, flags, evidence, ending>>
vars == <<run, model>>

Verdict(o, r) == [outcome |-> o, reason |-> r]
Undecided == Verdict("error", "executor_error")
Ended == {"passed", "failed", "partial", "error"}

NoMedia == [m \in Media |-> "absent"]
NoText == [har |-> "absent", dom |-> 0, leaky |-> FALSE]
NothingExpected == [media |-> {}, har |-> FALSE, dom |-> 0]
NoHandoff == [safe |-> TRUE, prepared |-> FALSE, missing |-> {}]

Init ==
  /\ cfg \in Configs /\ results = <<>> /\ faults = 0 /\ loose = FALSE
  /\ pc = "start" /\ verdict = Undecided
  /\ page = "none" /\ capture = "not-started" /\ stopped = TRUE /\ done = 0
  /\ asked = FALSE /\ dirty = FALSE /\ failed = FALSE /\ flags = {}
  /\ capable = FALSE /\ media = NoMedia /\ text = NoText
  /\ expect = NothingExpected /\ handoff = NoHandoff
  /\ pass = 0 /\ metadata = Undecided /\ manifest = {}
  /\ ClientInit

Fault == faults < MaxFaults /\ faults' = faults + 1
Decide(o, r) == verdict' = Verdict(o, r)

-----------------------------------------------------------------------------
(* runLakda up to the browser.                                               *)

\* The collector cannot be created: runLakda throws and the batch goes on.
WorkerThrows ==
  /\ pc = "start" /\ Len(results) < Workers
  /\ Fault /\ results' = Append(results, "threw")
  /\ UNCHANGED <<fixed, pc, verdict, browser, flags, evidence, ending>>

Begin ==
  /\ pc = "start" /\ Len(results) < Workers
  /\ \/ /\ Decide("partial", "rate_limit") /\ pc' = "decided"
        /\ handoff' = [handoff EXCEPT !.prepared = cfg.attested]
        /\ UNCHANGED <<flags, failed, faults, model>>
     \/ /\ Fault     \* prepareBinaryAttestationRun or the plan throws
        /\ \E p \in {FALSE, cfg.attested} :
             handoff' = [handoff EXCEPT !.prepared = p]
        /\ flags' = flags \cup {"executor"} /\ failed' = TRUE
        /\ pc' = "decided" /\ UNCHANGED <<verdict, model>>
     \/ /\ handoff' = [handoff EXCEPT !.prepared = cfg.attested]
        /\ IF cfg.llm THEN pc' = "preflight" /\ Preflight /\ UNCHANGED <<file, cache>>
                      ELSE pc' = "launch" /\ UNCHANGED model
        /\ UNCHANGED <<verdict, flags, failed, faults>>
  /\ UNCHANGED <<cfg, loose, results, page, capture, stopped, done, asked, dirty,
                 evidence, pass, metadata, manifest>>

\* The model server was asked; the run is over if it does not answer as it
\* should, or the model is another.
PreflightEnds ==
  /\ pc = "preflight" /\ Over /\ Taken
  /\ IF client.result = "ready" THEN pc' = "launch" /\ UNCHANGED <<verdict, failed>>
     ELSE Decide("error", "llm_error") /\ failed' = TRUE /\ pc' = "decided"
  /\ UNCHANGED <<elsewhere, page, capture, stopped, done, asked, dirty, flags,
                 evidence, ending>>

-----------------------------------------------------------------------------
(* executePlan.                                                              *)

\* The catch block of executePlan.
Crash ==
  /\ flags' = flags \cup {"executor"} /\ failed' = TRUE
  /\ verdict' = Undecided /\ pc' = "capture"

\* resetFixture, called only if an action of the plan or catalog mutates.
ResetResult == dirty /\ ~cfg.mutates

Launch ==
  /\ pc = "launch"
  /\ \/ /\ page' = "open" /\ capture' = "active" /\ capable' = TRUE
        /\ expect' = [expect EXCEPT !.har = cfg.har]
        /\ failed' \in BOOLEAN                 \* the persona is not accepted
        /\ dirty' = ResetResult
        /\ pc' = "loop" /\ UNCHANGED <<verdict, flags, faults>>
     \/ /\ Fault /\ Crash /\ dirty' \in {dirty, ResetResult}
        /\ UNCHANGED <<page, capture, capable, expect>>
     \/ /\ Fault /\ Crash /\ capture' = "active" /\ page' \in {"none", "context"}
        /\ dirty' = ResetResult
        /\ UNCHANGED <<capable, expect>>
  /\ UNCHANGED <<fixed, results, stopped, done, asked, media, text, ending>>

Present == {m \in Media : media[m] # "absent"}
Size == Cardinality(Present) + text.dom + (IF text.har = "kept" THEN 1 ELSE 0)

\* writeDomSnapshot
Snapshot ==
  /\ Size < MaxRunFiles
  /\ \E leaky \in BOOLEAN :
       text' = [text EXCEPT !.dom = @ + 1, !.leaky = @ \/ leaky]
  /\ expect' = [expect EXCEPT !.dom = @ + 1]
  /\ UNCHANGED <<verdict, flags, failed, faults>>

\* The next action is known: from the plan, or from the model.
Ready == done < MaxActions /\ pc = (IF cfg.llm THEN "chosen" ELSE "loop")

\* An action that is carried out, and the snapshot after it.
Act ==
  /\ Ready
  /\ done' = done + 1 /\ asked' = cfg.mutates
  /\ dirty' = (dirty \/ cfg.mutates)
  /\ \/ ~cfg.dom /\ pc' = "loop" /\ UNCHANGED <<verdict, flags, text, expect, failed, faults>>
     \/ cfg.dom /\ pc' = "loop" /\ Snapshot
     \/ /\ cfg.dom /\ Size >= MaxRunFiles
        /\ Decide("partial", "artifact_limit") /\ pc' = "capture"
        /\ UNCHANGED <<flags, text, expect, failed, faults>>
     \/ /\ cfg.dom /\ Fault
        /\ flags' = flags \cup {"artifact"} /\ failed' = TRUE
        /\ Decide("error", "artifact_failure") /\ pc' = "capture"
        /\ UNCHANGED <<text, expect>>
  /\ UNCHANGED <<fixed, results, page, capture, stopped, capable, media, ending>>

\* An action that fails or times out ends the loop.
ActionFails ==
  /\ Ready
  /\ dirty' \in {dirty, dirty \/ cfg.mutates} /\ asked' = cfg.mutates
  /\ failed' = TRUE /\ pc' = "judge"
  /\ UNCHANGED <<batch, verdict, page, capture, stopped, done, flags, evidence, ending>>

\* The model is asked for the next action, if a candidate is left to offer.
Ask ==
  /\ cfg.llm /\ pc = "loop" /\ done < MaxActions
  /\ Decision /\ pc' = "asking"
  /\ UNCHANGED <<elsewhere, verdict, browser, flags, evidence, ending>>

\* Its answer; an error goes to the catch block of executePlan.
Chosen ==
  /\ pc = "asking" /\ Over /\ Taken
  /\ \/ client.result = "action" /\ pc' = "chosen" /\ UNCHANGED <<verdict, flags, failed>>
     \/ client.result = "stop" /\ pc' = "judge" /\ UNCHANGED <<verdict, flags, failed>>
     \/ /\ client.result = "hold" /\ Decide("partial", "hold") /\ pc' = "capture"
        /\ UNCHANGED <<flags, failed>>
     \/ client.result \in Failures /\ Crash
  /\ UNCHANGED <<elsewhere, page, capture, stopped, done, asked, dirty, evidence, ending>>

\* The clock or the budget ends the run; the plan, or the candidates for the
\* model, are used up.
Leave ==
  /\ \/ Ready /\ Decide("partial", "duration_limit") /\ pc' = "capture"
     \/ /\ done < MaxActions /\ pc \in {"loop", "chosen"}
        /\ Decide("partial", "rate_limit") /\ pc' = "capture"
     \/ pc = "loop" /\ pc' = "judge" /\ UNCHANGED verdict
  /\ UNCHANGED <<batch, browser, flags, evidence, ending>>

\* assertSafeAction; an obligation that the page cannot be asked about.
Unsafe == Ready
Unanswered == pc = "judge"

Throw ==
  /\ Unsafe \/ Unanswered
  /\ Fault /\ Crash
  /\ UNCHANGED <<fixed, results, page, capture, stopped, done, asked, dirty,
                 evidence, ending>>

Judge ==
  /\ pc = "judge"
  /\ \/ cfg.llm /\ done = MaxActions /\ Decide("partial", "max_actions")
     \/ Decide("partial", "obligations_unmet")
     \/ failed /\ Decide("failed", "machine_failure")
     \/ ~failed /\ Decide("passed", "completed")
  /\ pc' = "capture"
  /\ UNCHANGED <<batch, browser, flags, evidence, ending>>

\* While it is open a page reports failures and finishes what it was asked.
AtWork == page = "open" /\ asked

PageGoesOn ==
  /\ \/ page = "open" /\ failed' = TRUE /\ UNCHANGED dirty
     \/ (AtWork \/ loose) /\ dirty' = TRUE /\ UNCHANGED failed
  /\ UNCHANGED <<batch, pc, verdict, page, capture, stopped, done, asked, flags,
                 evidence, ending>>

-----------------------------------------------------------------------------
(* The finally block of executePlan: evidence of a run that did not pass,    *)
(* the context with its video, the browser, the HAR, the fixture.            *)

ArtifactFault ==
  Fault /\ flags' = flags \cup {"artifact"} /\ failed' = TRUE

\* Both captures are tried; the trace is named only if there is a page.
CaptureEvidence ==
  /\ pc = "capture"
  /\ LET wanted == IF page = "open" /\ (verdict.outcome # "passed" \/ failed)
                   THEN {"screenshot", "trace"} ELSE {}
     IN \/ /\ media' = [m \in Media |-> IF m \in wanted THEN "raw" ELSE media[m]]
           /\ UNCHANGED <<flags, failed, faults>>
        \/ \E lost \in wanted :
             /\ ArtifactFault
             /\ media' = [m \in Media |->
                            IF m \in wanted \ {lost} THEN "raw" ELSE media[m]]
  /\ pc' = "close"
  /\ UNCHANGED <<fixed, results, verdict, page, capture, stopped, done, asked,
                 dirty, capable, text, expect, ending>>

\* The video is there once its page is closed; renaming it may fail half-way.
CloseContext ==
  /\ pc = "close" /\ page # "none"
  /\ LET video == cfg.video # "off" /\ page = "open"
     IN \/ /\ media' = [media EXCEPT !["video"] = IF video THEN "raw" ELSE @]
           /\ page' = "none" /\ text' = [text EXCEPT !.har = IF cfg.har THEN "captured" ELSE @]
           /\ UNCHANGED <<stopped, flags, failed, faults>>
        \/ /\ video /\ ArtifactFault
           /\ \E v \in {"raw", "staged"} : media' = [media EXCEPT !["video"] = v]
           /\ page' = "none" /\ text' = [text EXCEPT !.har = IF cfg.har THEN "captured" ELSE @]
           /\ UNCHANGED stopped
        \/ /\ Fault /\ stopped' = FALSE
           /\ text' \in {text, [text EXCEPT !.har = IF cfg.har THEN "captured" ELSE @]}
           /\ media' \in {media, [media EXCEPT !["video"] = IF video THEN "raw" ELSE @]}
           /\ UNCHANGED <<page, flags, failed>>
  /\ pc' = "browser"
  /\ UNCHANGED <<fixed, results, verdict, capture, done, asked, dirty, capable,
                 expect, ending>>

CloseBrowser ==
  /\ pc = "browser" \/ (pc = "close" /\ page = "none")
  /\ \/ stopped' = stopped /\ page' = "none" /\ UNCHANGED faults
     \/ Fault /\ stopped' = FALSE /\ UNCHANGED page
  /\ capture' = IF capture = "active" /\ stopped' THEN "stopped" ELSE capture
  /\ pc' = "har"
  /\ UNCHANGED <<fixed, results, verdict, done, asked, dirty, failed, flags,
                 evidence, ending>>

\* writeSanitizedHar; it throws if the closed context has not left its HAR.
SaveHar ==
  /\ pc = "har"
  /\ \/ /\ ~cfg.har \/ capture = "not-started"
        /\ UNCHANGED <<text, flags, failed, faults>>
     \/ /\ text.har = "captured" /\ text' = [text EXCEPT !.har = "kept"]
        /\ UNCHANGED <<flags, failed, faults>>
     \/ /\ text.har = "captured" /\ ArtifactFault
        /\ \E h \in {"captured", "kept"} : text' = [text EXCEPT !.har = h]
     \/ /\ cfg.har /\ capture # "not-started" /\ text.har = "absent"
        /\ flags' = flags \cup {"artifact"} /\ failed' = TRUE
        /\ UNCHANGED <<text, faults>>
  /\ pc' = "reset"
  /\ UNCHANGED <<fixed, results, verdict, page, capture, stopped, done, asked,
                 dirty, capable, media, expect, ending>>

ResetFixture ==
  /\ pc = "reset"
  /\ \/ dirty' = ResetResult /\ UNCHANGED <<flags, failed, faults>>
     \/ /\ cfg.mutates /\ Fault
        /\ flags' = flags \cup {"executor"} /\ failed' = TRUE /\ UNCHANGED dirty
  /\ pc' = "decided"
  /\ UNCHANGED <<fixed, results, verdict, page, capture, stopped, done, asked,
                 evidence, ending>>

-----------------------------------------------------------------------------
(* runLakda after the browser.                                               *)

Corrected(v, f) ==
  IF v.outcome # "error" /\ "artifact" \in f THEN Verdict("error", "artifact_failure")
  ELSE IF v.outcome # "error" /\ "executor" \in f THEN Undecided
  ELSE v

\* The flags, the capture that was not stopped, and the retention of the video.
Resolve ==
  /\ pc = "decided"
  /\ LET v == Corrected(verdict, flags)
         running == cfg.attested /\ capture = "active"
         drop == cfg.video = "non-pass" /\ v.outcome = "passed"
     IN \/ /\ running
           /\ flags' = flags \cup {"artifact"} /\ failed' = TRUE
           /\ Decide("error", "artifact_failure")
           /\ handoff' = [handoff EXCEPT !.safe = FALSE]
           /\ UNCHANGED <<media, faults>>
        \/ /\ ~running /\ verdict' = v
           /\ media' = [media EXCEPT !["video"] = IF drop THEN "absent" ELSE @]
           /\ UNCHANGED <<flags, failed, handoff, faults>>
        \/ /\ ~running /\ drop /\ ArtifactFault
           /\ Decide("error", "artifact_failure") /\ UNCHANGED <<media, handoff>>
  /\ pc' = IF handoff.prepared /\ handoff'.safe THEN "handoff" ELSE "finalize"
  /\ UNCHANGED <<fixed, results, page, capture, stopped, done, asked, dirty,
                 capable, text, expect, pass, metadata, manifest>>

\* completeBinaryAttestationRun: some media are adopted, the others are gone
\* and documented; or it throws, whatever it has done by then.
Handoff ==
  /\ pc = "handoff"
  /\ LET raw == {m \in Media : media[m] = "raw"}
     IN \/ \E adopted \in SUBSET raw :
             /\ media' = [m \in Media |-> IF m \in adopted THEN "attested"
                                          ELSE IF m \in raw THEN "absent" ELSE media[m]]
             /\ handoff' = [handoff EXCEPT !.missing = raw \ adopted]
             /\ IF adopted = raw THEN UNCHANGED <<verdict, flags, failed>>
                ELSE /\ flags' = flags \cup {"artifact"} /\ failed' = TRUE
                     /\ Decide("error", "artifact_failure")
             /\ UNCHANGED faults
        \/ \E kept \in SUBSET raw :
             /\ ArtifactFault /\ Decide("error", "artifact_failure")
             /\ media' = [m \in Media |-> IF m \in raw \ kept THEN "absent" ELSE media[m]]
             /\ handoff' = [handoff EXCEPT !.safe = FALSE]
  /\ pc' = "finalize"
  /\ UNCHANGED <<fixed, results, page, capture, stopped, done, asked, dirty,
                 capable, text, expect, pass, metadata, manifest>>

-----------------------------------------------------------------------------
(* The run directory: its metadata, the policy and the manifest.             *)

Retained(o) ==
  cfg.video = "on" \/ (cfg.video = "non-pass" /\ o # "passed")

\* ArtifactCollector.finalize; a handoff that went wrong blocks the rest.
Finalize ==
  /\ pc = "finalize"
  /\ \/ /\ expect' = [expect EXCEPT !.media =
             (IF capable /\ verdict.outcome # "passed" THEN {"screenshot", "trace"} ELSE {})
             \cup (IF capable /\ Retained(verdict.outcome) THEN {"video"} ELSE {})]
        /\ metadata' = verdict /\ pc' = IF handoff.safe THEN "inspect" ELSE "fail"
        /\ UNCHANGED faults
     \/ Fault /\ pc' = "fail" /\ UNCHANGED <<expect, metadata>>
  /\ UNCHANGED <<fixed, results, verdict, browser, flags, capable, media, text,
                 handoff, pass, manifest>>

\* inspectArtifactPolicy
Residual == {m \in Media : cfg.attested /\ media[m] = "raw"}
            \cup (IF text.leaky THEN {"dom"} ELSE {})
Missing == {m \in expect.media : media[m] \notin {"raw", "attested"}}
           \cup (IF expect.har /\ text.har # "kept" THEN {"har"} ELSE {})
           \cup (IF expect.dom # text.dom THEN {"dom"} ELSE {})
Unsupported == {m \in Media : media[m] = "staged"}
SizeExceeded == Size > MaxRunFiles

\* applyArtifactPolicy
Applied(v) ==
  IF Residual \cup Missing \cup Unsupported # {} THEN Verdict("error", "artifact_failure")
  ELSE IF SizeExceeded /\ v.outcome # "error" THEN Verdict("partial", "artifact_limit")
  ELSE v

\* The first inspection throws if media are missing from a run without error.
Inspect ==
  /\ pc = "inspect"
  /\ IF handoff.missing # {} /\ verdict.outcome # "error"
     THEN pc' = "fail" /\ UNCHANGED verdict
     ELSE pc' = "policy" /\ verdict' = Applied(verdict)
  /\ UNCHANGED <<batch, browser, flags, evidence, ending>>

\* removeOptionalDomSnapshots, at the start of a pass.
DropSnapshots ==
  /\ pc = "policy" /\ SizeExceeded /\ text.dom > 0
  /\ text' = [text EXCEPT !.dom = 0, !.leaky = FALSE]
  /\ expect' = [expect EXCEPT !.dom = 0]
  /\ IF verdict.outcome = "error" THEN UNCHANGED verdict
                                  ELSE Decide("partial", "artifact_limit")
  /\ pc' = "remove"
  /\ UNCHANGED <<batch, browser, flags, capable, media, ending>>

\* removeSensitiveArtifacts
RemoveResidual ==
  /\ pc = "remove" \/ (pc = "policy" /\ ~(SizeExceeded /\ text.dom > 0))
  /\ IF Residual = {} THEN UNCHANGED <<media, text, verdict, flags, failed>>
     ELSE /\ media' = [m \in Media |-> IF m \in Residual THEN "absent" ELSE media[m]]
          /\ text' = IF text.leaky THEN [text EXCEPT !.dom = @ - 1, !.leaky = FALSE] ELSE text
          /\ flags' = flags \cup {"artifact"} /\ failed' = TRUE
          /\ Decide("error", "artifact_failure")
  /\ pc' = "update"
  /\ UNCHANGED <<batch, page, capture, stopped, done, asked, dirty, capable,
                 expect, ending>>

\* Mutant of UpdateOutcome: the metadata keep the verdict they were
\* finalized with.
UpdateNothing ==
  /\ pc = "update"
  /\ verdict' = Applied(verdict)
  /\ pc' = IF verdict' = verdict THEN "export" ELSE IF pass = 2 THEN "fail" ELSE "policy"
  /\ pass' = pass + 1
  /\ UNCHANGED <<metadata, batch, browser, flags, evidence, handoff, manifest>>

\* Mutant of UpdateOutcome: the passes go on until the directory is clean.
UpdateUntilClean ==
  /\ pc = "update"
  /\ metadata' = verdict /\ verdict' = Applied(verdict)
  /\ pc' = IF verdict' = verdict /\ Residual \cup Missing = {} THEN "export"
                                                              ELSE "policy"
  /\ UNCHANGED <<batch, browser, flags, evidence, handoff, pass, manifest>>

\* The verdict is written, the directory inspected again, and the verdict
\* corrected; a third correction is one too many.
UpdateOutcome ==
  /\ pc = "update"
  /\ \/ /\ metadata' = verdict /\ UNCHANGED faults
        /\ IF handoff.missing # {} /\ verdict.outcome # "error"
           THEN pc' = "fail" /\ UNCHANGED verdict
           ELSE /\ verdict' = Applied(verdict)
                /\ pc' = IF verdict' = verdict THEN "export"
                         ELSE IF pass = 2 THEN "fail" ELSE "policy"
     \/ Fault /\ pc' = "fail" /\ UNCHANGED <<verdict, metadata>>
  /\ pass' = pass + 1
  /\ UNCHANGED <<fixed, results, browser, flags, evidence, handoff, manifest>>

Listing == {m \in Media : media[m] # "absent"}
           \cup (IF text.har = "kept" THEN {"har"} ELSE {})
           \cup (IF text.dom > 0 THEN {"dom"} ELSE {}) \cup {"metadata"}

\* What exportHate accepts.
Acceptable ==
  /\ Residual \cup Unsupported = {}
  /\ metadata.outcome # "error" => Missing = {}
  /\ Missing \subseteq handoff.missing
  /\ ~(metadata.outcome = "passed" /\ SizeExceeded)

\* exportHate: the policy once more, then the manifest.
Export ==
  /\ pc = "export"
  /\ \/ /\ Acceptable
        /\ manifest' = Listing /\ pc' = "return" /\ UNCHANGED faults
     \/ ~Acceptable /\ pc' = "fail" /\ UNCHANGED <<manifest, faults>>
     \/ Fault /\ pc' = "fail" /\ UNCHANGED manifest
  /\ UNCHANGED <<fixed, results, verdict, browser, flags, evidence, handoff,
                 pass, metadata>>

\* The last catch block: the verdict is written if that is possible.
Fail ==
  /\ pc = "fail"
  /\ flags' = flags \cup {"artifact"} /\ failed' = TRUE
  /\ Decide("error", "artifact_failure")
  /\ \/ metadata' = verdict' /\ UNCHANGED faults
     \/ Fault /\ UNCHANGED metadata
  /\ pc' = "return"
  /\ UNCHANGED <<fixed, results, page, capture, stopped, done, asked, dirty,
                 evidence, handoff, pass, manifest>>

\* The result of the run, and the next worker.
Return ==
  /\ pc = "return"
  /\ results' = Append(results, verdict.outcome)
  /\ pc' = "start" /\ verdict' = Undecided
  /\ page' = "none" /\ capture' = "not-started" /\ stopped' = TRUE /\ done' = 0
  /\ asked' = FALSE /\ failed' = FALSE /\ flags' = {}
  /\ capable' = FALSE /\ media' = NoMedia /\ text' = NoText
  /\ expect' = NothingExpected /\ handoff' = NoHandoff
  /\ pass' = 0 /\ metadata' = Undecided /\ manifest' = {}
  /\ loose' = (loose \/ AtWork)
  /\ UNCHANGED <<cfg, model, faults, dirty>>

\* aggregateOutcomes, and "error" if a worker threw.
Aggregate ==
  LET Is(o) == o \in ToSet(results)
  IN CASE Is("threw") \/ Is("error") -> "error"
       [] Is("failed") -> "failed"
       [] Is("partial") -> "partial"
       [] OTHER -> "passed"

BatchEnded == Len(results) = Workers

Done == BatchEnded /\ UNCHANGED vars

\* The run waits for the client of the model.
Model == ClientStep /\ UNCHANGED run
Replace == Rewrite /\ UNCHANGED run

Step == \/ WorkerThrows \/ Begin \/ PreflightEnds \/ Launch \/ Act
        \/ ActionFails \/ Ask \/ Chosen \/ Model \/ Leave
        \/ Throw \/ Judge \/ CaptureEvidence \/ CloseContext \/ CloseBrowser
        \/ SaveHar \/ ResetFixture \/ Resolve \/ Handoff \/ Finalize \/ Inspect
        \/ DropSnapshots \/ RemoveResidual \/ UpdateOutcome \/ Export \/ Fail
        \/ Return

Next == Step \/ PageGoesOn \/ Replace \/ Done

\* Every call the runner waits for returns or throws: the page and fetch
\* calls have time limits, the others are file operations.
Spec == Init /\ [][Next]_vars /\ WF_vars(Step)

-----------------------------------------------------------------------------
(* Properties.                                                               *)

TypeOK ==
  /\ cfg \in Configs /\ results \in Seq(Ended \cup {"threw"}) /\ loose \in BOOLEAN
  /\ faults \in 0..MaxFaults /\ done \in 0..MaxActions /\ pass \in 0..3
  /\ verdict.outcome \in Ended /\ metadata.outcome \in Ended
  /\ page \in {"none", "context", "open"} /\ capture \in {"not-started", "active", "stopped"}
  /\ {stopped, asked, dirty, failed, capable, text.leaky} \subseteq BOOLEAN
  /\ flags \subseteq {"artifact", "executor"} /\ text.dom \in 0..MaxActions
  /\ text.har \in {"absent", "captured", "kept"}
  /\ media \in [Media -> {"absent", "raw", "staged", "attested"}]

(* A published manifest tells the truth about its directory when the run     *)
(* returns: it lists what is there, the metadata on disk carry the verdict   *)
(* that is returned, and what the verdict calls for is present, or is        *)
(* documented as not adopted in a run that ended in error.                   *)
ManifestIsTrue ==
  manifest # {} =>
    /\ TypeOK
    /\ manifest = Listing
    /\ metadata = verdict
    /\ Missing = {} \/ (verdict.outcome = "error" /\ Missing \subseteq handoff.missing)

(* Nothing is published that must not leave the directory: no file that the  *)
(* scan found something in, no capture that was cut short, and, where        *)
(* attestation is required, no captured byte that was not attested, nothing  *)
(* at all if a capture that was started may still be going on, or the        *)
(* handoff broke off.                                                        *)
PublishedIsSafe ==
  manifest # {} =>
    /\ ~text.leaky /\ Unsupported = {}
    /\ cfg.attested => /\ handoff.safe /\ (capture # "not-started" => stopped)
                       /\ \A m \in Media : media[m] \in {"absent", "attested"}

(* What went wrong is in the verdict: a run that recorded a failure of the   *)
(* executor or of its artifacts ends in error, so does one that leaves the   *)
(* fixture changed, and a batch is passed only if all of its workers are.    *)
(* A page that could not be closed is an exception: nothing tells what it    *)
(* does after the fixture was reset, to its own run or to the next.          *)
VerdictStands ==
  /\ pc = "return" => (flags # {} \/ (asked /\ dirty /\ ~AtWork /\ ~loose) => verdict.outcome = "error")
  /\ BatchEnded => (Aggregate = "passed" <=> \A i \in 1..Workers : results[i] = "passed")

(* Every batch ends with a result for each worker.                           *)
BatchEnds == <>BatchEnded

(* What is published is true, may be published, and hides no failure, with   *)
(* an operation that fails anywhere between the browser and the manifest.    *)
FinalizationInv ==
  /\ ManifestIsTrue
  /\ PublishedIsSafe
  /\ VerdictStands

=============================================================================
