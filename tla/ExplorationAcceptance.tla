------------------------ MODULE ExplorationAcceptance ------------------------
(***************************************************************************)
(* From a signed target manifest to the acceptance of five lanes: what     *)
(* `explore run` checks before it touches a real target, what the report   *)
(* of the session says afterwards, and what `explore acceptance` requires  *)
(* of the files of each session before it calls the whole set eligible     *)
(* (src/exploration: contracts.ts, target-manifest.ts, session.ts,         *)
(* acceptance.ts; src/commands/exploration.ts).                            *)
(*                                                                         *)
(* The three are written separately and never call each other; they meet   *)
(* in the files.  A digest is the value that it is the digest of, and a    *)
(* signature the payload it is about with the key that made it.  A value   *)
(* that may be absent is a sequence of at most one element.  Paths inside  *)
(* a session are left out: a file is where it belongs, or not there.       *)
(***************************************************************************)
EXTENDS Naturals, Sequences, FiniteSets

Lanes == {"pc-web", "mobile-web", "windows", "android", "ios"}

NativeLanes == {"windows", "android", "ios"}

NoDuplicates(s) == \A i, j \in DOMAIN s : s[i] = s[j] => i = j

Elements(s) == {s[i] : i \in DOMAIN s}

\* sameStringSet: as sets, and neither has a duplicate.
SameSet(s, t) == NoDuplicates(s) /\ NoDuplicates(t) /\ Elements(s) = Elements(t)

-----------------------------------------------------------------------------
(* The charter, and what an adapter says that it can do *)

CharterOK(c) ==
  /\ c.mode = "real" => c.signed
  /\ IF c.platform \in NativeLanes
     THEN c.adapter = "airtest-poco" /\ c.endpoint /\ c.kind # <<>>
     ELSE c.adapter = "playwright" /\ c.origin # <<>>
  /\ c.origin # <<>> => c.inScope

\* What the digest of a snapshot is about: all but the time it was taken and
\* the digest that the bridge gives of itself.
Stable(s) == [f \in DOMAIN s \ {"at", "raw"} |-> s[f]]

\* A real lane needs an observed revision; any other takes the charter's.
Observable(c, o) == c.mode = "real" => o.revision # <<>>

\* capabilitySnapshotFromAdapter: what was observed, at a time, for a charter.
Snapshot(c, o, now) ==
  LET seen == [lane |-> c.platform, mode |-> c.mode, at |-> now, raw |-> <<>>,
               revision |-> IF o.revision = <<>> THEN c.revision
                                                 ELSE o.revision[1],
               adapter |-> o.adapter, kinds |-> o.kinds, device |-> o.device,
               surface |-> o.surface, can |-> o.can, live |-> o.live,
               bridge |-> o.bridge, corpus |-> o.corpus]
  IN [seen EXCEPT !.raw = IF o.raw = <<>> THEN <<Stable(seen)>> ELSE o.raw]

\* assertExplorationCapabilityForCharter.
CapabilityFits(c, s) ==
  /\ CharterOK(c)
  /\ s.lane = c.platform /\ s.adapter = c.adapter /\ s.revision = c.revision
  /\ s.live
  /\ Elements(c.kind) \subseteq s.kinds
  /\ {"screen", "tap", "screenshot"} \subseteq s.can
  /\ c.platform \in NativeLanes =>
       /\ c.native # <<>> /\ s.device # <<>> /\ s.surface # <<>>
       /\ s.device[1].platform = c.platform
       /\ c.corpus # <<>> => s.corpus = c.corpus
       /\ s.device[1].app = c.native[1].app
       /\ s.surface[1] \in c.native[1].surfaces
       /\ s.can \cap {"templateMatch", "pocoHierarchy"} # {}
       /\ c.video => \/ "video" \in s.can
                     \/ c.frames /\ "sampledFrames" \in s.can

-----------------------------------------------------------------------------
(* Signatures and the target manifest *)

KeysOf(store, id) == {i \in DOMAIN store : store[i].id = id}

\* uniqueTrustKey: the key of that name, and no second one of it.
UniquelyTrusts(store, id, key) ==
  \E i \in DOMAIN store : KeysOf(store, id) = {i} /\ store[i].key = key

\* verifyTrustedEd25519Payload: the first key of that name.
Trusted(payload, signature, store) ==
  /\ signature.payload = payload
  /\ \E i \in KeysOf(store, signature.id) :
       /\ \A j \in KeysOf(store, signature.id) : i <= j
       /\ store[i].key = signature.by

\* signingPayload.
Unsigned(x) == [f \in DOMAIN x \ {"signature"} |-> x[f]]

\* What the manifest of a native lane has to say about the application.
NamesTarget(m, c) ==
  IF c.platform \in NativeLanes
  THEN /\ m.kind = "native" /\ m.app # <<>>
       /\ m.version = 1 => m.appRevision # <<>> /\ m.alias # <<>>
       /\ c.native # <<>> /\ c.native[1].app = m.app[1]
  ELSE m.kind = "web"

\* verifyTargetManifestBytes.  A manifest of the second version is good for a
\* caller that only validates, and its last moment is not.
ManifestAccepted(m, c, config, store, at, policy) ==
  /\ m.version = 2 => policy = "validate-only"
  /\ m.charter = c /\ m.config = config
  /\ m.revision = c.revision /\ m.platform = c.platform
  /\ m.adapter = c.adapter /\ m.mode = c.mode
  /\ UniquelyTrusts(store, m.signature.id, m.signature.by)
  /\ m.signature.payload = Unsigned(m)
  /\ m.from <= at /\ IF m.version = 2 THEN at < m.until ELSE at <= m.until
  /\ c.origin # <<>> => m.origin = c.origin
  /\ NamesTarget(m, c)
  /\ c.corpus # <<>> => m.corpus = c.corpus
  /\ m.mutations \subseteq {"none"} /\ m.inScope

-----------------------------------------------------------------------------
(* What `explore run` and `explore resume` accept *)

\* preflightTarget, for a real target.
Preflight(c, config, m, store, now) ==
  /\ c.signed
  /\ c.platform \in NativeLanes => c.corpus # <<>>
  /\ ManifestAccepted(m, c, config, store, now, "validate-only")
  /\ m.version = 2 => ~c.video /\ ~c.frames
  /\ c.platform \notin NativeLanes => m.probe

\* assertTemplateCorpusBinding, which only the native adapter is subject to.
CorpusBound(c, observed, m) ==
  c.platform \in NativeLanes =>
    observed = c.corpus /\ (m # <<>> => m[1].corpus = observed)

\* A field of the device that the manifest names is that of the snapshot.
OnDevice(m, s, field) ==
  m[field] # <<>> => s.device # <<>> /\ s.device[1][field] = m[field][1]

\* assertTargetManifestBinding.  What the adapter is bound to is in the snapshot
\* as well: for the browser as its own digest, for a bridge as the bridge's.
Bound(m, s) ==
  /\ s.raw = <<m.binding.capability>> /\ s.bridge = <<m.binding.bridge>>
  /\ m.revision = s.revision /\ m.corpus = s.corpus
  /\ m.app = IF s.device = <<>> THEN <<>> ELSE <<s.device[1].app>>
  /\ \A f \in {"appRevision", "serial", "alias"} : OnDevice(m, s, f)

\* assertResumeCapabilityBinding.
SameCapability(stored, current) ==
  Stable(stored) = Stable(current) /\ stored.raw = current.raw

\* The checks of exploreRunCommand before the run starts.
MayStart(c, config, m, o, store, now) ==
  LET s == Snapshot(c, o, now)
  IN /\ CharterOK(c) /\ Observable(c, o)
     /\ Preflight(c, config, m, store, now)
     /\ CorpusBound(c, o.corpus, <<m>>)
     /\ CapabilityFits(c, s) /\ Bound(m, s)

\* The checks of exploreResumeCommand, for a session in the directory d.
MayResume(d, m, o, store, now) ==
  LET c == d.charter[1]
      s == Snapshot(c, o, now)
  IN /\ d.session.charter = c /\ d.capability # <<>>
     /\ d.session.status \in {"paused", "draft"}
     /\ CapabilityFits(c, d.capability[1])
     /\ d.session.capability = <<Stable(d.capability[1])>>
     /\ MayStart(c, d.session.config, m, o, store, now)
     /\ SameCapability(d.capability[1], s)

-----------------------------------------------------------------------------
(* The files of a session *)

\* What a run leaves for its session: its manifest is copied, and its outcome
\* becomes that of the session (executeSession, checkpointFromRun).
AfterRun(d, run) ==
  LET s == [d.session EXCEPT
              !.status = CASE run.outcome = "error" -> "aborted"
                           [] run.held -> "paused"
                           [] OTHER -> "completed",
              !.outcome = <<run.outcome>>,
              !.runs = Append(@, run.id),
              !.refs = Append(@, [run |-> run.id, digest |-> run.manifest]),
              !.blockers = IF run.outcome = "error"
                           THEN {"adaptive-executor-error"} ELSE @]
  IN [d EXCEPT !.session = s, !.events.projected = s,
               !.checkpoint = <<run.id>>, !.run = <<run.files>>,
               !.manifests = [r \in DOMAIN @ \cup {run.id} |->
                                IF r = run.id THEN run.manifest ELSE @[r]]]

\* A session that has been created, checked and started at a time.
Started(id, c, config, m, o, now) ==
  LET capability == Snapshot(c, o, now)
      s == [id |-> id, platform |-> c.platform, charter |-> c,
            config |-> config, status |-> "running", outcome |-> <<>>,
            target |-> <<m>>, capability |-> <<Stable(capability)>>,
            runs |-> <<>>, refs |-> <<>>, blockers |-> {}]
  IN [session |-> s, charter |-> <<c>>, capability |-> <<capability>>,
      events |-> [projected |-> s, started |-> <<[at |-> now, target |-> <<m>>]>>],
      target |-> <<m>>, manifests |-> <<>>, findings |-> <<{}>>, run |-> <<>>,
      checkpoint |-> <<>>, report |-> <<>>, hate |-> <<>>]

\* A resume copies the manifest of that day, and its event names it.
Resumed(d, m) ==
  LET s == [d.session EXCEPT !.status = "running", !.target = <<m>>]
  IN [d EXCEPT !.session = s, !.events.projected = s, !.target = <<m>>]

\* The files that acceptance asks for: a session names its checkpoint from the
\* start.
Required == {"charter", "session", "events", "capability", "target", "findings",
             "report", "checkpoint"}

Content(d, f) ==
  CASE f \in DOMAIN d.manifests    -> <<d.manifests[f]>>
    [] f \in {"session", "events"} -> <<d[f]>>
    [] OTHER                       -> d[f]

Exists(d, f) == f \in DOMAIN d.manifests \cup DOMAIN d /\ Content(d, f) # <<>>

\* readAdaptiveCoverage: what is wrong with the captures of the last run.  The
\* media it retained are named by the attestors that vouch for them.
CaptureFailures(d, allowed, real) ==
  IF d.run = <<>> THEN {}
  ELSE IF d.run[1].coverage # "valid"
  THEN {"adaptive-coverage-" \o d.run[1].coverage}
  ELSE IF ~real THEN {}
  ELSE {"binary-attestation-key-allowlist-mismatch" :
          x \in IF d.run[1].policy = allowed THEN {} ELSE d.run[1].media}
       \cup {"binary-attestation-required" : x \in d.run[1].media \ allowed}

\* The attestors of the copied manifest, or nobody.  It is verified as of now,
\* with a trust store looked up from the session's directory.
AllowedAttestors(d, store, now) ==
  LET c == d.charter[1]
  IN IF /\ c.mode = "real" /\ d.target # <<>>
        /\ ManifestAccepted(d.target[1], c, d.session.config, store, now, "none")
     THEN d.target[1].attestors
     ELSE {}

FixtureModes == {"fixture", "mock", "emulator"}

\* buildExplorationReport.
Report(d, store, now) ==
  LET c == d.charter[1]
      s == d.session
      failures == CaptureFailures(d, AllowedAttestors(d, store, now),
                                  c.mode = "real")
      pending == /\ c.mode = "real" \/ c.platform \in NativeLanes
                 /\ s.status = "completed"
  IN [session |-> s.id, charter |-> s.charter, platform |-> s.platform,
      revision |-> c.revision, mode |-> c.mode, runs |-> s.runs,
      outcome |-> s.outcome, failures |-> failures,
      status |-> IF pending THEN "pending_external" ELSE s.status,
      acceptance |-> IF c.mode \in FixtureModes THEN "fixture_only"
                                                ELSE "pending_external",
      blockers |->
        s.blockers \cup failures
        \cup {"technical-outcome" : x \in Elements(s.outcome) \ {"passed"}}
        \cup (IF pending THEN {"real-lane-acceptance-required"} ELSE {})]

\* buildSessionHateManifest: every file that is there, and what it shows.
HateManifest(d) ==
  LET files == {f \in Required \cup DOMAIN d.manifests : Exists(d, f)}
  IN [id |-> d.session.id,
      artifacts |-> [f \in files |-> [digest |-> Content(d, f), safe |-> TRUE]]]

\* The report and, after it, the manifest, which has the report in it.
Reported(d, store, now) ==
  LET r == [d EXCEPT !.report = <<Report(d, store, now)>>]
  IN [r EXCEPT !.hate = <<HateManifest(r)>>]

-----------------------------------------------------------------------------
(* verifyEntry *)

SessionVerified(e, d) ==
  LET s == d.session
      named == [i \in DOMAIN s.refs |-> s.refs[i].run]
  IN /\ d.events.projected = s       \* else it is refused, or written again
     /\ s.id = e.session /\ s.platform = e.platform /\ s.status = "completed"
     /\ s.outcome = <<"passed">> /\ s.target # <<>>
     /\ s.runs # <<>> /\ SameSet(s.runs, named)
     /\ d.events.started # <<>> /\ d.events.started[1].target = s.target

CharterVerified(e, d) ==
  /\ d.charter # <<>> /\ CharterOK(d.charter[1])
  /\ LET c == d.charter[1]
     IN /\ c.mode = "real" /\ c.platform = e.platform
        /\ c.revision = e.revision /\ d.session.charter = c

CapabilityVerified(e, d) ==
  /\ d.capability # <<>>
  /\ LET s == d.capability[1]
     IN /\ s.lane = e.platform /\ s.revision = e.revision /\ s.mode = "real"
        /\ CapabilityFits(d.charter[1], s)
        /\ s.bridge # <<>> /\ s.raw # <<>>
        /\ d.session.capability = <<Stable(s)>>

RunsVerified(d) ==
  \A i \in DOMAIN d.session.refs :
    LET ref == d.session.refs[i]
    IN /\ ref.run \in DOMAIN d.manifests /\ d.manifests[ref.run] = ref.digest
       /\ ref.digest.run = ref.run /\ ref.digest.safe

\* The signature is verified as of the start of the session.
TargetVerified(e, d, store) ==
  /\ d.target # <<>> /\ d.session.target = d.target
  /\ LET m == d.target[1]
         s == d.capability[1]
     IN /\ ManifestAccepted(m, d.charter[1], d.session.config, store,
                            d.events.started[1].at, "none")
        /\ m.platform = e.platform /\ m.revision = e.revision /\ m.mode = "real"
        /\ s.raw = <<m.binding.capability>> /\ s.bridge = <<m.binding.bridge>>

ReportVerified(e, d) ==
  /\ d.report = <<e.report>>
  /\ LET r == e.report
     IN /\ r.session = e.session /\ r.platform = e.platform
        /\ r.revision = e.revision /\ r.mode = e.mode
        /\ r.charter = d.session.charter
        /\ r.status \in {"completed", "pending_external"}
        /\ SameSet(d.session.runs, r.runs)
        /\ r.outcome = <<"passed">> /\ r.failures = {}
        /\ r.blockers \subseteq {"real-lane-acceptance-required"}
        /\ r.acceptance = "pending_external"

\* Each file that is required is in the manifest, and what is in it is there.
HateVerified(e, d) ==
  /\ d.hate = <<e.hate>> /\ e.hate.id = e.session
  /\ LET listed == e.hate.artifacts
     IN /\ Required \cup {d.session.refs[i].run : i \in DOMAIN d.session.refs}
             \subseteq DOMAIN listed
        /\ \A f \in DOMAIN listed :
             /\ listed[f].safe
             /\ Exists(d, f) /\ Content(d, f) = listed[f].digest

Verified(e, d, store) ==
  /\ e.mode = "real"
  /\ SessionVerified(e, d)
  /\ CharterVerified(e, d)
  /\ CapabilityVerified(e, d)
  /\ RunsVerified(d)
  /\ TargetVerified(e, d, store)
  /\ ReportVerified(e, d)
  /\ HateVerified(e, d)
  /\ Trusted(Unsigned(e), e.signature, store)

-----------------------------------------------------------------------------
(* aggregateExplorationAcceptance.  An index names the lanes and has an entry *)
(* for each session; `where` is the directory of each entry.                  *)

IndexOK(required, entries) ==
  /\ Len(required) = Cardinality(Lanes) /\ Lanes \subseteq Elements(required)
  /\ NoDuplicates([i \in DOMAIN entries |-> entries[i].platform])

Aggregate(entries, where, store) ==
  LET good == {i \in DOMAIN entries : Verified(entries[i], where[i], store)}
  IN IF good # DOMAIN entries THEN "rejected"
     ELSE IF {entries[i].platform : i \in good} # Lanes THEN "pending_external"
     ELSE "eligible"

\* exploreAcceptanceCommand: the exit code.
ExitCode(status) == IF status = "eligible" THEN 0 ELSE 2

-----------------------------------------------------------------------------
(* Claims.  An execution x is a charter with its configuration, a manifest and *)
(* what the adapter reports, the trust store, the times at which it starts and *)
(* is reported, and what the run comes to.                                     *)

Allowed(x) ==
  MayStart(x.charter, x.config, x.manifest, x.observed, x.store, x.begin)

Directory(x) ==
  Reported(AfterRun(Started(x.id, x.charter, x.config, x.manifest, x.observed,
                            x.begin), x.run), x.root, x.end)

\* The entry that an operator signs for a directory.
Entry(d, id, key) ==
  LET e == [session |-> d.session.id, platform |-> d.session.platform,
            mode |-> "real", revision |-> d.report[1].revision,
            report |-> d.report[1], hate |-> d.hate[1]]
  IN [f \in DOMAIN e \cup {"signature"} |->
        IF f = "signature" THEN [id |-> id, by |-> key, payload |-> e] ELSE e[f]]

\* What a run that was permitted has to come to: it passed, its captures are
\* read, and the media it kept are vouched for by attestors of a manifest that
\* the report can still verify.
Deserves(x) ==
  LET files == x.run.files
  IN /\ x.manifest.version = 1
     /\ x.run.outcome = "passed" /\ ~x.run.held /\ x.run.manifest.safe
     /\ files.coverage = "valid"
     /\ files.media # {} =>
          /\ files.media \subseteq files.policy
          /\ files.policy = x.manifest.attestors
          /\ x.end <= x.manifest.until /\ x.root # <<>>

\* The checks before a run and those of its files afterwards, which share no
\* code but the verification of the manifest, agree: what `explore run` permits
\* is verified by `explore acceptance` exactly when the run deserves it.  The
\* manifest may have expired since, unless media were kept.
PermittedIsVerified(x, id, key) ==
  LET d == Directory(x)
  IN Allowed(x) => (Verified(Entry(d, id, key), d, x.store) <=> Deserves(x))

\* The files in which two executions may differ unnoticed are those that the
\* session does not bind: its findings, its checkpoint, and the time at which
\* the capability was captured.
Same(d, e) ==
  /\ d.session = e.session /\ d.events = e.events
  /\ d.charter = e.charter /\ d.target = e.target /\ d.manifests = e.manifests
  /\ SameCapability(d.capability[1], e.capability[1])

\* A directory put together from two permitted executions, with a report and a
\* manifest made for it and signed anew, is verified only if it is one of them.
NothingIsMixed(x, y, id, key) ==
  \A fromY \in SUBSET {"session", "events", "charter", "capability", "target",
                       "manifests"} :
    LET dx == Directory(x)
        dy == Directory(y)
        mixed == [f \in DOMAIN dx |-> IF f \in fromY THEN dy[f] ELSE dx[f]]
        d == Reported(mixed, x.root, x.end)
    IN /\ Allowed(x) /\ Allowed(y)
       /\ Verified(Entry(d, id, key), d, x.store)
       => Same(d, dx) \/ Same(d, dy)

\* Once the entry is signed, no file of the session can be replaced by that of
\* another execution, nor be removed, the unbound ones included.
NothingIsReplaced(x, y, id, key) ==
  \A f \in Required :
    LET dx == Directory(x)
        dy == Directory(y)
        e == Entry(dx, id, key)
    IN /\ dy[f] # dx[f] => ~Verified(e, [dx EXCEPT ![f] = dy[f]], x.store)
       /\ f \notin {"session", "events"} =>
            ~Verified(e, [dx EXCEPT ![f] = <<>>], x.store)

\* A session that was held, and resumed with a manifest renewed in between, may
\* be resumed and pass, and is not verified: its start names the manifest of
\* that day.  With the same manifest it is.
RenewalIsRefused(x, renewed, again, id, key) ==
  LET held == AfterRun(Started(x.id, x.charter, x.config, x.manifest, x.observed,
                               x.begin), [x.run EXCEPT !.held = TRUE])
      after(m) == Reported(AfterRun(Resumed(held, m), again), x.root, x.end)
      verified(m) == Verified(Entry(after(m), id, key), after(m), x.store)
      may(m) == MayResume(held, m, x.observed, x.store, x.end)
  IN Allowed(x) /\ may(renewed) /\ renewed # x.manifest /\ Deserves(x) =>
       /\ ~verified(renewed)
       /\ may(x.manifest) => verified(x.manifest)

\* The set is eligible exactly when each lane has an entry and none is refused;
\* the lanes that are missing do not hide one that is refused.
OnlyAllIsEligible(entries, where, store) ==
  LET status == Aggregate(entries, where, store)
      bad == {i \in DOMAIN entries : ~Verified(entries[i], where[i], store)}
  IN /\ ExitCode(status) = 0 <=>
           /\ bad = {}
           /\ \A lane \in Lanes :
                \E i \in DOMAIN entries :
                  entries[i].platform = lane /\ where[i].session.platform = lane
     /\ status = "rejected" <=> bad # {}
=============================================================================
