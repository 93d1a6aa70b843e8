---------------------------- MODULE CaseAcceptance ----------------------------
(***************************************************************************)
(* The acceptance of an adaptive run, case by case: a corpus of cases, a   *)
(* manifest of the target, a run, its report, and the suite of sixteen     *)
(* reports (src/acceptance/common.ts, src/adaptive/target-candidate-       *)
(* audit.ts, scripts/run- and verify-adaptive-real-acceptance.mjs).        *)
(*                                                                         *)
(* The script that runs a case writes audits and a verdict; the functions  *)
(* that check a report, used again by the script that verifies the suite,  *)
(* are not the ones that made it.  As in ExplorationAcceptance, a digest   *)
(* is the value that it is the digest of, and what may be absent is a      *)
(* sequence of at most one element.  Lists that the code sorts are sets, a *)
(* path prefix is the set of the paths below it, and AC-AE-001 to -016 are *)
(* numbers.                                                                *)
(***************************************************************************)
EXTENDS Naturals, Sequences, FiniteSets
LOCAL INSTANCE SequencesExt

ExpectedAcceptanceIds == 1..16

SecurityCase == 16

NoDuplicates(s) == \A i, j \in DOMAIN s : s[i] = s[j] => i = j

Elements(s) == {s[i] : i \in DOMAIN s}

-----------------------------------------------------------------------------
(* The manifest of the target, and the configuration that it is applied to *)

\* targetManifestSigningPayload: all but the digest and the signature.
SigningPayload(m) ==
  LET s == m.security[1]
  IN [m EXCEPT !.security =
        <<[f \in DOMAIN s \ {"payload", "signed"} |-> s[f]]>>]

\* assertSecurityTargetManifestSignature.  The key is in the manifest.
SignatureHolds(m, now) ==
  /\ m.security # <<>>
  /\ LET s == m.security[1]
     IN /\ s.payload = SigningPayload(m) /\ s.signed = SigningPayload(m)
        /\ s.from <= now /\ now <= s.until
        /\ s.approval = m.approval

\* loadReadyTargetManifest.
ManifestReady(m, now) ==
  /\ m.status = "ready" /\ m.approved
  /\ m.version = 2 => SignatureHolds(m, now)

\* assertTargetManifestBinding.
BoundTo(m, revision, config) == m.binding = [revision |-> revision, config |-> config]

\* What the configuration says of the authorization is what the manifest says,
\* field by field; its revision is the one that the manifest is bound to.
SecurityApplies(config, m) ==
  /\ m.security # <<>> /\ config.authorization # <<>>
  /\ config.adapter = "security" /\ config.environment = m.environment
  /\ LET a == config.authorization[1]
         s == m.security[1]
     IN /\ config.profile = s.profile
        /\ \A f \in DOMAIN a :
             a[f] = IF f = "revision" THEN m.binding.revision ELSE s[f]

\* applyTargetManifest: what it refuses, and what it overwrites.
Applies(config, m) ==
  /\ m.origin = config.origin
  /\ config.host \in m.hosts /\ m.hosts = config.hosts
  /\ \E prefix \in m.prefixes : config.path \in prefix
  /\ m.settle = config.settle
  /\ config.mutations \subseteq m.mutations
  /\ config.contracts = m.contracts
  /\ m.version = 2 => SecurityApplies(config, m)

Applied(config, m) ==
  [config EXCEPT !.hosts = m.hosts, !.prefixes = m.prefixes,
                 !.exclusions = m.exclusions]

\* What the script requires before the run: x.asked is what the environment
\* names, and a configuration is the one of its case.
MayRunCase(x) ==
  /\ x.corpus.revision = x.asked.revision
  /\ x.asked.case \in DOMAIN x.corpus.cases
  /\ LET selected == x.corpus.cases[x.asked.case]
         m == x.manifest
     IN /\ x.config = selected.config
        /\ ManifestReady(m, x.now)
        /\ BoundTo(m, x.asked.revision, selected.config)
        /\ Applies(x.config, m)
        /\ selected.acceptance = SecurityCase =>
             /\ m.version = 2 /\ x.config.adapter = "security"
             /\ x.config.environment = x.asked.environment

-----------------------------------------------------------------------------
(* auditTargetCandidateCoverage.  A snapshot has the candidates and the debts *)
(* of one observation, and what the adapter counted.                          *)

Valid(snapshots) == {i \in DOMAIN snapshots : snapshots[i].valid}

Counted(snapshots) == {i \in Valid(snapshots) : snapshots[i].counts # <<>>}

\* All candidates, or all debts, one after the other.
All(snapshots, field) ==
  FlattenSeq([i \in DOMAIN snapshots |->
                IF i \in Valid(snapshots) THEN snapshots[i][field] ELSE <<>>])

Sum(snapshots, field) ==
  FoldLeft(LAMBDA n, s : IF s.valid /\ s.counts # <<>> THEN n + s.counts[1][field]
                                                       ELSE n, 0, snapshots)

ActionIds(list) == UNION {Elements(list[i].action) : i \in DOMAIN list}

\* The action identifiers that a manifest calls for.
Required(acceptance) == acceptance.p0 \cup acceptance.p1

Violated(name, of) == {<<name, i>> : i \in of}

SnapshotViolations(snapshots) ==
  LET size(i) == Len(snapshots[i].candidates) + Len(snapshots[i].debts)
      count(i) == snapshots[i].counts[1]
      unresolved(i) == {k \in DOMAIN snapshots[i].candidates :
                          ~snapshots[i].candidates[k].resolved}
  IN UNION {
       Violated("invalid", DOMAIN snapshots \ Valid(snapshots)),
       Violated("unclassified", {i \in Valid(snapshots) : unresolved(i) # {}}),
       Violated("metrics-missing", Valid(snapshots) \ Counted(snapshots)),
       Violated("mismatch", {i \in Counted(snapshots) : count(i).classified # size(i)}),
       Violated("incomplete", {i \in Counted(snapshots) :
                                 \/ count(i).observed # count(i).classified
                                 \/ count(i).unclassified # 0})}

CandidateAudit(snapshots, acceptance) ==
  LET candidates == All(snapshots, "candidates")
      debts == All(snapshots, "debts")
      seen == ActionIds(candidates)
      owed == ActionIds(debts)
      violations == UNION {
        Violated("snapshots-missing", IF snapshots = <<>> THEN {0} ELSE {}),
        SnapshotViolations(snapshots),
        Violated("debt-present", IF debts # <<>> THEN {0} ELSE {}),
        Violated("duplicated", acceptance.p0 \cap acceptance.p1),
        Violated("owed", Required(acceptance) \cap owed),
        Violated("not-observed", Required(acceptance) \ (owed \cup seen))}
  IN [observed |-> Sum(snapshots, "observed"),
      classified |-> Sum(snapshots, "classified"),
      unclassified |-> Sum(snapshots, "unclassified"),
      candidates |-> Len(candidates), debt |-> Len(debts),
      reasons |-> {debts[i].reason : i \in DOMAIN debts} \ {""},
      required |-> Required(acceptance), seen |-> seen, owed |-> owed,
      eligible |-> violations = {}, violations |-> violations]

\* assertCandidateAuditRecordConsistency, with the manifest if it is at hand.
CandidateConsistent(audit, acceptance) ==
  /\ audit.eligible = (audit.violations = {})
  /\ acceptance # <<>> =>
       /\ acceptance[1].p0 \cap acceptance[1].p1 = {}
       /\ audit.required = Required(acceptance[1])

\* assertCandidateAuditInvariants.
CandidateInvariants(audit, acceptance) ==
  /\ CandidateConsistent(audit, acceptance)
  /\ audit.eligible /\ audit.violations = {}
  /\ audit.debt = 0 /\ audit.unclassified = 0 /\ audit.owed = {}
  /\ audit.observed = audit.classified
  /\ audit.classified = audit.candidates + audit.debt
  /\ audit.reasons = {}
  /\ audit.required \subseteq audit.seen

-----------------------------------------------------------------------------
(* buildSecurityAudit, from the trace that the security adapter leaves *)

\* What an entry has to name: the authorization of the configuration.
PolicyBinding(config) ==
  LET a == config.authorization[1]
  IN [id |-> a.id, approval |-> a.approval, profile |-> config.profile,
      revision |-> a.revision]

PermitBinding(config) ==
  LET a == config.authorization[1]
  IN [id |-> a.id, revision |-> a.revision, profile |-> a.profileDigest,
      capability |-> a.capability, bridge |-> a.bridge]

\* What has not been done, given the counts of an audit.
Unevidenced(a) ==
  (IF a.policies < 1 THEN {"policy_evaluation_missing"} ELSE {})
  \cup (IF a.kills < 1 THEN {"kill_switch_check_missing"} ELSE {})
  \cup (IF a.failures > 0 THEN {"cleanup_failed"} ELSE {})
  \cup (IF a.mode = "deny-all"
        THEN IF a.allowed # 0 \/ a.started # 0 \/ a.cleanups # 0
             THEN {"deny_all_started_request"} ELSE {}
        ELSE IF a.allowed < 1 \/ a.started < 1 \/ a.cleanups < 1
             THEN {"authorized_execution_evidence_missing"} ELSE {})

SecurityAudit(trace, config, m) ==
  LET typed(t) == SelectSeq(trace, LAMBDA e : e.type = t)
      policies == typed("security-policy")
      decided(d) == SelectSeq(policies, LAMBDA e : e.decision = d)
      permits == typed("security-permit")
      cleanups == typed("security-cleanup")
      receipts == UNION {Elements(e.ref) : e \in Elements(permits)}
      counts == [mode |-> m.security[1].mode, policies |-> Len(policies),
                 allowed |-> Len(decided("allowed")),
                 denied |-> Len(decided("denied")),
                 started |-> Cardinality(receipts), receipts |-> receipts,
                 cleanups |-> Len(cleanups),
                 failures |-> Len(SelectSeq(cleanups, LAMBDA e : ~e.completed)),
                 kills |-> Len(typed("security-kill-switch"))]
      foreign(list, binding) == \E e \in Elements(list) : e.binding # binding
      violations == Unevidenced(counts)
        \cup (IF foreign(policies, PolicyBinding(config))
              THEN {"policy_binding_mismatch"} ELSE {})
        \cup (IF foreign(permits, PermitBinding(config))
              THEN {"permit_binding_mismatch"} ELSE {})
  IN [f \in DOMAIN counts \cup {"eligible", "violations"} |->
        CASE f = "eligible"   -> violations = {}
          [] f = "violations" -> violations
          [] OTHER            -> counts[f]]

\* assertSecurityAuditInvariants.  It can find again all violations but those
\* of a binding, which it takes from the audit.
SecurityInvariants(a) ==
  LET found == a.violations \cup Unevidenced(a)
  IN /\ a.policies = a.allowed + a.denied
     /\ a.started = Cardinality(a.receipts)
     /\ a.failures <= a.cleanups
     /\ found = a.violations /\ a.eligible = (found = {})

-----------------------------------------------------------------------------
(* The report of a case *)

\* exitCode of a run.
ExitCode(outcome) == CASE outcome = "passed" -> 0 [] outcome = "error" -> 1 [] OTHER -> 2

\* The artifacts of the run that the report is made of.
Evidence(x) ==
  {"oracle-results", "candidate-snapshots"} \cup
    {"trace" : i \in {x.corpus.cases[x.asked.case].acceptance} \cap {SecurityCase}}

CaseReport(x) ==
  LET selected == x.corpus.cases[x.asked.case]
      security == selected.acceptance = SecurityCase
      config == Applied(x.config, x.manifest)
      audit == CandidateAudit(x.files["candidate-snapshots"], x.manifest.acceptance)
      safety == IF security THEN <<SecurityAudit(x.files["trace"], config, x.manifest)>>
                            ELSE <<>>
      passed == /\ x.outcome = selected.outcome /\ audit.eligible
                /\ \A i \in DOMAIN safety : safety[i].eligible
  IN [version |-> IF security THEN 2 ELSE 1, acceptance |-> selected.acceptance,
      case |-> x.asked.case, run |-> x.run, revision |-> x.corpus.revision,
      runner |-> x.commit, origin |-> config.origin, config |-> x.config,
      manifest |-> x.manifest, corpus |-> x.corpus,
      caseConfig |-> selected.config, expected |-> selected.outcome,
      outcome |-> x.outcome, exitCode |-> ExitCode(x.outcome),
      oracle |-> <<x.files["oracle-results"]>>, artifacts |-> x.files,
      audit |-> audit, safety |-> safety,
      verdict |-> IF passed THEN "passed" ELSE "failed",
      reason |-> CASE ~audit.eligible -> <<"target_candidate_audit">>
                   [] security /\ ~safety[1].eligible -> <<"security_audit">>
                   [] passed -> <<>>
                   [] OTHER -> <<"outcome_mismatch">>]

\* assertAcceptanceReportSemantics: of a record that is about to be written
\* (handoff FALSE, with the manifest), or of one that is handed on.
Semantics(r, target, handoff, security) ==
  LET eligible == /\ r.expected = r.outcome /\ r.audit.eligible
                  /\ IF r.safety # <<>> THEN r.safety[1].eligible ELSE ~security
      acceptance == IF target = <<>> THEN <<>> ELSE <<target[1].acceptance>>
  IN /\ r.revision = r.corpus.revision /\ r.config = r.caseConfig
     /\ IF handoff THEN r.verdict = "passed" /\ eligible
                   ELSE r.verdict = IF eligible THEN "passed" ELSE "failed"
     /\ r.exitCode = ExitCode(r.outcome)
     /\ Len(r.oracle) = 1 /\ "oracle-results" \in DOMAIN r.artifacts
     /\ r.artifacts["oracle-results"] = r.oracle[1]
     /\ CandidateConsistent(r.audit, acceptance)
     /\ handoff \/ r.audit.eligible => CandidateInvariants(r.audit, acceptance)
     /\ security => r.safety # <<>>
     /\ r.safety # <<>> => SecurityInvariants(r.safety[1])
     /\ target # <<>> => r.origin = target[1].origin

-----------------------------------------------------------------------------
(* The directory of a run: its files, and the manifest of them *)

\* What runLakda leaves.
Ran(x) ==
  [run |-> x.run, commit |-> x.commit, files |-> x.files,
   hate |-> <<[run |-> x.run, commit |-> x.commit, artifacts |-> x.files]>>]

\* exportHate: the identity is that of the run, the artifacts are what is there.
Exported(d) ==
  [d EXCEPT !.hate = <<[run |-> d.run, commit |-> d.commit, artifacts |-> d.files]>>]

\* The report is written before the manifest is made again.
Written(d, r) ==
  [d EXCEPT !.files = [f \in DOMAIN @ \cup {"report"} |->
                         IF f = "report" THEN r ELSE @[f]]]

\* verifyHateArtifacts and assertManifestIdentity.
HateHolds(d, run) ==
  /\ d.hate # <<>> /\ d.hate[1].run = run
  /\ LET listed == d.hate[1].artifacts
     IN \A f \in DOMAIN listed : f \in DOMAIN d.files /\ d.files[f] = listed[f]

\* assertReportBound: the report, and all that it refers to.
ReportBound(d, r) ==
  LET listed == d.hate[1].artifacts
      is(f, content) == f \in DOMAIN listed /\ listed[f] = content
  IN /\ "report" \in DOMAIN d.files /\ is("report", d.files["report"])
     /\ is("oracle-results", r.oracle[1])
     /\ \A f \in DOMAIN r.artifacts : is(f, r.artifacts[f])

\* The script that runs a case: what it leaves, and its exit code.
CaseEnds(x) ==
  LET r == CaseReport(x)
      d == Exported(Written(Ran(x), r))
      ended(code, dir) == [code |-> code, directory |-> dir]
  IN CASE ~MayRunCase(x) -> ended(2, <<>>)
       [] ~(Evidence(x) \subseteq DOMAIN x.files) -> ended(1, <<Ran(x)>>)
       [] ~Semantics(r, <<x.manifest>>, FALSE, r.version = 2) -> ended(2, <<Ran(x)>>)
       [] ~(HateHolds(d, x.run) /\ ReportBound(d, r)) -> ended(2, <<d>>)
       [] OTHER -> ended(IF r.verdict = "passed" THEN 0 ELSE 2, <<d>>)

-----------------------------------------------------------------------------
(* verify-adaptive-real-acceptance: an index names the file of each report,  *)
(* here by its directory, and its digest.                                    *)

Cohort(r) == [corpus |-> r.corpus, revision |-> r.corpus.revision, runner |-> r.runner]

CaseVerified(entry, d, target, now) ==
  /\ "report" \in DOMAIN d.files /\ d.files["report"] = entry.digest
  /\ LET r == entry.digest
         security == r.acceptance = SecurityCase
     IN /\ security <=> r.version = 2
        /\ security =>
             /\ ManifestReady(target, now) /\ target.version = 2
             /\ r.manifest = target /\ BoundTo(target, r.revision, r.config)
        /\ r.reason = <<>>
        /\ Semantics(r, <<>>, TRUE, security)
        /\ HateHolds(d, r.run) /\ d.hate[1].commit = r.runner
        /\ ReportBound(d, r)

SuiteReady(index, where, target, now) ==
  LET r(i) == index[i].digest
      of(f) == [i \in DOMAIN index |-> r(i)[f]]
  IN /\ Len(index) = Cardinality(ExpectedAcceptanceIds)
     /\ NoDuplicates([i \in DOMAIN index |-> index[i].path])
     /\ NoDuplicates(of("case")) /\ NoDuplicates(of("acceptance"))
     /\ \A i \in DOMAIN index : Cohort(r(i)) = Cohort(r(1))
     /\ \A i \in DOMAIN index : CaseVerified(index[i], where[index[i].path], target, now)
     /\ ExpectedAcceptanceIds \subseteq Elements(of("acceptance"))

-----------------------------------------------------------------------------
(* Claims *)

\* The counts are summed over the snapshots, and yet what is too much in one
\* does not make up for what is missing in another: an audit is eligible exactly
\* when each snapshot is complete, and the checks of the report accept it then.
AuditIsExact(snapshots, acceptance) ==
  LET audit == CandidateAudit(snapshots, acceptance)
      complete(s) ==
        /\ s.valid /\ s.debts = <<>> /\ \A k \in DOMAIN s.candidates : s.candidates[k].resolved
        /\ s.counts = <<[observed |-> Len(s.candidates),
                         classified |-> Len(s.candidates), unclassified |-> 0]>>
      exact == /\ snapshots # <<>> /\ \A i \in DOMAIN snapshots : complete(snapshots[i])
               /\ acceptance.p0 \cap acceptance.p1 = {}
               /\ Required(acceptance) \subseteq ActionIds(All(snapshots, "candidates"))
  IN /\ audit.eligible <=> exact
     /\ audit.eligible => CandidateInvariants(audit, <<acceptance>>)

\* The check of a security audit recomputes from counts what the audit found in
\* the trace, and accepts every audit that is made; an eligible one has a check
\* of the kill switch, cleaned up all, and started nothing if all is denied.
SafetyIsExact(trace, config, m) ==
  LET audit == SecurityAudit(trace, config, m)
      some(t) == \E e \in Elements(trace) : e.type = t
  IN /\ SecurityInvariants(audit)
     /\ audit.eligible =>
          /\ some("security-policy") /\ some("security-kill-switch")
          /\ \A e \in Elements(trace) : e.type = "security-cleanup" => e.completed
          /\ some("security-cleanup") <=> m.security[1].mode # "deny-all"
          /\ m.security[1].mode # "deny-all" => some("security-permit")

\* A run that was permitted and left its evidence always ends in a report,
\* whatever its outcome, with exit code 0 exactly when the report can be handed
\* on; unless the manifest calls for an action twice, in which case the audit
\* names the action and no report is written that says so.
EveryCaseIsReported(x) ==
  LET end == CaseEnds(x)
      r == CaseReport(x)
  IN MayRunCase(x) /\ Evidence(x) \subseteq DOMAIN x.files =>
       IF x.manifest.acceptance.p0 \cap x.manifest.acceptance.p1 = {}
       THEN /\ "report" \in DOMAIN end.directory[1].files
            /\ end.code = 0 <=> Semantics(r, <<>>, TRUE, r.version = 2)
            /\ r.reason = <<>> <=> r.verdict = "passed"
       ELSE end.code = 2 /\ "report" \notin DOMAIN end.directory[1].files

\* A case is verified exactly when the run of it ended well: not if the script
\* died before it made the manifest again, nor with a file of another run in it.
OnlyWholeCases(x, y) ==
  LET d == CaseEnds(x).directory[1]
      e == CaseEnds(y).directory[1]
      entry == [path |-> 1, digest |-> CaseReport(x)]
      verified(dir) == CaseVerified(entry, dir, x.manifest, x.now)
      without(f) == [g \in DOMAIN d.files \ {f} |-> d.files[g]]
  IN CaseEnds(x).code = 0 /\ CaseEnds(y).code = 0 =>
       /\ verified(d)
       /\ ~verified(Written(Ran(x), CaseReport(x)))
       /\ \A f \in DOMAIN d.files :
            /\ ~verified([d EXCEPT !.files = without(f)])
            /\ f \in DOMAIN e.files /\ e.files[f] # d.files[f] =>
                 ~verified([d EXCEPT !.files[f] = e.files[f]])
       /\ e.hate # d.hate => ~verified([d EXCEPT !.hate = e.hate])

\* A suite is ready exactly when it has a case that ended well for each of the
\* sixteen, of one corpus and one revision of the runner.
SuiteIsWhole(runs, target, now) ==
  LET ends == [i \in DOMAIN runs |-> CaseReport(runs[i])]
      where == [i \in DOMAIN runs |-> Exported(Written(Ran(runs[i]), ends[i]))]
      index == [i \in DOMAIN runs |-> [path |-> i, digest |-> ends[i]]]
      whole ==
        /\ {ends[i].acceptance : i \in DOMAIN runs} = ExpectedAcceptanceIds
        /\ Len(runs) = 16 /\ NoDuplicates([i \in DOMAIN runs |-> ends[i].case])
        /\ \A i \in DOMAIN runs :
             /\ ends[i].verdict = "passed"
             /\ runs[i].corpus = runs[1].corpus /\ runs[i].commit = runs[1].commit
             /\ ends[i].version = 2 => runs[i].manifest = target
  IN SuiteReady(index, where, target, now) <=> whole

\* The sixteenth case cannot be run.  A configuration has to contain the digest
\* of the payload that the manifest signs, and the payload the digest of the
\* configuration: however often either is made again to fit the other, one of
\* them names an older version.  It could, did the configuration leave out the
\* digest.  The rounds are those in which the two are made again.
SecurityCaseCannotRun(x, rounds) ==
  LET configured(y) == [y EXCEPT !.config.authorization[1].payload = y.manifest.security[1].payload]
      signed(y) ==
        LET bound == [y.manifest EXCEPT !.binding.config = y.config]
            payload == SigningPayload(bound)
        IN [y EXCEPT !.corpus.cases[y.asked.case].config = y.config,
                     !.manifest = [bound EXCEPT !.security[1].payload = payload,
                                                !.security[1].signed = payload]]
      plain == [f \in DOMAIN x.config.authorization[1] \ {"payload"} |->
                  x.config.authorization[1][f]]
      after[n \in 0..rounds] == IF n = 0 THEN signed(x) ELSE signed(configured(after[n - 1]))
  IN x.corpus.cases[x.asked.case].acceptance = SecurityCase =>
       /\ \A n \in 0..rounds :
            ~MayRunCase(after[n]) /\ ~MayRunCase(configured(after[n]))
       /\ MayRunCase(signed([x EXCEPT !.config.authorization = <<plain>>]))
=============================================================================
