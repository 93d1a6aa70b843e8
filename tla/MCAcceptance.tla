---------------------------- MODULE MCAcceptance ----------------------------
(* Executions on which TLC compares the checks before a run with the report    *)
(* and the acceptance after it: of the sessions of five lanes, and of cases.   *)
LOCAL INSTANCE Naturals
LOCAL INSTANCE Sequences

Gate == INSTANCE ExplorationAcceptance

Cases == INSTANCE CaseAcceptance

LOCAL Keys == <<[id |-> "owner", key |-> 1], [id |-> "twice", key |-> 2],
                [id |-> "twice", key |-> 3]>>

LOCAL IsNative(lane) == lane \in Gate!NativeLanes

LOCAL Charter(lane, corpus, video) ==
  [platform |-> lane, mode |-> "real", revision |-> 1, signed |-> TRUE,
   adapter |-> IF IsNative(lane) THEN "airtest-poco" ELSE "playwright",
   endpoint |-> IsNative(lane),
   kind |-> IF IsNative(lane) THEN <<"device">> ELSE <<>>,
   origin |-> IF IsNative(lane) THEN <<>> ELSE <<"site">>, inScope |-> TRUE,
   native |-> IF IsNative(lane)
              THEN <<[app |-> "app", surfaces |-> {"main"}]>> ELSE <<>>,
   corpus |-> corpus, video |-> video, frames |-> FALSE]

LOCAL Observed(lane, revision, corpus, bridge) ==
  [revision |-> <<revision>>, live |-> TRUE, bridge |-> <<[bridge |-> bridge]>>,
   adapter |-> IF IsNative(lane) THEN "airtest-poco" ELSE "playwright",
   kinds |-> IF IsNative(lane) THEN {"device"} ELSE {"page", "frame", "dialog"},
   can |-> {"screen", "tap", "screenshot", "templateMatch", "video"},
   surface |-> IF IsNative(lane) THEN <<"main">> ELSE <<>>,
   device |-> IF IsNative(lane)
              THEN <<[platform |-> lane, app |-> "app", appRevision |-> 1,
                      serial |-> "s", alias |-> "a"]>> ELSE <<>>,
   corpus |-> corpus,
   raw |-> IF IsNative(lane) THEN <<[tools |-> bridge]>> ELSE <<>>]

\* The manifest that an owner signs for a charter and an observation.
LOCAL Manifest(c, config, o, version, until, id, by) ==
  LET m == [version |-> version, charter |-> c, config |-> config,
            revision |-> 1, platform |-> c.platform, adapter |-> c.adapter,
            mode |-> "real", kind |-> IF IsNative(c.platform) THEN "native" ELSE "web",
            origin |-> c.origin, probe |-> TRUE, inScope |-> TRUE,
            app |-> IF IsNative(c.platform) THEN <<"app">> ELSE <<>>,
            appRevision |-> IF IsNative(c.platform) THEN <<1>> ELSE <<>>,
            alias |-> IF IsNative(c.platform) THEN <<"a">> ELSE <<>>,
            serial |-> <<>>, corpus |-> c.corpus, mutations |-> {"none"},
            binding |-> [capability |-> Gate!Snapshot(c, o, 1).raw[1],
                         bridge |-> o.bridge[1]],
            attestors |-> {"attestor"}, from |-> 1, until |-> until]
  IN [f \in DOMAIN m \cup {"signature"} |->
        IF f = "signature" THEN [id |-> id, by |-> by, payload |-> m] ELSE m[f]]

LOCAL Run(id, outcome, files) ==
  [id |-> id, outcome |-> outcome, held |-> FALSE, files |-> files,
   manifest |-> [run |-> id, safe |-> TRUE, content |-> outcome]]

LOCAL Files(coverage, media, policy) ==
  [coverage |-> coverage, media |-> media, policy |-> policy]

LOCAL Kept == Files("valid", {"attestor"}, {"attestor"})

LOCAL Execution(id, lane, config, revision, begin, end, version, owner, root, run) ==
  LET corpus == IF IsNative(lane) THEN <<"corpus">> ELSE <<>>
      c == Charter(lane, corpus, version = 1)
      o == Observed(lane, revision, corpus, config)
  IN [id |-> id, charter |-> c, config |-> config, observed |-> o,
      manifest |-> Manifest(c, config, o, version, 2, owner,
                            IF owner = "owner" THEN 1 ELSE 2),
      store |-> Keys, begin |-> begin, end |-> end, root |-> root, run |-> run]

\* Every lane, both versions (the second without video); a manifest that is not yet or no more valid, in
\* whose name two keys sign, or for another revision; a trust store that the
\* report finds or not; runs of every outcome, with media or without.
LOCAL Executions ==
  {Execution("s", lane, "k", revision, begin, end, version, owner, root,
             Run("r", outcome, files)) :
     lane \in Gate!Lanes, revision \in {1, 2}, begin \in 0..3, end \in {2, 3},
     version \in {1, 2}, owner \in {"owner", "twice", "nobody"},
     root \in {Keys, <<>>}, outcome \in {"passed", "failed", "partial", "error"},
     files \in {Kept, Files("valid", {}, {"attestor"}),
                Files("valid", {"attestor"}, {"attestor", "other"}),
                Files("valid", {"other"}, {"other"}), Files("invalid", {}, {})}}

\* What an owner signs when the adapter reports something else.
LOCAL Renewed(x, o, until) ==
  [x EXCEPT !.observed = o,
            !.manifest = Manifest(x.charter, x.config, o, 1, until, "owner", 1)]

LOCAL Good(id, config, begin, run, files) ==
  Execution(id, "windows", config, 1, begin, 2, 1, "owner", Keys,
            Run(run, "passed", files))

\* Permitted ones that differ from the first in one thing each.
LOCAL Permitted ==
  LET x == Good("s", "k", 1, "r", Kept)
      o == x.observed
  IN {x, Good("t", "k", 1, "r", Kept), Good("s", "l", 1, "r", Kept),
      Good("s", "k", 2, "r", Kept), Good("s", "k", 1, "q", Kept),
      Good("s", "k", 1, "r", Files("valid", {}, {})),
      [x EXCEPT !.run.manifest.content = "other"],
      Renewed(x, o, 3),
      Renewed(x, [o EXCEPT !.raw = <<[tools |-> "other"]>>], 2),
      Renewed(x, [o EXCEPT !.bridge = <<[bridge |-> "other"]>>], 2),
      Renewed(x, [o EXCEPT !.device[1].serial = "other"], 2)}

ASSUME AcceptanceAgrees ==
  \A x \in Executions : Gate!PermittedIsVerified(x, "owner", 1)

ASSUME ExecutionsAreWhole ==
  \A x, y \in Permitted :
    /\ Gate!Allowed(x) /\ Gate!Deserves(x)
    /\ Gate!NothingIsMixed(x, y, "owner", 1)
    /\ Gate!NothingIsReplaced(x, y, "owner", 1)

ASSUME RenewedIsRefused ==
  \A x, y \in Permitted :
    Gate!RenewalIsRefused(x, y.manifest, Run("again", "passed", Kept), "owner", 1)

\* Entries for some of the lanes, of which one may have failed.
ASSUME LanesAreNeeded ==
  \A failed \in Gate!Lanes \cup {"no lane"} :
    \A n \in 0..5 :
      LET all == <<"pc-web", "mobile-web", "windows", "android", "ios">>
          outcome(lane) == IF lane = failed THEN "failed" ELSE "passed"
          where == [i \in 1..n |->
                      Gate!Directory(Execution("s", all[i], "k", 1, 1, 2, 1, "owner",
                                               Keys, Run("r", outcome(all[i]), Kept)))]
          entries == [i \in 1..n |-> Gate!Entry(where[i], "owner", 1)]
      IN Gate!IndexOK(all, entries) /\ Gate!OnlyAllIsEligible(entries, where, Keys)

-----------------------------------------------------------------------------
(* Cases.  Snapshots with at most one candidate and one debt, counted rightly, *)
(* wrongly or not at all; some are not snapshots.                              *)

LOCAL Counts(o, c, u) == <<[observed |-> o, classified |-> c, unclassified |-> u]>>

LOCAL Snapshots ==
  {[valid |-> valid, candidates |-> candidates, debts |-> debts, counts |-> counts] :
     valid \in BOOLEAN,
     candidates \in {<<>>, <<[action |-> <<"p">>, resolved |-> TRUE]>>,
                    <<[action |-> <<"q">>, resolved |-> TRUE]>>,
                    <<[action |-> <<"p">>, resolved |-> FALSE]>>},
     debts \in {<<>>} \cup {<<[action |-> action, reason |-> reason]>> :
                            action \in {<<>>, <<"p">>}, reason \in {"", "why"}},
     counts \in {<<>>, Counts(0, 0, 0), Counts(1, 1, 0), Counts(0, 1, 0),
                 Counts(2, 1, 0), Counts(1, 1, 1)}}

ASSUME AuditsAreExact ==
  \A acceptance \in {[p0 |-> p0, p1 |-> p1] : p0 \in {{"p"}, {"q"}}, p1 \in {{}, {"p"}}} :
    /\ Cases!AuditIsExact(<<>>, acceptance)
    /\ \A s \in Snapshots :
         /\ Cases!AuditIsExact(<<s>>, acceptance)
         /\ \A t \in {u \in Snapshots : u.debts = <<>>} :
              Cases!AuditIsExact(<<s, t>>, acceptance)

\* The manifest and the configuration of an acceptance; `of` makes two of them
\* differ.  A security target has an authorization, which the two agree on.
LOCAL Signed(s) == [f \in DOMAIN s \cup {"payload", "signed"} |->
                     IF f \in DOMAIN s THEN s[f] ELSE [none |-> TRUE]]

LOCAL Terms ==
  [id |-> "a", approval |-> "yes", from |-> 1, until |-> 2, methods |-> {"GET"},
   rate |-> 1, profileDigest |-> "pd", capability |-> "c", bridge |-> "b"]

LOCAL Config(secure, of) ==
  [adapter |-> IF secure THEN "security" ELSE "playwright", environment |-> "staging",
   origin |-> "site", host |-> "host", hosts |-> {"host"}, path |-> "/a", prefixes |-> {},
   settle |-> 1, exclusions |-> {}, mutations |-> {"read"}, contracts |-> of,
   profile |-> "p",
   authorization |-> IF secure
     THEN <<[f \in DOMAIN Terms \cup {"revision", "payload"} |->
               CASE f = "revision" -> 1 [] f = "payload" -> [none |-> TRUE]
                 [] OTHER -> Terms[f]]>>
     ELSE <<>>]

LOCAL Target(config, secure, mode, acceptance) ==
  LET m == [version |-> IF secure THEN 2 ELSE 1, status |-> "ready", approved |-> TRUE,
            approval |-> "yes", environment |-> "staging", origin |-> "site",
            hosts |-> {"host"}, prefixes |-> {{"/a", "/b"}}, settle |-> 1,
            exclusions |-> {"x"}, mutations |-> {"read", "write"},
            contracts |-> config.contracts, acceptance |-> acceptance,
            binding |-> [revision |-> 1, config |-> config],
            security |-> IF secure
              THEN <<Signed([f \in DOMAIN Terms \cup {"mode", "profile"} |->
                              CASE f = "mode" -> mode [] f = "profile" -> "p"
                                [] OTHER -> Terms[f]])>>
              ELSE <<>>]
  IN IF secure
     THEN [m EXCEPT !.security[1].payload = Cases!SigningPayload(m),
                    !.security[1].signed = Cases!SigningPayload(m)]
     ELSE m

LOCAL Entry(type, field, value, binding) ==
  [f \in {"type", "decision", "ref", "completed", "binding"} |->
     CASE f = "type" -> type [] f = field -> value [] f = "binding" -> binding
       [] f = "ref" -> <<>> [] f = "completed" -> TRUE [] OTHER -> ""]

LOCAL Entries ==
  LET config == Config(TRUE, 1)
      policy == Cases!PolicyBinding(config)
      permit == Cases!PermitBinding(config)
      other(binding) == [binding EXCEPT !.id = "other"]
  IN {Entry("security-policy", "decision", "allowed", policy),
      Entry("security-policy", "decision", "denied", policy),
      Entry("security-policy", "decision", "denied", other(policy)),
      Entry("security-permit", "ref", <<1>>, permit),
      Entry("security-permit", "ref", <<2>>, permit),
      Entry("security-permit", "ref", <<>>, permit),
      Entry("security-permit", "ref", <<1>>, other(permit)),
      Entry("security-cleanup", "completed", TRUE, policy),
      Entry("security-cleanup", "completed", FALSE, policy),
      Entry("security-kill-switch", "ref", <<>>, policy)}

ASSUME SafetyIsExactHere ==
  \A mode \in {"deny-all", "authorized-active"} :
    LET config == Config(TRUE, 1)
        m == Target(config, TRUE, mode, [p0 |-> {"p"}, p1 |-> {}])
    IN \A n \in 0..4 : \A trace \in [1..n -> Entries] :
         Cases!SafetyIsExact(trace, config, m)

LOCAL Seen(action) ==
  [valid |-> TRUE, candidates |-> <<[action |-> <<action>>, resolved |-> TRUE]>>,
   debts |-> <<>>, counts |-> Counts(1, 1, 0)]

\* The run of a case, of a corpus with all sixteen.
LOCAL CaseRun(i, expected, outcome, asked, now, target, files, commit) ==
  LET secure == i = Cases!SecurityCase
      config == Config(secure, 1)
      configOf(k) == Config(k = Cases!SecurityCase, 1)
  IN [corpus |-> [revision |-> 1,
                  cases |-> [k \in 1..16 |->
                    [acceptance |-> k, config |-> configOf(k),
                     outcome |-> IF k = i THEN expected ELSE "passed"]]],
      asked |-> asked, now |-> now, config |-> config, manifest |-> target,
      outcome |-> outcome, run |-> i, commit |-> commit, files |-> files]

LOCAL FilesOf(names, action, trace) ==
  [f \in names |-> CASE f = "candidate-snapshots" -> <<Seen(action)>>
                    [] f = "trace" -> trace [] OTHER -> <<"oracle">>]

LOCAL AllFiles == {"oracle-results", "candidate-snapshots", "trace"}

LOCAL Asked(i, revision) == [case |-> i, revision |-> revision, environment |-> "staging"]

LOCAL Web(p0, p1) == Target(Config(FALSE, 1), FALSE, "", [p0 |-> p0, p1 |-> p1])

LOCAL WebRuns ==
  {CaseRun(1, expected, outcome, Asked(i, revision), 1,
           Target(Config(FALSE, of), FALSE, "", [p0 |-> {"p"}, p1 |-> p1]),
           FilesOf(names, action, trace), 1) :
     expected \in {"passed", "failed"}, outcome \in {"passed", "failed", "partial", "error"},
     i \in {1, 17}, revision \in {1, 2}, of \in {1, 2}, p1 \in {{}, {"p"}},
     names \in {AllFiles, {"oracle-results", "candidate-snapshots"}, {"trace"}},
     action \in {"p", "q"}, trace \in {<<1>>, <<2>>}}

ASSUME CasesAreReported == \A x \in WebRuns : Cases!EveryCaseIsReported(x)

ASSUME CasesAreWhole ==
  \A x, y \in {x \in WebRuns : Cases!CaseEnds(x).code = 0} : Cases!OnlyWholeCases(x, y)

\* The sixteenth case as if the digests could agree.
LOCAL SecurityTarget ==
  Target(Config(TRUE, 1), TRUE, "deny-all", [p0 |-> {"p"}, p1 |-> {}])

LOCAL Denied ==
  <<Entry("security-policy", "decision", "denied", Cases!PolicyBinding(Config(TRUE, 1))),
    Entry("security-kill-switch", "ref", <<>>, Cases!PolicyBinding(Config(TRUE, 1)))>>

LOCAL SuiteRun(i, outcome, action, commit) ==
  LET secure == i = Cases!SecurityCase
  IN CaseRun(i, "passed", outcome, Asked(i, 1), 1,
             IF secure THEN SecurityTarget ELSE Web({"p"}, {}),
             FilesOf(AllFiles, action, IF secure THEN Denied ELSE <<i>>), commit)

ASSUME SuitesAreWhole ==
  \A i, k \in {1, 2, 15, 16}, outcome \in {"passed", "failed"}, action \in {"p", "q"},
     commit \in {1, 2}, n \in {15, 16} :
    LET runs == [j \in 1..n |-> IF j = i THEN SuiteRun(k, outcome, action, commit)
                                        ELSE SuiteRun(j, "passed", "p", 1)]
    IN Cases!SuiteIsWhole(runs, SecurityTarget, 1)

ASSUME SecurityCaseIsOutOfReach ==
  Cases!SecurityCaseCannotRun(SuiteRun(Cases!SecurityCase, "passed", "p", 1), 3)
=============================================================================
