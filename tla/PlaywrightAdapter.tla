------------------------- MODULE PlaywrightAdapter -------------------------
(***************************************************************************)
(* src/src/adapters/playwright: the adapter between the exploration loop   *)
(* and a browser that moves on its own.  The caller observes a target,     *)
(* gets candidates, executes one and may take a screenshot; it does one    *)
(* thing at a time.  Between any two awaits of the adapter the pages       *)
(* open popups, close, navigate, raise dialogs, start and finish requests. *)
(*                                                                         *)
(* Pages are numbered in the order they register (page-1, page-2, ...).    *)
(* What a page shows is one of Contents; a fingerprint is the content it   *)
(* was taken of.  Frames, console messages and the event buffers are left  *)
(* out; the targets are pages.                                             *)
(***************************************************************************)
EXTENDS Naturals, FiniteSets, TLC

CONSTANTS
  MaxPages,     \* pages the browser opens, the first one included
  Contents,     \* what a page can show
  Outside,      \* the contents whose URL is out of scope
  ElementsOf,   \* the elements of each content that a control may be
  AllowedKinds, \* context.allowedMutationKinds
  Setups,       \* [context : is a BrowserContext given, policy : settle policy,
                \*  start : what a page shows first, ready : where the signal shows,
                \*  limit : how often each kind of event happens]
  TopologyCap,  \* events the topology log keeps (100)
  MaxPolls      \* polls that fit in settle.maxWaitMs

Pages == 1..MaxPages
None == 0
AllowedRoles == {"button", "link", "textbox", "checkbox", "combobox", "option", "menuitem", "tab"}

ButtonTypes == {"button", "submit", "reset", "image"}

ASSUME AdapterConstants ==
  /\ MaxPages \in Nat \ {0} /\ Outside \subseteq Contents
  /\ TopologyCap \in Nat \ {0} /\ MaxPolls \in Nat
  /\ \A s \in Setups : s.start \in Contents

VARIABLES
  setup,
  window,   \* the browser: "absent", "open" or "closed" for each page
  content,  \* what each page shows
  traffic,  \* requests outstanding per page: tracked, ignored, begun before it registered
  dialog,   \* the JavaScript dialog that blocks each page
  masked,   \* does the document of the page carry the mask style
  targets,  \* the entries: opener, trigger, closed
  activeTarget, \* topology.activeTargetId
  logged,   \* topology.events.length
  pending,  \* pendingNetwork
  fresh,    \* networkChangedAt lies after the last poll
  clicked,  \* pendingPageTriggers: the action whose popup the page still owes
  flying,   \* candidateInFlight: the number of the action, or None
  control,  \* dialogInFlight: its policy, outcome and the page of its last timer
  stage, action, candidate, settle, result, evidence,
  born,     \* history: actions begun, the one in flight and requests under way when
            \* a page opened, and whether no other was open
  seen,     \* history: the pages that were closed at the last poll
  accepted, \* history: candidates a dialog was accepted for
  count     \* events so far, by kind, for the bounds of setup.limit

browser == <<window, content, traffic, dialog, masked>>
topology == <<targets, activeTarget, logged>>
network == <<pending, fresh>>
caller == <<stage, action, candidate, settle, result>>
history == <<born, seen, accepted>>
adapterVars == <<setup, browser, topology, network, clicked, flying, control, caller,
                 evidence, history, count>>

NoEntry == [opener |-> None, trigger |-> None, closed |-> FALSE]
NoDialog == [handling |-> "none", of |-> None, armed |-> FALSE]
NoControl == [policy |-> "none", outcome |-> "none", timer |-> None]
NoCandidate == [target |-> None]
NoSettle == [polls |-> 0, dom |-> "none", topo |-> 0, calm |-> FALSE, before |-> {}, status |-> "none"]

Known(p) == p \in Pages /\ window[p] # "absent"
Open(p) == p \in Pages /\ window[p] = "open"
Blocked(p) == Open(p) /\ dialog[p].handling # "none"
InScope(p) == content[p] \notin Outside

\* A bound on how often each kind of thing happens.
Kinds == {"window", "move", "request", "dialog", "capture"}
Happens(kind) ==
  /\ count[kind] < setup.limit[kind]
  /\ count' = [count EXCEPT ![kind] = @ + 1]

----------------------------------------------------------------------------
(* Controls: which become candidates, what they may mutate, what they may do *)
(* with a dialog.                                                            *)

\* The role an element declares, or the one of its tag.
Role(e) ==
  IF e.role # "absent" THEN e.role
  ELSE CASE e.tag = "input" /\ e.type = "checkbox" -> "checkbox"
         [] e.tag = "button" \/ (e.tag = "input" /\ e.type \in ButtonTypes) -> "button"
         [] e.tag = "a" -> "link"
         [] e.tag = "select" -> "combobox"
         [] e.tag \in {"textarea", "editable"} -> "textbox"
         [] e.tag = "input" /\ e.type # "hidden" -> "textbox"
         [] OTHER -> "absent"

ActionKind(role) ==
  CASE role = "checkbox" -> "check"
    [] role = "combobox" -> "select"
    [] role = "textbox" -> "fill"
    [] role \in {"button", "link", "menuitem", "tab", "option"} -> "click"
    [] OTHER -> "absent"

\* The method a control sends its form with: its own word, or for a submitter
\* the form's, which is get when the form says nothing.
FormMethod(e) ==
  IF e.method # "absent" THEN e.method
  ELSE IF e.inForm /\ e.tag \in {"button", "input"} /\ e.type \in {"submit", "image"}
       THEN IF e.formMethod # "absent" THEN e.formMethod ELSE "get"
       ELSE "absent"

\* The field has an input profile: it is listed with the form it belongs to.
Profiled(e) == e.inForm /\ e.tag \in {"input", "textarea", "select"}

\* The controls of what a page shows: its visible elements that something can be
\* done with.
Collected(what) ==
  {[kind |-> ActionKind(Role(e)), method |-> FormMethod(e), profiled |-> Profiled(e)] @@ e :
     e \in {e \in ElementsOf[what] : e.visible /\ ActionKind(Role(e)) # "absent"}}

\* A scope of the control that is unique, and within which the control is.
Scoped(c) == \E s \in c.scopes : s.public /\ s.parents = 1 /\ s.matches = 1

\* One locator finds the control and nothing else: its test id, its role and
\* name, or those within a scope.
Addressable(c) ==
  \/ c.testIds = 1
  \/ c.label = "public" /\ (c.named = 1 \/ Scoped(c))

\* The other controls become coverage debt, each with a reason.
Offered(c) ==
  /\ ~c.disabled /\ Role(c) \in AllowedRoles
  /\ c.kind \in {"fill", "select"} => c.profiled
  /\ c.link # "outside"
  /\ Addressable(c)

MethodMutation(method) ==
  CASE method \in {"get", "head", "options"} -> "none"
    [] method \in {"post", "put", "patch"} -> "update"
    [] method = "delete" -> "delete"
    [] OTHER -> "absent"

\* What the words on the control suggest; filling and choosing change nothing.
HeuristicMutation(c) == IF c.kind = "click" THEN c.hint ELSE "none"

\* What the page declares, the form's method, the action contract, the label.
Evidence(c) ==
  {c.declared, MethodMutation(c.method), c.contract, HeuristicMutation(c)} \ {"absent"}

ClassifyMutation(c) ==
  LET facts == Evidence(c)
  IN IF \/ c.declared = "invalid"
        \/ c.method # "absent" /\ MethodMutation(c.method) = "absent"
        \/ Cardinality(facts) # 1
     THEN "unknown"
     ELSE CHOOSE kind \in facts : TRUE

\* "denied" when the contract asks for something it may not have.
ResolveDialogPolicy ==
  LET asked == candidate.chosen.dialog
  IN IF asked = "absent" THEN "dismiss"
     ELSE IF \/ asked \notin {"dismiss", "hold", "accept"}
             \/ asked = "accept" /\ candidate.mutation \notin AllowedKinds
          THEN "denied"
          ELSE asked

----------------------------------------------------------------------------
(* Targets and the topology log.                                             *)

Logged(n) == IF logged + n > TopologyCap THEN TopologyCap ELSE logged + n

\* topology.activate, the first thing an observation does.
Activate(p) ==
  /\ activeTarget' = p
  /\ logged' = Logged(IF activeTarget \notin {None, p} THEN 1 ELSE 0)

\* The trigger a page gets when it registers: the action named by the event, or
\* the click its opener still owes a popup for.
Inferred(parent, trigger) ==
  IF trigger # None \/ parent = None THEN trigger ELSE clicked[parent]

\* registerPage, for a page not seen before and for one that is: what is known
\* already stays.
RegisterPage(entry, parent, trigger) ==
  [entry EXCEPT !.opener = IF @ = None THEN parent ELSE @,
                !.trigger = IF @ = None THEN Inferred(parent, trigger) ELSE @]

\* A page opens, from the script of another or with no opener.  The context
\* reports it first, then its opener's popup event; without a context only the
\* popup event does.  Requests of its first document may be under way before
\* the adapter listens.
OpenPage(q, p, early) ==
  /\ window[q] = "absent" /\ \A r \in Pages : r < q => Known(r)
  /\ p = None => setup.context
  /\ p # None => Open(p) /\ ~Blocked(p)
  /\ LET viaContext == IF setup.context THEN RegisterPage(NoEntry, None, flying) ELSE NoEntry
         viaPopup == IF p # None THEN RegisterPage(viaContext, p, flying) ELSE viaContext
     IN targets' = [targets EXCEPT ![q] = viaPopup]
  /\ window' = [window EXCEPT ![q] = "open"]
  /\ traffic' = [traffic EXCEPT ![q].early = early]
  /\ logged' = Logged(IF p # None /\ ~setup.context THEN 1 ELSE 0)
  /\ clicked' = [r \in Pages |->
       IF r = p /\ Inferred(p, flying) # None THEN None ELSE clicked[r]]
  /\ born' = [born EXCEPT ![q] = [begun |-> action, during |-> flying, early |-> early,
                                   alone |-> \A r \in Pages : ~Open(r)]]
  /\ Happens("window")
  /\ UNCHANGED <<setup, content, dialog, masked, activeTarget, network, flying, control,
                 caller, evidence, seen, accepted>>

\* The page the caller is moved to when p closes: its opener, or the first page
\* that is still open.
ReturnTarget(p) ==
  LET opener == targets[p].opener
      others == {q \in Pages \ {p} : Known(q) /\ ~targets[q].closed}
  IN IF opener # None /\ ~targets[opener].closed THEN opener
     ELSE IF others = {} THEN None
     ELSE CHOOSE q \in others : \A r \in others : q <= r

\* The close event of a page, at whatever moment; with a pending dialog the
\* answer can only fail, and its control learns that.
CloseEffect(p, extra) ==
  LET return == ReturnTarget(p)
  IN /\ window' = [window EXCEPT ![p] = "closed"]
     /\ targets' = [targets EXCEPT ![p].closed = TRUE]
     /\ activeTarget' = IF return = None THEN activeTarget ELSE return
     /\ logged' = Logged(extra + IF return = None THEN 1 ELSE 2)
     /\ dialog' = [dialog EXCEPT ![p] = NoDialog]
     /\ control' = IF Blocked(p) /\ dialog[p].of = flying /\ flying # None
                   THEN [control EXCEPT !.outcome = "failed"] ELSE control

ClosePage(p) ==
  /\ Open(p)
  /\ CloseEffect(p, 0)
  /\ Happens("window")
  /\ UNCHANGED <<setup, content, traffic, masked, network, clicked, flying, caller,
                 evidence, history>>

\* The page changes: its own document, or a new one that has lost the mask.
Move(p, what, newDocument) ==
  /\ Open(p) /\ ~Blocked(p) 
  /\ content' = [content EXCEPT ![p] = what]
  /\ masked' = [masked EXCEPT ![p] = @ /\ ~newDocument]
  /\ Happens("move")
  /\ UNCHANGED <<setup, window, traffic, dialog, topology, network, clicked, flying,
                 control, caller, evidence, history>>

----------------------------------------------------------------------------
(* Requests: a counter per page that the consensus policy waits on.          *)

NetworkStarted(p, excluded) ==
  IF excluded THEN UNCHANGED network
  ELSE /\ pending' = [pending EXCEPT ![p] = @ + 1]
       /\ fresh' = [fresh EXCEPT ![p] = TRUE]

\* Mutant of NetworkFinished: the end of an ignored request is counted too.
NetworkFinishedAll(p, ignored) ==
  /\ pending' = [pending EXCEPT ![p] = IF @ = 0 THEN 0 ELSE @ - 1]
  /\ fresh' = [fresh EXCEPT ![p] = TRUE]

\* ignored: the request is in ignoredNetworkRequests.
NetworkFinished(p, ignored) ==
  IF ignored THEN UNCHANGED network
  ELSE /\ pending' = [pending EXCEPT ![p] = IF @ = 0 THEN 0 ELSE @ - 1]
       /\ fresh' = [fresh EXCEPT ![p] = TRUE]

StartRequest(p, excluded) ==
  /\ Open(p) 
  /\ Happens("request")
  /\ traffic' = IF excluded THEN [traffic EXCEPT ![p].ignored = @ + 1]
                            ELSE [traffic EXCEPT ![p].tracked = @ + 1]
  /\ NetworkStarted(p, excluded)
  /\ UNCHANGED <<setup, window, content, dialog, masked, topology, clicked, flying,
                 control, caller, evidence, history>>

FinishRequest(p, kind) ==
  /\ Open(p) /\ traffic[p][kind] > 0
  /\ traffic' = [traffic EXCEPT ![p][kind] = @ - 1]
  /\ NetworkFinished(p, kind = "ignored")
  /\ UNCHANGED <<setup, window, content, dialog, masked, topology, clicked, flying,
                 control, caller, evidence, history, count>>

----------------------------------------------------------------------------
(* Dialogs: answered at once, or held until a timer of the action in flight. *)

Handling == IF control.policy = "none" THEN "dismiss" ELSE control.policy

RaiseDialog(p) ==
  /\ Open(p) /\ ~Blocked(p) 
  /\ Happens("dialog")
  /\ dialog' = [dialog EXCEPT ![p] =
       [handling |-> Handling, of |-> flying, armed |-> Handling = "hold"]]
  /\ control' = IF Handling = "hold" THEN [control EXCEPT !.timer = p] ELSE control
  /\ accepted' = IF Handling = "accept"
                 THEN accepted \cup {IF flying = None THEN NoCandidate ELSE candidate}
                 ELSE accepted
  /\ UNCHANGED <<setup, window, content, traffic, masked, topology, network, clicked,
                 flying, caller, evidence, born, seen>>

\* dialog.accept or dismiss has been carried out, or the hold timer has fired
\* and its dismiss has.
AnswerDialog(p) ==
  /\ Blocked(p)
  /\ dialog[p].handling = "hold" => dialog[p].armed
  /\ dialog' = [dialog EXCEPT ![p] = NoDialog]
  /\ control' = IF dialog[p].of = flying /\ flying # None
       THEN [control EXCEPT !.outcome =
               IF dialog[p].handling = "hold" THEN "held-timeout" ELSE dialog[p].handling]
       ELSE control
  /\ UNCHANGED <<setup, window, content, traffic, masked, topology, network, clicked,
                 flying, caller, evidence, history, count>>

----------------------------------------------------------------------------
(* The caller between two actions.                                           *)

AtRest == stage = "idle"
Usable(p) == Known(p) /\ ~targets[p].closed

\* observe: the target becomes the active one.  Out of scope it is partial and
\* offers nothing.
Observe(p) ==
  /\ AtRest /\ Usable(p) /\ ~Blocked(p) /\ action < setup.limit["action"]
  /\ Activate(p)
  /\ IF InScope(p)
     THEN /\ stage' = "discover"
          /\ candidate' = [target |-> p, source |-> content[p]]
     ELSE UNCHANGED <<stage, candidate>>
  /\ result' = "none"
  /\ UNCHANGED <<setup, browser, targets, network, clicked, flying, control, action,
                 settle, evidence, history, count>>

CreateCandidate(p, source, c) ==
  [target |-> p, source |-> source, chosen |-> c, mutation |-> ClassifyMutation(c)]

\* discoverCandidates: the controls the page has by now, under the fingerprint
\* of the observation.
Discover ==
  /\ stage = "discover"
  /\ LET p == candidate.target
         offered == {c \in Collected(content[p]) : Offered(c)}
     IN IF ~Usable(p) \/ offered = {}
        THEN /\ stage' = "idle" /\ candidate' = NoCandidate
        ELSE \E c \in offered :
          /\ ~Blocked(p)
          /\ stage' = "ready"
          /\ candidate' = CreateCandidate(p, candidate.source, c)
  /\ UNCHANGED <<setup, browser, topology, network, clicked, flying, control, action,
                 settle, result, evidence, history, count>>

SwitchTarget(p) ==
  /\ AtRest /\ Usable(p) /\ p # activeTarget
  /\ Activate(p)
  /\ UNCHANGED <<setup, browser, targets, network, clicked, flying, control, caller,
                 evidence, history, count>>

\* closeTarget: the close event, and then a record of its own.
CloseTarget(p) ==
  /\ AtRest /\ Usable(p)
  /\ CloseEffect(p, 1)
  /\ Happens("window")
  /\ UNCHANGED <<setup, content, traffic, masked, network, clicked, flying, caller,
                 evidence, history>>

\* recover by backtrack or reload: another document, if the page still answers.
\* "dismiss-dialog" reports success and does nothing.
Recover(p, what) ==
  /\ AtRest /\ Move(p, what, TRUE)

----------------------------------------------------------------------------
(* execute.                                                                  *)

Target == candidate.target

\* Mutant of Before: the targets are not noted before the gesture.
BeforeUnnoted == {}

\* targetsBefore: the targets known when the gesture is made.
Before ==
  {p \in Pages : Known(p)}

\* The finally block: the last hold timer is dropped, answered or not, and the
\* action is no longer in flight.
Return(status) ==
  /\ stage' = "idle"
  /\ result' = status
  /\ settle' = NoSettle
  /\ candidate' = NoCandidate
  /\ control' = NoControl
  /\ flying' = None
  /\ dialog' = IF control.timer = None THEN dialog
               ELSE [dialog EXCEPT ![control.timer].armed = FALSE]

\* The target is observed again; nothing is done to a page that is not the one
\* the candidate was made for, or with a dialog policy it may not have.
Recheck ==
  /\ stage = "ready"
  /\ action' = action + 1
  /\ LET p == Target
     IN IF ~Usable(p)
        THEN Return("target_lost") /\ UNCHANGED <<activeTarget, logged>>
        ELSE /\ ~Blocked(p)
             /\ Activate(p)
             /\ IF \/ ~InScope(p) \/ content[p] # candidate.source
                   \/ ResolveDialogPolicy = "denied"
                THEN Return("denied")
                ELSE /\ stage' = "locating"
                     /\ UNCHANGED <<result, settle, candidate, control, flying, dialog>>
  /\ UNCHANGED <<setup, window, content, traffic, masked, targets, network, clicked,
                 evidence, history, count>>

\* scopeLocator and locateTarget, at the moment the gesture is about to be made.
Located == candidate.chosen \in Collected(content[Target])

\* The locator must still find one control; then the action is in flight, and
\* what the browser reports from here on is put down to it.
Launch ==
  /\ stage = "locating"
  /\ IF ~Located \/ ~Open(Target)
     THEN /\ Return(IF Open(Target) THEN "action_failed" ELSE "target_lost")
          /\ UNCHANGED clicked
     ELSE /\ ~Blocked(Target)
          /\ stage' = "acting"
          /\ flying' = action
          /\ control' = [NoControl EXCEPT !.policy = ResolveDialogPolicy]
          /\ settle' = [NoSettle EXCEPT !.before = Before]
          /\ clicked' = IF candidate.chosen.kind = "click"
                        THEN [clicked EXCEPT ![Target] = action] ELSE clicked
          /\ UNCHANGED <<result, candidate, dialog>>
  /\ UNCHANGED <<setup, window, content, traffic, masked, topology, network, action,
                 evidence, history, count>>

\* The gesture has been made.  A page that closed under it needs no settling.
Land ==
  /\ stage = "acting" /\ ~Blocked(Target)
  /\ IF targets[Target].closed
     THEN /\ stage' = "after"
          /\ settle' = [settle EXCEPT !.status = "target-closed"]
     ELSE /\ stage' = "settling"
          /\ settle' = [settle EXCEPT !.dom = content[Target], !.topo = logged]
  /\ UNCHANGED <<setup, browser, topology, network, clicked, flying, control, action,
                 candidate, result, evidence, history, count>>

\* Playwright gives up on the gesture, the target is gone, or there is no value
\* to fill in.
GestureFails ==
  /\ stage = "acting"
  /\ \/ Return("timeout")
     \/ ~Open(Target) /\ Return("target_lost")
     \/ candidate.chosen.kind \in {"fill", "select"} /\ Return("unsupported")
  /\ UNCHANGED <<setup, window, content, traffic, masked, topology, network, clicked,
                 action, evidence, history, count>>

\* The signal the settle policy waits for, if it names one.
Ready(p) == content[p] \in setup.ready

\* One round of the wait.  "consensus" asks for two rounds in a row in which the
\* document, the log's length and the network have not moved; the other policy
\* for one in which the document has not.
Poll ==
  /\ stage = "settling" /\ Open(Target) /\ ~Blocked(Target)
  /\ LET p == Target
         calm == /\ content[p] = settle.dom
                 /\ setup.policy = "consensus" =>
                      logged = settle.topo /\ pending[p] = 0 /\ ~fresh[p] /\ Ready(p)
         settled == calm /\ (setup.policy = "consensus" => settle.calm)
         last == settle.polls + 1 >= MaxPolls
     IN /\ stage' = IF settled \/ last THEN "after" ELSE "settling"
        /\ settle' = [settle EXCEPT !.polls = @ + 1, !.dom = content[p], !.topo = logged,
             !.calm = calm,
             !.status = IF settled THEN "settled" ELSE IF last THEN "timed_out" ELSE @]
        /\ fresh' = [fresh EXCEPT ![p] = FALSE]
        /\ seen' = {q \in Pages : window[q] = "closed"}
  /\ UNCHANGED <<setup, browser, topology, pending, clicked, flying, control, action,
                 candidate, result, evidence, born, accepted, count>>

\* Mutant of SettleFails: the wait goes on after the page has closed.
SettleGoesOn ==
  /\ stage = "settling" /\ ~Open(Target)
  /\ UNCHANGED adapterVars

\* The page closed under the wait.
SettleFails ==
  /\ stage = "settling" /\ ~Open(Target)
  /\ Return("target_lost")
  /\ UNCHANGED <<setup, window, content, traffic, masked, topology, network, clicked,
                 action, evidence, history, count>>

\* Pages that opened meanwhile and have no trigger get this one; then the
\* target, or the page the caller was returned to, is observed.
Observed == IF settle.status = "target-closed" THEN activeTarget ELSE Target

Finish ==
  /\ stage = "after"
  /\ targets' = [q \in Pages |->
       IF Known(q) /\ q \notin settle.before /\ targets[q].trigger = None
       THEN [targets[q] EXCEPT !.trigger = action] ELSE targets[q]]
  /\ LET lost == settle.status # "target-closed" /\ targets[Target].closed
         timedOut == control.outcome = "held-timeout" \/ settle.status = "timed_out"
     IN /\ IF Usable(Observed) THEN ~Blocked(Observed) /\ Activate(Observed)
                               ELSE UNCHANGED <<activeTarget, logged>>
        /\ Return(IF lost THEN "target_lost" ELSE IF timedOut THEN "timeout" ELSE "executed")
  /\ UNCHANGED <<setup, window, content, traffic, masked, network, clicked, action,
                 evidence, history, count>>

----------------------------------------------------------------------------
(* captureEvidence: a style that hides the sensitive fields goes in, the     *)
(* screenshot is taken and written, the style comes out.                     *)

\* evidencePage: the active target, before any observation the newest open page.
EvidencePage ==
  LET open == {p \in Pages : Open(p)}
  IN IF activeTarget # None THEN activeTarget
     ELSE IF open = {} THEN None
     ELSE CHOOSE p \in open : \A q \in open : q <= p

MaskPage ==
  /\ AtRest /\ Happens("capture")
  /\ IF Open(EvidencePage)
     THEN /\ ~Blocked(EvidencePage)
          /\ masked' = [masked EXCEPT ![EvidencePage] = TRUE]
          /\ stage' = "shooting"
          /\ evidence' = [page |-> EvidencePage, masked |-> FALSE, outcome |-> "none"]
     ELSE /\ evidence' = [page |-> EvidencePage, masked |-> FALSE, outcome |-> "no-page"]
          /\ UNCHANGED <<masked, stage>>
  /\ UNCHANGED <<setup, window, content, traffic, dialog, topology, network, clicked,
                 flying, control, action, candidate, settle, result, history>>

\* The screenshot, its file and its digest; one of them may fail.
TakeScreenshot ==
  /\ stage = "shooting" /\ ~Blocked(evidence.page)
  /\ stage' = "unmasking"
  /\ \/ /\ Open(evidence.page)
        /\ evidence' = [evidence EXCEPT !.masked = masked[evidence.page], !.outcome = "shot"]
     \/ evidence' = [evidence EXCEPT !.outcome = "failed"]
  /\ UNCHANGED <<setup, browser, topology, network, clicked, flying, control, action,
                 candidate, settle, result, history, count>>

\* The style's handle is good only in the document it was added to.
Unmask ==
  /\ stage = "unmasking" /\ ~Blocked(evidence.page)
  /\ stage' = "idle"
  /\ LET p == evidence.page
         removed == Open(p) /\ masked[p]
     IN /\ masked' = [masked EXCEPT ![p] = FALSE]
        /\ evidence' = [evidence EXCEPT !.outcome =
             IF evidence.outcome = "shot" /\ removed THEN "redacted" ELSE "failed"]
  /\ UNCHANGED <<setup, window, content, traffic, dialog, topology, network, clicked,
                 flying, control, action, candidate, settle, result, history, count>>

----------------------------------------------------------------------------
AdapterInit ==
  /\ setup \in Setups
  /\ window = [p \in Pages |-> IF p = 1 THEN "open" ELSE "absent"]
  /\ content = [p \in Pages |-> setup.start]
  /\ traffic = [p \in Pages |-> [tracked |-> 0, ignored |-> 0, early |-> 0]]
  /\ dialog = [p \in Pages |-> NoDialog]
  /\ masked = [p \in Pages |-> FALSE]
  /\ targets = [p \in Pages |-> NoEntry]
  /\ activeTarget = None /\ logged = 0
  /\ pending = [p \in Pages |-> 0] /\ fresh = [p \in Pages |-> FALSE]
  /\ clicked = [p \in Pages |-> None]
  /\ flying = None /\ control = NoControl
  /\ stage = "idle" /\ action = 0 /\ candidate = NoCandidate
  /\ settle = NoSettle /\ result = "none"
  /\ evidence = [page |-> None, masked |-> FALSE, outcome |-> "none"]
  /\ born = [p \in Pages |-> [begun |-> 0, during |-> None, early |-> 0, alone |-> FALSE]]
  /\ seen = {} /\ accepted = {}
  /\ count = [kind \in Kinds |-> 0]

Browser ==
  \/ \E q \in Pages, p \in Pages \cup {None}, early \in 0..1 : OpenPage(q, p, early)
  \/ \E p \in Pages : ClosePage(p)
  \/ \E p \in Pages, what \in Contents, new \in BOOLEAN : Move(p, what, new)
  \/ \E p \in Pages, excluded \in BOOLEAN : StartRequest(p, excluded)
  \/ \E p \in Pages, kind \in {"tracked", "ignored", "early"} : FinishRequest(p, kind)
  \/ \E p \in Pages : RaiseDialog(p)

AnswerDialogs == \E p \in Pages : AnswerDialog(p)

ExecuteStep == Recheck \/ Launch \/ Land \/ GestureFails \/ Poll \/ SettleFails \/ Finish

Caller ==
  \/ \E p \in Pages : Observe(p) \/ SwitchTarget(p) \/ CloseTarget(p)
  \/ \E p \in Pages, what \in Contents : Recover(p, what)
  \/ Discover
  \/ MaskPage \/ TakeScreenshot \/ Unmask

AdapterNext == Browser \/ AnswerDialogs \/ ExecuteStep \/ Caller

\* The adapter's own awaits end: Playwright's gestures and the wait for quiet
\* have a timeout, and a dialog is answered by the code that caught it.
Fairness == WF_adapterVars(ExecuteStep) /\ WF_adapterVars(AnswerDialogs)

AdapterSpec == AdapterInit /\ [][AdapterNext]_adapterVars /\ Fairness

----------------------------------------------------------------------------
\* The active target is an open page as long as any page is: the screenshot of a
\* bookmark, and the observation after an action that closed its own page, are
\* taken of it.  Pages close in any order, the opener before the popup too.  Only
\* a page that is reported after the last one closed does not become active.
ActiveIsOpen ==
  activeTarget # None /\ targets[activeTarget].closed =>
    \A p \in Pages : Known(p) => targets[p].closed \/ \E q \in 1..p : born[q].alone

\* A page is never put down to an action that began after it opened, and one that
\* opens while an action is in flight is put down to that action, whichever of
\* the three registrations and of the late popup's note gets there first.
TriggersAreTrue ==
  \A p \in Pages : Known(p) =>
    /\ targets[p].trigger <= born[p].begun
    /\ born[p].during # None => targets[p].trigger = born[p].during

\* A dialog is accepted only for a candidate whose contract asks for it and of
\* which everything known -- the page's declaration, the form's method, the
\* action contract, the label -- is a kind of mutation the run allows.  A run that
\* allows the kind "unknown" has given this up: it accepts also where what is known
\* contradicts itself.
AcceptedWasAllowed ==
  \A c \in accepted :
    /\ c # NoCandidate
    /\ c.chosen.dialog = "accept"
    /\ "unknown" \notin AllowedKinds =>
         /\ Evidence(c.chosen) # {} /\ Evidence(c.chosen) \subseteq AllowedKinds
         /\ c.chosen.method # "absent" => MethodMutation(c.chosen.method) \in AllowedKinds

\* A screenshot handed out as redacted was taken with the mask on, though the
\* page may have navigated between the two, and the mask has come off again.
RedactedWasMasked ==
  evidence.outcome = "redacted" => evidence.masked /\ ~masked[evidence.page]

\* When the consensus policy calls a page settled, none of its requests that the
\* policy counts is outstanding and no page has closed since the last poll.  Two
\* cases escape it: a page that had requests under way when it registered (their
\* end is counted against later ones) and a topology log that is full (its
\* length no longer moves).
SettledIsQuiet ==
  [][settle'.status = "settled" /\ settle.status # "settled" /\ setup.policy = "consensus" =>
       /\ traffic[Target].tracked = 0 \/ born[Target].early > 0
       /\ seen = {p \in Pages : window[p] = "closed"} \/ logged = TopologyCap]_adapterVars

Executing == stage \in {"ready", "locating", "acting", "settling", "after"}

\* The page execute waits for is blocked by a dialog whose hold timer was
\* dropped when an earlier action returned.
Abandoned ==
  LET p == IF stage = "after" THEN Observed ELSE Target
  IN Executing /\ Blocked(p) /\ dialog[p].handling = "hold" /\ ~dialog[p].armed

\* An execution comes back, whatever the page does under it -- close, raise
\* dialogs, keep requesting -- unless it meets an abandoned dialog.
ExecutionEnds == Executing ~> (~Executing \/ Abandoned)

\* What the adapter tells the loop of its pages, and does to them, holds with
\* every page opening, closing and navigating between any two of its awaits.
AdapterInv ==
  /\ ActiveIsOpen
  /\ TriggersAreTrue
  /\ AcceptedWasAllowed
  /\ RedactedWasMasked

=============================================================================
