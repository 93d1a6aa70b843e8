------------------------ MODULE MCPlaywrightAdapter ------------------------
(* An instance of PlaywrightAdapter: two kinds of pages and one out of scope. *)
EXTENDS PlaywrightAdapter

Element(tag, method, hint, dialog_) ==
  [tag |-> tag, type |-> "submit", role |-> "absent", visible |-> TRUE,
   inForm |-> TRUE, method |-> "absent", formMethod |-> method, disabled |-> FALSE,
   link |-> "none", testIds |-> 0, label |-> "public", named |-> 1, scopes |-> {},
   declared |-> "absent", contract |-> "absent", hint |-> hint, dialog |-> dialog_]

Save == Element("button", "post", "update", "accept")
\* The label says that it deletes, the form says nothing, so that it only reads.
Preview == Element("button", "absent", "delete", "accept")
Note == [Element("input", "absent", "none", "absent") EXCEPT !.type = "text"]
\* Two of them, one in a scope of its own.
Ask == [Element("a", "absent", "none", "hold") EXCEPT !.named = 2,
          !.scopes = {[public |-> TRUE, parents |-> 2, matches |-> 1],
                      [public |-> TRUE, parents |-> 1, matches |-> 1]}]
\* These stay coverage debt, or are not seen at all.
Twin == [Ask EXCEPT !.scopes = {[public |-> TRUE, parents |-> 2, matches |-> 1]}]
Loose == [Note EXCEPT !.inForm = FALSE]
Grey == [Save EXCEPT !.disabled = TRUE]
Hidden == [Save EXCEPT !.visible = FALSE]

ModelContents == {"form", "list", "away"}
ModelOutside == {"away"}
ModelElements == [w \in ModelContents |->
  CASE w = "form" -> {Save, Preview, Note, Loose, Grey, Hidden}
    [] w = "list" -> {Ask, Twin}
    [] OTHER -> {}]
ModelAllowed == {"none", "update"}

Setup(context, policy, start, windows, moves, requests, dialogs, actions, captures) ==
  [context |-> context, policy |-> policy, start |-> start,
   ready |-> IF requests = 0 THEN ModelContents ELSE {"list"},
   limit |-> [window |-> windows, move |-> moves, request |-> requests,
              dialog |-> dialogs, action |-> actions, capture |-> captures]]

\* Windows that open and close around an action and around a screenshot, with a
\* context and without; the network under the consensus policy; dialogs over two
\* actions, on the target and on a popup; pages that navigate under an action and
\* under the screenshot.
ModelSetups ==
  { Setup(FALSE, "consensus",   "list", 3, 0, 0, 0, 1, 0),
    Setup(TRUE,  "consensus",   "form", 4, 0, 0, 0, 0, 1),
    Setup(TRUE,  "consensus",   "list", 2, 0, 0, 0, 1, 0),
    Setup(TRUE,  "consensus",   "list", 1, 0, 2, 0, 1, 0),
    Setup(FALSE, "consensus",   "form", 0, 1, 1, 2, 2, 0),
    Setup(TRUE,  "lightweight", "form", 1, 0, 0, 1, 2, 0),
    Setup(FALSE, "lightweight", "list", 2, 0, 0, 1, 2, 0),
    Setup(TRUE,  "lightweight", "form", 0, 3, 0, 0, 2, 2) }
=============================================================================
