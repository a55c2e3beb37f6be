------------------------------- MODULE Dialog -------------------------------
(***************************************************************************)
(* The reactive loop of a dialog: the host sends an event or a tick        *)
(* through DialogHandle, the plugin's handler may change what widget_data  *)
(* would say, and the host re-reads it when the handler returned true.     *)
(* The trampolines turn an exception into an answer: a handler that throws *)
(* returns false whatever it changed before, a widget_data that throws     *)
(* (json::dump refuses a string that is not UTF-8) returns "{}".           *)
(*                                                                         *)
(* The plugin is any program that reacts to a call with one of Reactions;  *)
(* a command it requested is consumed by the next widget_data, as in the   *)
(* plugin guide.  A reaction and an event carry what the other side should *)
(* see of them (expect): properties compare it with what it does see.      *)
(***************************************************************************)
EXTENDS WidgetProtocol, FiniteSets

CONSTANTS
    Widget,       \* names of the widgets of the .ui file
    Reactions,    \* sequence of what a handler may do to the widget data
    Events,       \* sequence of the events the user can cause
    MaxReactions  \* bound on the reactions of a behaviour

VARIABLES
    data,       \* the document widget_data() would build now
    intended,   \* per widget, what each getter should return for data
    view,       \* the document the host last parsed
    phase,      \* "idle", "handling", "reread" or "closed"
    sent,       \* the event being handled, <<>> for none or a tick
    handled,    \* the handler call dispatched for it, <<>> for none
    stale,      \* the host was not told of a change, or could not read it
    asked,      \* the commands requested since the last re-read
    reactions   \* number of reactions so far

vars == <<data, intended, view, phase, sent, handled, stale, asked, reactions>>

\* What a reaction does to the widget data.
Apply(d, r) ==
    CASE r.kind = "set" -> Assign(d, r.widget, r.fields)
      [] r.kind = "rowColor" ->
           Assign(d, r.widget, setRowColor(entry(d, r.widget), r.row, r.text))
      [] r.kind = "tooltip" ->
           Assign(d, r.widget,
                  setCellTooltip(entry(d, r.widget), r.row, r.col, r.text))
      [] r.kind = "accept" -> RequestAccept(d)
      [] r.kind = "close" -> RequestClose(d, r.text)
      [] r.kind = "subDialog" -> RequestSubDialog(d, r.text)
      [] r.kind = "clear" -> EmptyData

\* What the getters should return after it.
Keyed(exp, getter, key, text) ==
    getter :> <<(key :> text) @@ (IF getter \in DOMAIN exp
                                  THEN exp[getter][1] ELSE <<>>)>>
Intend(i, r) ==
    CASE r.kind = "set" -> [i EXCEPT ![r.widget] = r.expect @@ @]
      [] r.kind = "rowColor" ->
           [i EXCEPT ![r.widget] = Keyed(@, "rowColors", r.row, r.text) @@ @]
      [] r.kind = "tooltip" ->
           [i EXCEPT ![r.widget] =
              Keyed(@, "cellTooltips", <<r.row, r.col>>, r.text) @@ @]
      [] r.kind = "clear" -> [w \in Widget |-> <<>>]
      [] OTHER -> i

Init ==
    /\ data = EmptyData
    /\ intended = [w \in Widget |-> <<>>]
    /\ view = EmptyData
    /\ phase = "reread"
    /\ sent = <<>>
    /\ handled = <<>>
    /\ stale = FALSE
    /\ asked = {}
    /\ reactions = 0

\* DialogHandle::sendEvent of a built event; builder and reader go through
\* JSON.  A reader that finds nothing returns false without a handler.  The
\* widget's name goes beside the event, unchanged and unread on the way, and
\* is left out; a builder that throws (a text that is not UTF-8) does so in
\* the host, before there is an event.
SendEvent ==
    /\ phase = "idle"
    /\ reactions < MaxReactions
    /\ \E i \in DOMAIN Events :
         LET json == JObject(Events[i].fields)
             call == onWidgetEvent(dumped(json).v)
         IN /\ ~throws(json)
            /\ sent' = <<Events[i]>>
            /\ handled' = call
            /\ phase' = IF call = <<>> THEN "idle" ELSE "handling"
    /\ UNCHANGED <<data, intended, view, stale, asked, reactions>>

tick ==
    /\ phase = "idle"
    /\ reactions < MaxReactions
    /\ sent' = <<>>
    /\ handled' = <<Call("onTick", 0)>>
    /\ phase' = "handling"
    /\ UNCHANGED <<data, intended, view, stale, asked, reactions>>

\* The handler changes the state and returns true, or throws after it did.
Handle(r, threw) ==
    /\ phase = "handling"
    /\ data' = Apply(data, r)
    /\ intended' = Intend(intended, r)
    /\ asked' = IF r.kind = "clear" THEN {}
                ELSE asked \cup ({r.kind} \cap {"accept", "close", "subDialog"})
    /\ reactions' = reactions + 1
    /\ phase' = IF threw THEN "idle" ELSE "reread"
    /\ stale' = (stale \/ threw)
    /\ sent' = <<>>
    /\ handled' = <<>>
    /\ UNCHANGED view
HandleAny ==
    \E i \in DOMAIN Reactions, threw \in BOOLEAN : Handle(Reactions[i], threw)

\* The handler has nothing to do, or throws before it changed anything.
HandleNothing ==
    /\ phase = "handling"
    /\ phase' = "idle"
    /\ sent' = <<>>
    /\ handled' = <<>>
    /\ UNCHANGED <<data, intended, view, stale, asked, reactions>>

\* get_widget_data: the text, or "{}" when building it threw.
trampoline_get_widget_data(d) ==
    IF throws(JObject(d)) THEN EmptyData ELSE dumped(JObject(d)).v

\* What the plugin does after it was asked for its data: it forgets the
\* commands it has put there, as the plugin guide tells it to ("Set a
\* one-shot flag").  An assumption about plugins, no code of the SDK.
WithoutCommands(d) == [k \in DOMAIN d \ Commands |-> d[k]]

\* The host re-reads, applies, and obeys an accept request (external).
Reread ==
    /\ phase = "reread"
    /\ view' = trampoline_get_widget_data(data)
    /\ data' = WithoutCommands(data)
    /\ stale' = throws(JObject(data))
    /\ asked' = {}
    /\ phase' = IF requestAccept(view') THEN "closed" ELSE "idle"
    /\ UNCHANGED <<intended, sent, handled, reactions>>

Ends ==
    /\ phase = "idle"
    /\ phase' = "closed"
    /\ UNCHANGED <<data, intended, view, sent, handled, stale, asked, reactions>>

\* DialogHandle::accept and reject, when the user ends the dialog: the
\* plugin is told and nothing is re-read.  The text that accept passes on
\* is the application's.
accept == Ends
reject == Ends

Next ==
    \/ SendEvent
    \/ tick
    \/ HandleAny
    \/ HandleNothing
    \/ Reread
    \/ accept
    \/ reject

Spec == Init /\ [][Next]_vars

----------------------------------------------------------------------------
\* Type invariant: the documents of both sides hold entries of widgets and
\* commands only, and the widgets the host enumerates in the view are those
\* it finds one by one.
TypeOK ==
    /\ DOMAIN data \subseteq Widget \cup Commands
    /\ DOMAIN view \subseteq Widget \cup Commands
    /\ \A w \in Widget \cap DOMAIN view : hasWidget(view, w)
    /\ widgetNames(view) \cap Widget = {w \in Widget : hasWidget(view, w)}
    /\ phase \in {"idle", "handling", "reread", "closed"}
    /\ stale \in BOOLEAN
    /\ asked \subseteq {"accept", "close", "subDialog"}
    /\ reactions \in 0..MaxReactions
    /\ Len(handled) <= 1 /\ Len(sent) <= 1

\* When the host waits for the user and the last update reached it, every
\* getter of every widget returns what the plugin last set through its
\* setters, in whatever order and on whatever widget it called them: no two
\* setters share a key by accident, none leaves a stale value readable
\* under another type, and the text form loses nothing but a NaN.
ViewShowsIntent ==
    /\ TypeOK
    /\ phase = "idle" /\ ~stale =>
         /\ \A w \in Widget : \A g \in DOMAIN intended[w] :
               View(view, w)[g] = intended[w][g]
         /\ dropTargets(view) =
              {w \in Widget : "isDropTarget" \in DOMAIN intended[w]
                              /\ intended[w]["isDropTarget"]}

\* Whatever the order in which the dispatch tries its candidates, an event
\* calls the handler of its own kind (a click that of clicks, a selection
\* that of selections) with the arguments it was built from; an event of a
\* NaN calls none.
EventReachesItsHandler == sent # <<>> => handled = sent[1].expect

\* A re-read that reaches the host delivers exactly the commands requested
\* since the last one, each once: the dialog closes when it was asked to,
\* and no command is obeyed a second time at a later re-read.
CommandsDeliveredOnce ==
    [][phase = "reread" /\ ~stale' =>
         /\ (phase' = "closed") <=> ("accept" \in asked)
         /\ (requestClose(view') # <<>>) <=> ("close" \in asked)
         /\ (subDialogUi(view') # <<>>) <=> ("subDialog" \in asked)]_vars
=============================================================================
