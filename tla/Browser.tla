------------------------------- MODULE Browser -------------------------------
(***************************************************************************)
(* The browser tab the controllers of views/js run in: the page it shows   *)
(* and the address a script or the user has sent it to. Setting            *)
(* window.location changes neither the page nor its scripts at once: both  *)
(* go on until the answer comes, and a second address takes the place of   *)
(* the first, whose request may reach the server all the same.             *)
(***************************************************************************)
EXTENDS ExecutionStates

CONSTANTS Execution,      \* identifiers of delivery executions
          NoExecution     \* no execution

ASSUME NoExecutionAssumption == NoExecution \notin Execution

VARIABLES
  page,         \* "list": entry points of deliveries (index or waiting page);
                \* "player": the page of one execution; "out": any other page
  nav,          \* the address the tab is going to, or NoUrl
  lost,         \* a request whose answer the tab no longer waits for, or NoUrl
  interrupted   \* the user went elsewhere while the tab was on its way

browserVars == <<page, nav, lost, interrupted>>

Page == {"list", "player", "out"}

\* The addresses; those that change an execution on the server. A request to
\* run e has become <<"resume", e>> once its handler has found e resumable.
Changing ==
  {<<"init">>}
  \cup {<<to, e>> : to \in {"run", "resume", "finish"}, e \in Execution}
Url == Changing \cup {<<"index">>, <<"logout">>}
NoUrl == <<>>

playing == page = "player"

\* The tab forgets where it was going. At most one forgotten request is kept.
Forget ==
  IF nav \in Changing THEN lost = NoUrl /\ lost' = nav ELSE UNCHANGED lost

GoTo(url) == Forget /\ nav' = url

\* The user, or an event the user cannot foresee, chooses another way.
Divert(url) == GoTo(url) /\ interrupted' = (interrupted \/ nav # NoUrl)

\* The browser's stop button: the page stays as it is.
Stop ==
  /\ nav # NoUrl
  /\ Divert(NoUrl)
  /\ UNCHANGED page

\* The browser's reload button, or a link to the index in the page's header.
Reload ==
  /\ ~playing
  /\ Divert(<<"index">>)
  /\ UNCHANGED page

\* A forgotten request does not reach the server, or its handler breaks off.
DropLost ==
  /\ lost # NoUrl
  /\ lost' = NoUrl
  /\ UNCHANGED <<page, nav, interrupted>>
=============================================================================
