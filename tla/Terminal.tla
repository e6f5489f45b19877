------------------------------ MODULE Terminal ------------------------------
(***************************************************************************)
(* The terminals of one VM: browser tabs, the WebSocket of each attachment, *)
(* the handler that serves it (terminalSocketRoute) and the local process  *)
(* it opens (TerminalBridge).  The VM has one attachment at a time: a new  *)
(* one replaces the one before, whose handler may still be cleaning up.    *)
(*                                                                         *)
(* Connections are numbered in the order in which tabs open them.  What    *)
(* happens to the session on the VM is seen here as processes that exit:   *)
(* the shell ended, or a restart elsewhere killed the session.  Input goes *)
(* the way of a resize; the texts of input and output are left out.        *)
(***************************************************************************)
EXTENDS Naturals, Sequences

CONSTANTS
  Tab,        \* the browser tabs that show the VM
  Size,       \* what the rows and columns of a terminal may be
  First,      \* what they are at first
  None,       \* no tab, no size
  MaxConns,   \* bound: sockets that are opened
  Opener,     \* bound: the tabs that may open the k-th of them
  MaxEvents   \* bound: changes of windows, tabs that leave, outputs and failures

ASSUME SizeAssumption == First \in Size
ASSUME NoneAssumption == None \notin Tab \cup Size
ASSUME BoundsAssumption ==
  /\ MaxConns \in Nat /\ MaxEvents \in Nat
  /\ \A k \in 1..MaxConns : Opener[k] \subseteq Tab

Conn == 1..MaxConns
NoConn == 0

VARIABLES
  view,     \* [Tab -> the socket and session of the tab, and its window]
  unsynced, \* [Tab -> whether the window changed before "attached", and was not
            \*  looked at since] (history)
  events,   \* how many of these there were
  sock,     \* [Conn -> the browser's end of the socket]
  up, down, \* [Conn -> the messages to the server, and to the browser]
  server,   \* [Conn -> how far the handler of the connection is]
  pty,      \* [Conn -> the local process and how it ended]
  active    \* activeAttachments: the VM's attachment

vars == <<view, unsynced, events, sock, up, down, server, pty, active>>

NoSocket == [end |-> "unused", tab |-> None, size |-> None]
NoProcess == [proc |-> "none", size |-> None, exited |-> "no"]

Init ==
  /\ view = [t \in Tab |->
       [conn |-> NoConn, status |-> "detached", known |-> FALSE,
        size |-> First, timer |-> FALSE, sent |-> None]]
  /\ unsynced = [t \in Tab |-> FALSE]
  /\ events = 0
  /\ sock = [k \in Conn |-> NoSocket]
  /\ up = [k \in Conn |-> <<>>]
  /\ down = [k \in Conn |-> <<>>]
  /\ server = [k \in Conn |-> "none"]
  /\ pty = [k \in Conn |-> NoProcess]
  /\ active = NoConn

\* What happens to the system from outside is bounded.
Happens == events < MaxEvents /\ events' = events + 1

IsOpen(k) == sock[k].end = "open"

-----------------------------------------------------------------------------
(* The tab *)

\* The tab closes its socket, if it has one, and stops listening to it.
Closing(t) ==
  IF view[t].conn = NoConn THEN sock
  ELSE [sock EXCEPT ![view[t].conn].end = "closing"]

\* What is on its way to a tab that no longer listens is of no account.
Unheard(t) == [k \in Conn |-> IF k = view[t].conn THEN <<>> ELSE down[k]]

\* A new socket, with the size of the window in its address.  Buttons and
\* keys are dead while another one is being attached.  A session known from
\* before makes the fit at the start set the timer.  The server's handler
\* begins, and its first message would only repeat "connecting".
Attach(t, k) ==
  /\ view[t].status # "connecting" /\ t \in Opener[k]
  /\ server[k] = "none" /\ \A j \in 1..(k - 1) : server[j] # "none"
  /\ sock' = [Closing(t) EXCEPT ![k] = [end |-> "open", tab |-> t,
                                             size |-> view[t].size]]
  /\ view' = [view EXCEPT ![t].conn = k, ![t].status = "connecting",
                          ![t].known = FALSE, ![t].sent = None,
                          ![t].timer = @ \/ view[t].known]
  /\ unsynced' = [unsynced EXCEPT ![t] = FALSE]
  /\ down' = Unheard(t)
  /\ server' = [server EXCEPT ![k] = "preparing"]
  /\ UNCHANGED <<events, up, pty, active>>

\* The tab shows something else, or goes: both run the cleanup that clears the
\* timer, since that effect depends on what is selected.
Leave(t) ==
  /\ view[t].status # "detached" /\ Happens
  /\ sock' = Closing(t)
  /\ view' = [view EXCEPT ![t].conn = NoConn, ![t].status = "detached",
                          ![t].known = FALSE, ![t].sent = None,
                          ![t].timer = FALSE]
  /\ down' = Unheard(t)
  /\ UNCHANGED <<unsynced, up, server, pty, active>>

\* The window changes, or is only measured again.  Without a session, which
\* the tab knows from "ready" on, that is all.
Fit(t, s) ==
  /\ Happens
  /\ view' = [view EXCEPT ![t].size = s, ![t].timer = @ \/ view[t].known]
  /\ unsynced' = IF s = view[t].size THEN unsynced
              ELSE [unsynced EXCEPT ![t] = view[t].status # "attached"]
  /\ UNCHANGED <<sock, up, down, server, pty, active>>

\* 80 ms later the size is sent, unless the server has it already.
Sync(t) ==
  LET k == view[t].conn
      live == view[t].status = "attached" /\ k # NoConn
      sends == live /\ view[t].sent # view[t].size
  IN  /\ view[t].timer
      /\ view' = [view EXCEPT ![t].timer = FALSE,
                              ![t].sent = IF sends THEN view[t].size ELSE @]
      /\ up' = IF sends THEN [up EXCEPT ![k] = Append(@, view[t].size)] ELSE up
      /\ unsynced' = [unsynced EXCEPT ![t] = @ /\ ~live]
      /\ UNCHANGED <<events, sock, down, server, pty, active>>

\* onclose: of the tab's own socket it is shown, of one the tab has closed
\* itself only the size that was sent last is forgotten.
OnClose(t, k, status) ==
  IF view[t].conn = k
  THEN [view EXCEPT ![t].conn = NoConn, ![t].status = status, ![t].sent = None]
  ELSE [view EXCEPT ![t].sent = None]

\* Mutant: the size taken for the server's is the window's, not the socket's.
ReadyAsShown(t, k) == view[t].size

ReadySize(t, k) == sock[k].size

\* The status or error sent just before a close is shown with it.
OnMessage(t, k, message) ==
  CASE message = "ready" ->
         [view EXCEPT ![t].status = "connecting", ![t].known = TRUE,
                      ![t].sent = ReadySize(t, k)]
    [] message = "attached" -> [view EXCEPT ![t].status = "attached"]
    [] message = "close exited" -> OnClose(t, k, "exited")
    [] message = "close" -> OnClose(t, k, "disconnected")

\* The tab gets the next message of its socket; the server's closing ends it.
Receive(k) ==
  LET message == Head(down[k])
      ends == message \in {"close", "close exited"}
  IN  /\ IsOpen(k) /\ down[k] # <<>>
      /\ view' = OnMessage(sock[k].tab, k, message)
      /\ sock' = IF ends THEN [sock EXCEPT ![k].end = "closed"] ELSE sock
      /\ down' = [down EXCEPT ![k] = IF ends THEN <<>> ELSE Tail(@)]
      /\ UNCHANGED <<unsynced, events, up, server, pty, active>>

\* The end of a socket: of one the tab has closed, or of one that breaks.
Ends(k) ==
  /\ view' = OnClose(sock[k].tab, k, "disconnected")
  /\ sock' = [sock EXCEPT ![k].end = "closed"]
  /\ down' = [down EXCEPT ![k] = <<>>]
  /\ UNCHANGED <<unsynced, up, server, pty, active>>

Closed(k) == sock[k].end = "closing" /\ Ends(k) /\ UNCHANGED events

Break(k) == IsOpen(k) /\ Ends(k) /\ Happens

-----------------------------------------------------------------------------
(* The process of an attachment *)

\* close: the process is killed, and it is settled how it ended, unless that
\* is settled already.
Close(p, how) ==
  IF p.proc = "none" THEN p
  ELSE [p EXCEPT !.proc = "gone", !.exited = IF @ = "no" THEN how ELSE @]

\* A chunk of output that finds no room in the queue; how many wait there, and
\* how fast the browser takes them, is left to chance.  Of a process that was
\* killed already it would change nothing.
Overflow(k) ==
  /\ pty[k].proc = "running" /\ Happens
  /\ pty' = [pty EXCEPT ![k] = Close(@, "failed")]
  /\ UNCHANGED <<view, unsynced, sock, up, down, server, active>>

Exits(k) ==
  /\ pty[k].proc = "running" /\ Happens
  /\ pty' = [pty EXCEPT ![k] = Close(@, "exited")]
  /\ UNCHANGED <<view, unsynced, sock, up, down, server, active>>

-----------------------------------------------------------------------------
(* The handler of a connection *)

Handles(k, from, to) ==
  /\ server[k] = from
  /\ server' = [server EXCEPT ![k] = to]
  /\ UNCHANGED <<view, unsynced, sock, up>>

Sent(k, messages) ==
  down' = IF IsOpen(k) THEN [down EXCEPT ![k] = @ \o messages] ELSE down

\* There is no such VM, or its session cannot be prepared.
PrepareFails(k) ==
  /\ Handles(k, "preparing", "ending")
  /\ Sent(k, <<"close">>)
  /\ UNCHANGED <<pty, active>>
  /\ Happens

\* The attachment that is there is closed; its handler cleans up later.
Replaced ==
  IF active = NoConn THEN pty ELSE [pty EXCEPT ![active] = Close(@, "replaced")]

\* Without an await, the former attachment is closed, the process spawned and
\* the attachment entered.  Then messages find it, and the tab is told so; a
\* connection that breaks in between is found to have ended right after.
Spawn(k) ==
  /\ Handles(k, "preparing", "serving")
  /\ pty' = [Replaced EXCEPT ![k] = [proc |-> "running", size |-> sock[k].size,
                                     exited |-> "no"]]
  /\ active' = k
  /\ Sent(k, <<"ready", "attached">>)
  /\ UNCHANGED events

SpawnFails(k) ==
  /\ Handles(k, "preparing", "ending")
  /\ pty' = Replaced
  /\ Sent(k, <<"close">>)
  /\ UNCHANGED active
  /\ Happens

\* messageLoop: without an attachment a message is rejected; a process that is
\* gone ignores it or throws, which ends the connection.
Message(k) ==
  /\ up[k] # <<>> /\ server[k] \notin {"none", "done"}
  /\ up' = [up EXCEPT ![k] = Tail(@)]
  /\ IF pty[k].proc = "running"
     THEN pty' = [pty EXCEPT ![k].size = Head(up[k])] /\ UNCHANGED down
     ELSE /\ UNCHANGED pty
          /\ \/ UNCHANGED down
             \/ pty[k].proc = "gone" /\ Sent(k, <<"close">>)
  /\ UNCHANGED <<view, unsynced, events, sock, server, active>>

\* processExit wins the race: the tab is told why before the socket is closed.
Exit(k) ==
  /\ Handles(k, "serving", "ending")
  /\ \/ pty[k].exited = "exited" /\ Sent(k, <<"close exited">>)
     \/ pty[k].exited = "replaced" /\ Sent(k, <<"close">>)
     \/ pty[k].exited = "failed" /\ Sent(k, <<"close">>)
  /\ UNCHANGED <<events, pty, active>>

\* Mutant: the handler waits for the end of the process alone.
NeverHangsUp(k) == FALSE

HangsUp(k) == ~IsOpen(k)

\* The end of the input wins the race.
InputEnds(k) ==
  /\ HangsUp(k)
  /\ Handles(k, "serving", "ending")
  /\ UNCHANGED <<events, down, pty, active>>

\* The HTTP server may interrupt the handler of a broken connection.
Interrupt(k) ==
  /\ ~IsOpen(k)
  /\ Handles(k, "preparing", "ending")
  /\ UNCHANGED <<events, down, pty, active>>

\* Mutant: the cleanup removes the VM's entry, whoever entered it.
UnregisterAny(k) == NoConn

Unregister(k) == IF active = k THEN NoConn ELSE active

\* The finalizers: nobody listens to the process any more, it is closed, and
\* the entry removed.  Nobody asks any more how it ended.
Release(k) ==
  /\ server[k] = "ending"
  /\ server' = [server EXCEPT ![k] = "done"]
  /\ pty' = [pty EXCEPT ![k] = [NoProcess EXCEPT !.proc = Close(pty[k], "exited").proc]]
  /\ active' = Unregister(k)
  /\ up' = [up EXCEPT ![k] = <<>>]
  /\ UNCHANGED <<view, unsynced, events, sock, down>>

-----------------------------------------------------------------------------
Next ==
  \/ \E t \in Tab :
       \/ Leave(t) \/ Sync(t)
       \/ \E k \in Conn : Attach(t, k)
       \/ \E s \in Size : Fit(t, s)
  \/ \E k \in Conn :
       \/ Receive(k) \/ Closed(k) \/ Break(k) \/ Overflow(k) \/ Exits(k)
       \/ PrepareFails(k) \/ Spawn(k) \/ SpawnFails(k)
       \/ Message(k) \/ Exit(k) \/ InputEnds(k) \/ Interrupt(k)
       \/ Release(k)

\* The handlers of connections go on: a preparation fails after 30 s at the
\* latest, and finalizers run.  Sockets deliver.  As there are only so many
\* connections, each with a few steps, no handler is left out for ever.
Proceeds(k) ==
  \/ PrepareFails(k) \/ Spawn(k) \/ SpawnFails(k)
  \/ Exit(k) \/ InputEnds(k) \/ Interrupt(k) \/ Release(k)

Fairness == WF_vars(\E k \in Conn : Proceeds(k) \/ Receive(k))

Spec == Init /\ [][Next]_vars /\ Fairness

-----------------------------------------------------------------------------
(* Properties *)

\* However attachments replace one another, fail and clean up late, the VM has
\* one local process at most, and it is the one entered as active, which the
\* next attachment will close; and what is entered has a handler that will
\* take it out.  The cleanup of an earlier attachment does neither harm.
OneTerminal ==
  /\ \A k \in Conn : pty[k].proc = "running" => active = k
  /\ active # NoConn => server[active] \in {"serving", "ending"}

\* An attachment ends on both sides: when its socket is closed or broken, at
\* whatever moment, its handler comes to its end and leaves no process behind;
\* when its process exits, is replaced or is closed for output that found no
\* room, no tab goes on showing it as attached (PLAN_3.md: "Closed sockets leave no
\* local SSH or PTY process behind", "failure is visible").
Shows(t, k) == view[t].conn = k /\ view[t].status = "attached"
HalfEnded(k) ==
  \/ sock[k].end \in {"closing", "closed"} /\ (server[k] # "done" \/ pty[k].proc = "running")
  \/ pty[k].proc = "gone" /\ \E t \in Tab : Shows(t, k)
SomeHalfEnded == \E k \in Conn : HalfEnded(k)
EndsTogether == SomeHalfEnded ~> ~SomeHalfEnded

\* The rows and columns of the process are those of the window when no resize
\* is on its way, also after a reconnection with one of the former socket in
\* the timer; except for a change the tab saw before it was attached, which
\* the code does not send later.
SizeSettles ==
  \A t \in Tab :
    LET k == view[t].conn
    IN  view[t].status = "attached" /\ k # NoConn /\ ~view[t].timer
          /\ up[k] = <<>> /\ pty[k].proc = "running" /\ ~unsynced[t]
        => pty[k].size = view[t].size
=============================================================================
