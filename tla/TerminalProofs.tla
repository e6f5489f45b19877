--------------------------- MODULE TerminalProofs ---------------------------
(***************************************************************************)
(* OneTerminal and SizeSettles for any number of tabs, sockets, sizes and   *)
(* events.  OneTerminal is inductive once the shapes of the processes and  *)
(* the entry are known.  SizeSettles needs to know, at every moment of an  *)
(* attachment, what the tab, the messages on their way, the handler and    *)
(* the process know of one another: Settling, in the second part.          *)
(***************************************************************************)
EXTENDS Terminal, SequenceTheorems, TLAPS

IsProcess(p) == p = [proc |-> p.proc, size |-> p.size, exited |-> p.exited]

Shapes ==
  /\ pty = [k \in Conn |-> pty[k]]
  /\ \A k \in Conn : IsProcess(pty[k])
  /\ server = [k \in Conn |-> server[k]]
  /\ active \in Conn \cup {NoConn}

IInv == Shapes /\ OneTerminal

\* Closing a process leaves a process, and it does not run.
LEMMA CloseCloses ==
  ASSUME NEW p, NEW how, IsProcess(p)
  PROVE  /\ IsProcess(Close(p, how))
         /\ Close(p, how).proc # "running"
         /\ p.proc # "running" => Close(p, how).proc # "running"
BY DEF IsProcess, Close

LEMMA NotAConn == NoConn \notin Conn
BY BoundsAssumption DEF NoConn, Conn

\* Initially nothing runs and nothing is entered.
LEMMA InitIInv == Init => IInv
BY DEF Init, IInv, Shapes, OneTerminal, IsProcess, NoProcess

\* Once the attachment entered is closed no process runs.
LEMMA ReplacedStops ==
  ASSUME IInv
  PROVE  /\ Replaced = [k \in Conn |-> Replaced[k]]
         /\ \A k \in Conn : IsProcess(Replaced[k]) /\ Replaced[k].proc # "running"
<1>1. CASE active = NoConn
  BY <1>1, NotAConn DEF IInv, Shapes, OneTerminal, Replaced
<1>2. CASE active # NoConn
  <2>1. active \in Conn
    BY <1>2 DEF IInv, Shapes
  <2>2. Replaced = [pty EXCEPT ![active] = Close(pty[active], "replaced")]
    BY <1>2 DEF Replaced
  <2>3. \A k \in Conn : k # active => Replaced[k] = pty[k] /\ pty[k].proc # "running"
    BY <2>2 DEF IInv, Shapes, OneTerminal
  <2>4. Replaced[active] = Close(pty[active], "replaced")
    BY <2>1, <2>2 DEF IInv, Shapes
  <2>5. IsProcess(Replaced[active]) /\ Replaced[active].proc # "running"
    BY <2>1, <2>4, CloseCloses DEF IInv, Shapes
  <2>6. \A k \in Conn : IsProcess(pty[k])
    BY DEF IInv, Shapes
  <2>7. DOMAIN pty = Conn
    BY DEF IInv, Shapes
  <2> QED
    BY <2>2, <2>3, <2>5, <2>6, <2>7
<1> QED
  BY <1>1, <1>2

\* A step that leaves processes, handlers and the entry alone.
LEMMA Elsewhere ==
  ASSUME IInv, UNCHANGED <<pty, server, active>>
  PROVE  IInv'
BY DEF IInv, Shapes, OneTerminal, IsProcess

\* A step that closes a process, or resizes one, and no handler moves.
LEMMA ProcessChanges ==
  ASSUME IInv, UNCHANGED <<server, active>>, NEW k \in Conn, NEW p, IsProcess(p),
         pty' = [pty EXCEPT ![k] = p],
         p.proc = "running" => pty[k].proc = "running"
  PROVE  IInv'
<1>1. \A j \in Conn : pty'[j] = IF j = k THEN p ELSE pty[j]
  BY DEF IInv, Shapes
<1>2. Shapes'
  BY <1>1 DEF IInv, Shapes, IsProcess
<1>3. OneTerminal'
  BY <1>1 DEF IInv, OneTerminal
<1> QED
  BY <1>2, <1>3 DEF IInv

\* A handler moves, not from where it holds the entry unless it stays there.
LEMMA HandlerMoves ==
  ASSUME IInv, UNCHANGED active, NEW k \in Conn, NEW to,
         server' = [server EXCEPT ![k] = to],
         pty' = [j \in Conn |-> pty'[j]],
         \A j \in Conn : IsProcess(pty'[j])
                         /\ (pty'[j].proc = "running" => pty[j].proc = "running"),
         active = k => to \in {"serving", "ending"}
  PROVE  IInv'
<1>1. \A j \in Conn : server'[j] = IF j = k THEN to ELSE server[j]
  BY DEF IInv, Shapes
<1>2. Shapes'
  BY <1>1 DEF IInv, Shapes, IsProcess
<1>3. OneTerminal'
  BY <1>1 DEF IInv, Shapes, OneTerminal
<1> QED
  BY <1>2, <1>3 DEF IInv

LEMMA SpawnIInv ==
  ASSUME IInv, NEW k \in Conn, Spawn(k)
  PROVE  IInv'
<1> DEFINE p == [proc |-> "running", size |-> sock[k].size, exited |-> "no"]
<1>1. pty' = [Replaced EXCEPT ![k] = p] /\ active' = k
  BY DEF Spawn
<1>2. server' = [server EXCEPT ![k] = "serving"]
  BY DEF Spawn, Handles
<1>3. \A j \in Conn : pty'[j] = IF j = k THEN p ELSE Replaced[j]
  BY <1>1, ReplacedStops
<1>4. pty' = [j \in Conn |-> pty'[j]]
  BY <1>1, ReplacedStops
<1>5. IsProcess(p)
  BY DEF IsProcess
<1>6. \A j \in Conn : IsProcess(pty'[j]) /\ (pty'[j].proc = "running" => j = k)
  BY <1>3, <1>5, ReplacedStops
<1>7. server' = [j \in Conn |-> server'[j]] /\ server'[k] = "serving"
  BY <1>2 DEF IInv, Shapes
<1>8. Shapes'
  BY <1>1, <1>4, <1>6, <1>7 DEF Shapes, IsProcess
<1>9. OneTerminal'
  BY <1>1, <1>6, <1>7 DEF OneTerminal
<1> QED
  BY <1>8, <1>9 DEF IInv

LEMMA ReleaseIInv ==
  ASSUME IInv, NEW k \in Conn, Release(k)
  PROVE  IInv'
<1> DEFINE p == [NoProcess EXCEPT !.proc = Close(pty[k], "exited").proc]
<1>1. pty' = [pty EXCEPT ![k] = p] /\ server' = [server EXCEPT ![k] = "done"]
  BY DEF Release
<1>2. active' = IF active = k THEN NoConn ELSE active
  BY DEF Release, Unregister
<1>3. IsProcess(p) /\ p.proc # "running"
  <2>1. Close(pty[k], "exited").proc # "running"
    BY CloseCloses DEF IInv, Shapes
  <2> QED
    BY <2>1 DEF IsProcess, NoProcess
<1> HIDE DEF p
<1>4. \A j \in Conn : /\ pty'[j] = IF j = k THEN p ELSE pty[j]
                      /\ server'[j] = IF j = k THEN "done" ELSE server[j]
  BY <1>1 DEF IInv, Shapes
<1>5. Shapes'
  BY <1>1, <1>2, <1>3, <1>4 DEF IInv, Shapes, IsProcess
<1>6. OneTerminal'
  BY <1>2, <1>3, <1>4 DEF IInv, Shapes, OneTerminal
<1> QED
  BY <1>5, <1>6 DEF IInv

LEMMA NextIInv == IInv /\ [Next]_vars => IInv'
<1> SUFFICES ASSUME IInv, [Next]_vars
             PROVE  IInv'
  OBVIOUS
<1> USE DEF Handles
<1>1. CASE UNCHANGED vars
  BY <1>1, Elsewhere DEF vars
<1>2. ASSUME NEW t \in Tab, NEW k \in Conn, Attach(t, k)
      PROVE  IInv'
  <2>1. server[k] = "none" /\ server' = [server EXCEPT ![k] = "preparing"]
        /\ UNCHANGED <<pty, active>>
    BY <1>2 DEF Attach
  <2>2. active # k
    BY <2>1, NotAConn DEF IInv, OneTerminal
  <2> QED
    BY <2>1, <2>2, HandlerMoves DEF IInv, Shapes
<1>3. ASSUME NEW t \in Tab, Leave(t) \/ Sync(t) \/ (\E s \in Size : Fit(t, s))
      PROVE  IInv'
  BY <1>3, Elsewhere DEF Leave, Sync, Fit
<1>4. ASSUME NEW k \in Conn, Receive(k) \/ Closed(k) \/ Break(k)
      PROVE  IInv'
  BY <1>4, Elsewhere DEF Receive, Closed, Break, Ends
<1>5. ASSUME NEW k \in Conn, Overflow(k) \/ Exits(k)
      PROVE  IInv'
  <2>1. PICK how : pty' = [pty EXCEPT ![k] = Close(pty[k], how)]
    BY <1>5 DEF Overflow, Exits
  <2>2. UNCHANGED <<server, active>> /\ IsProcess(pty[k])
    BY <1>5 DEF Overflow, Exits, IInv, Shapes
  <2> QED
    BY <2>1, <2>2, CloseCloses, ProcessChanges
<1>6. ASSUME NEW k \in Conn, Message(k)
      PROVE  IInv'
  <2>1. CASE pty[k].proc = "running"
    <3> DEFINE p == [pty[k] EXCEPT !.size = Head(up[k])]
    <3>1. pty' = [pty EXCEPT ![k] = p] /\ UNCHANGED <<server, active>>
      BY <1>6, <2>1 DEF Message
    <3>2. IsProcess(p)
      BY DEF IsProcess, IInv, Shapes
    <3> QED
      BY <2>1, <3>1, <3>2, ProcessChanges
  <2>2. CASE pty[k].proc # "running"
    BY <1>6, <2>2, Elsewhere DEF Message
  <2> QED
    BY <2>1, <2>2
<1>7. ASSUME NEW k \in Conn, PrepareFails(k) \/ Interrupt(k)
      PROVE  IInv'
  <2>1. server[k] = "preparing" /\ server' = [server EXCEPT ![k] = "ending"]
        /\ UNCHANGED <<pty, active>>
    BY <1>7 DEF PrepareFails, Interrupt
  <2> QED
    BY <2>1, HandlerMoves DEF IInv, Shapes
<1>8. ASSUME NEW k \in Conn, SpawnFails(k)
      PROVE  IInv'
  <2>1. server' = [server EXCEPT ![k] = "ending"] /\ pty' = Replaced
        /\ UNCHANGED active
    BY <1>8 DEF SpawnFails
  <2> QED
    BY <2>1, ReplacedStops, HandlerMoves
<1>9. ASSUME NEW k \in Conn, Exit(k) \/ InputEnds(k)
      PROVE  IInv'
  <2>1. server' = [server EXCEPT ![k] = "ending"] /\ UNCHANGED <<pty, active>>
    BY <1>9 DEF Exit, InputEnds
  <2> QED
    BY <2>1, HandlerMoves DEF IInv, Shapes
<1> QED
  BY <1>1, <1>2, <1>3, <1>4, <1>5, <1>6, <1>7, <1>8, <1>9, SpawnIInv, ReleaseIInv
  DEF Next

\* However attachments replace one another, fail and clean up late, the VM has
\* one local process at most, the one that is entered (TerminalBridge.open).
THEOREM OneTerminalHolds == Spec => []OneTerminal
<1>1. IInv => OneTerminal
  BY DEF IInv
<1> QED
  BY <1>1, InitIInv, NextIInv, PTL DEF Spec

-----------------------------------------------------------------------------
(* The size of the window and that of the process.                          *)

Messages == {"ready", "attached", "close", "close exited"}

IsView(v) ==
  /\ v = [conn |-> v.conn, status |-> v.status, known |-> v.known,
          size |-> v.size, timer |-> v.timer, sent |-> v.sent]
  /\ v.conn \in Conn \cup {NoConn} /\ v.size \in Size

IsSock(s) ==
  /\ s = [end |-> s.end, tab |-> s.tab, size |-> s.size]
  /\ s.end # "unused" => s.tab \in Tab

\* The rows and columns the process will have when all resizes have arrived.
End(u, p) == IF u = <<>> THEN p.size ELSE u[Len(u)]

\* A handler announces the session once, before anything else.
Announces(d) ==
  \A i \in DOMAIN d :
    /\ d[i] = "ready" => i = 1
    /\ d[i] = "attached" => i = 1 \/ (i = 2 /\ d[1] = "ready")

\* Before a handler serves there is nothing on its wires and no process.
Unserved(h, u, d, p) ==
  h \in {"none", "preparing"} => u = <<>> /\ d = <<>> /\ p.proc = "none"

\* What holds between a tab v that listens to a socket s and what it reaches:
\* the resizes u and the messages d on their way, the process p, the handler
\* h, and whether a change of the window came too early (late).  What the tab
\* takes for the size of the process is what that will be; until it is told
\* "attached" the process keeps the size of the address; from then on the
\* timer is set or the process gets the size of the window.
Served(v, s, u, d, p, h, late) ==
  /\ h # "none" /\ v.status \in {"connecting", "attached"}
  /\ Announces(d)
  /\ h = "preparing" => v.sent = None
  /\ v.sent # None /\ p.proc = "running" => End(u, p) = v.sent
  /\ d # <<>> /\ d[1] = "attached" => v.known = TRUE
  /\ v.status = "connecting" =>
       /\ u = <<>>
       /\ p.proc = "running" => p.size = s.size
       /\ late = FALSE => s.size = v.size
  /\ v.status = "attached" =>
       /\ v.known = TRUE /\ h # "preparing"
       /\ \A i \in DOMAIN d : d[i] \notin {"ready", "attached"}
       /\ v.timer = FALSE /\ late = FALSE /\ p.proc = "running" => End(u, p) = v.size

ServedBy(t, k) ==
  Served(view[t], sock[k], up[k], down[k], pty[k], server[k], unsynced[t])

Wires ==
  /\ view = [t \in Tab |-> view[t]] /\ \A t \in Tab : IsView(view[t])
  /\ \A t \in Tab : view[t].known \in BOOLEAN /\ view[t].timer \in BOOLEAN
  /\ unsynced \in [Tab -> BOOLEAN]
  /\ sock = [k \in Conn |-> sock[k]] /\ \A k \in Conn : IsSock(sock[k])
  /\ up \in [Conn -> Seq(Size)] /\ down \in [Conn -> Seq(Messages)]

\* An open socket and the tab that listens to it belong to each other.
Owned ==
  /\ \A k \in Conn : IsOpen(k) => sock[k].tab \in Tab /\ view[sock[k].tab].conn = k
  /\ \A t \in Tab, k \in Conn :
       view[t].conn = k => IsOpen(k) /\ sock[k].tab = t /\ ServedBy(t, k)
  /\ \A k \in Conn : Unserved(server[k], up[k], down[k], pty[k])

Settling == Wires /\ Owned

-----------------------------------------------------------------------------
(* What one message or step changes between a tab and its handler.          *)

LEMMA EndAppend ==
  ASSUME NEW u \in Seq(Size), NEW p, NEW s \in Size
  PROVE  Append(u, s) \in Seq(Size) /\ End(Append(u, s), p) = s
<1>1. PICK w : w = Append(u, s)
  OBVIOUS
<1>2. w \in Seq(Size) /\ Len(w) = Len(u) + 1 /\ w[Len(u) + 1] = s /\ Len(u) \in Nat
  BY <1>1
<1>3. w # <<>>
  BY <1>2
<1> QED BY <1>1, <1>2, <1>3 DEF End

\* The first resize is taken by a process that runs.
LEMMA EndTaken ==
  ASSUME NEW u \in Seq(Size), u # <<>>, NEW p, NEW r, r.size = Head(u)
  PROVE  Tail(u) \in Seq(Size) /\ End(Tail(u), r) = End(u, p)
<1>1. PICK w : w = Tail(u)
  OBVIOUS
<1>2. /\ w \in Seq(Size) /\ Len(w) = Len(u) - 1 /\ Len(u) \in Nat \ {0} /\ Head(u) = u[1]
      /\ \A i \in 1 .. Len(w) : w[i] = u[i + 1]
  BY <1>1, HeadTailProperties
<1>3. CASE w = <<>>
  <2>1. Len(u) = 1
    BY <1>2, <1>3
  <2> QED BY <1>1, <1>2, <1>3, <2>1 DEF End
<1>4. CASE w # <<>>
  <2>1. Len(w) # 0
    BY <1>2, <1>4
  <2>2. w[Len(w)] = u[Len(w) + 1]
    BY <1>2, <2>1
  <2>3. w[Len(w)] = u[Len(u)]
    BY <1>2, <2>2
  <2> QED BY <1>1, <1>2, <1>4, <2>3 DEF End
<1> QED BY <1>3, <1>4

LEMMA ReadyServed ==
  ASSUME NEW v, NEW s, NEW u, NEW d \in Seq(Messages), NEW p, NEW h, NEW late, NEW w,
         Served(v, s, u, d, p, h, late), d # <<>>, Head(d) = "ready", h # "preparing",
         w.status = "connecting", w.known = TRUE, w.sent = s.size, w.size = v.size
  PROVE  Served(w, s, u, Tail(d), p, h, late)
<1>1. PICK e : e = Tail(d)
  OBVIOUS
<1>2. /\ e \in Seq(Messages) /\ Head(d) = d[1] /\ Len(d) \in Nat \ {0}
      /\ DOMAIN d = 1 .. Len(d) /\ DOMAIN e = 1 .. (Len(d) - 1)
      /\ \A i \in DOMAIN e : e[i] = d[i + 1]
  BY <1>1, HeadTailProperties
<1>3. v.status # "attached"
  BY <1>2 DEF Served
<1>4. Announces(e)
  <2> SUFFICES ASSUME NEW i \in DOMAIN e
               PROVE  e[i] # "ready" /\ (e[i] = "attached" => i = 1)
    BY DEF Announces
  <2>1. i + 1 \in DOMAIN d /\ e[i] = d[i + 1] /\ i \in Nat \ {0}
    BY <1>2
  <2> QED BY <2>1 DEF Served, Announces
<1>5. u = <<>> /\ (p.proc = "running" => p.size = s.size) /\ (late = FALSE => s.size = v.size)
  BY <1>3 DEF Served
<1>6. p.proc = "running" => End(u, p) = s.size
  BY <1>5 DEF End
<1>7. h # "none"
  BY DEF Served
<1> QED BY <1>1, <1>4, <1>5, <1>6, <1>7 DEF Served

LEMMA AttachedServed ==
  ASSUME NEW v, NEW s, NEW u, NEW d \in Seq(Messages), NEW p, NEW h, NEW late, NEW w,
         Served(v, s, u, d, p, h, late), d # <<>>, Head(d) = "attached", h # "preparing",
         w.status = "attached", w.known = v.known, w.sent = v.sent, w.size = v.size,
         w.timer = v.timer
  PROVE  Served(w, s, u, Tail(d), p, h, late)
<1>1. PICK e : e = Tail(d)
  OBVIOUS
<1>2. /\ e \in Seq(Messages) /\ Head(d) = d[1] /\ Len(d) \in Nat \ {0}
      /\ DOMAIN d = 1 .. Len(d) /\ DOMAIN e = 1 .. (Len(d) - 1)
      /\ \A i \in DOMAIN e : e[i] = d[i + 1]
  BY <1>1, HeadTailProperties
<1>3. v.status = "connecting"
  BY <1>2 DEF Served
<1>4. \A i \in DOMAIN e : e[i] \notin {"ready", "attached"}
  <2> SUFFICES ASSUME NEW i \in DOMAIN e
               PROVE  e[i] \notin {"ready", "attached"}
    OBVIOUS
  <2>1. i + 1 \in DOMAIN d /\ e[i] = d[i + 1] /\ i \in Nat \ {0}
    BY <1>2
  <2> QED BY <1>2, <2>1 DEF Served, Announces
<1>5. Announces(e) /\ ~(e # <<>> /\ e[1] = "attached")
  BY <1>2, <1>4 DEF Announces
<1>6. u = <<>> /\ (p.proc = "running" => p.size = s.size) /\ (late = FALSE => s.size = v.size)
  BY <1>3 DEF Served
<1>7. p.proc = "running" /\ late = FALSE => End(u, p) = v.size
  BY <1>6 DEF End
<1>8. v.known = TRUE /\ h # "none"
  BY <1>2 DEF Served
<1>9. v.sent # None /\ p.proc = "running" => End(u, p) = v.sent
  BY DEF Served
<1> QED BY <1>1, <1>4, <1>5, <1>7, <1>8, <1>9 DEF Served

\* The server says that it ends.
LEMMA LastWord ==
  ASSUME NEW d \in Seq(Messages), NEW m \in Messages, m \notin {"ready", "attached"}
  PROVE  LET e == d \o <<m>>
         IN  /\ e \in Seq(Messages)
             /\ Announces(d) => Announces(e)
             /\ e # <<>> /\ e[1] = "attached" => d # <<>> /\ d[1] = "attached"
             /\ (\A i \in DOMAIN d : d[i] \notin {"ready", "attached"})
                  => \A i \in DOMAIN e : e[i] \notin {"ready", "attached"}
<1>1. PICK e, f : e = d \o <<m>> /\ f = <<m>>
  OBVIOUS
<1>2. f \in Seq(Messages) /\ Len(f) = 1 /\ f[1] = m
  BY <1>1
<1>3. /\ d \o f \in Seq(Messages) /\ Len(d \o f) = Len(d) + Len(f)
      /\ \A i \in 1 .. Len(d) + Len(f) :
           (d \o f)[i] = IF i <= Len(d) THEN d[i] ELSE f[i - Len(d)]
  BY <1>2, ConcatProperties
<1>4. /\ e \in Seq(Messages)
      /\ Len(d) \in Nat /\ DOMAIN d = 1 .. Len(d) /\ DOMAIN e = 1 .. (Len(d) + 1)
      /\ \A i \in DOMAIN e : e[i] = IF i <= Len(d) THEN d[i] ELSE f[i - Len(d)]
  BY <1>1, <1>2, <1>3
<1>5. \A i \in DOMAIN e : e[i] = m \/ (i \in DOMAIN d /\ e[i] = d[i])
  BY <1>2, <1>4
<1>6. 1 \in DOMAIN e /\ (2 \in DOMAIN d => e[1] = d[1]) /\ (1 \in DOMAIN d => d # <<>>)
  BY <1>4
<1>7. Announces(d) => Announces(e)
  BY <1>5, <1>6 DEF Announces
<1> QED BY <1>1, <1>4, <1>5, <1>6, <1>7

LEMMA ClosingServed ==
  ASSUME NEW v, NEW s, NEW u, NEW d \in Seq(Messages), NEW p, NEW h, NEW late,
         NEW m \in Messages, m \notin {"ready", "attached"}, NEW q, NEW g,
         Served(v, s, u, d, p, h, late),
         q.proc = "running" => q = p, g \notin {"none", "preparing"}
  PROVE  d \o <<m>> \in Seq(Messages) /\ Served(v, s, u, d \o <<m>>, q, g, late)
<1>1. PICK e : e = d \o <<m>>
  OBVIOUS
<1>2. /\ e \in Seq(Messages)
      /\ Announces(d) => Announces(e)
      /\ e # <<>> /\ e[1] = "attached" => d # <<>> /\ d[1] = "attached"
      /\ (\A i \in DOMAIN d : d[i] \notin {"ready", "attached"})
           => \A i \in DOMAIN e : e[i] \notin {"ready", "attached"}
  BY <1>1, LastWord
<1> QED BY <1>1, <1>2 DEF Served

\* The handler or the process goes on without a word.
LEMMA SilentServed ==
  ASSUME NEW v, NEW s, NEW u, NEW d, NEW p, NEW h, NEW late, NEW q, NEW g,
         Served(v, s, u, d, p, h, late),
         q.proc = "running" => q = p, g # "none", g = "preparing" => h = "preparing"
  PROVE  Served(v, s, u, d, q, g, late)
  BY DEF Served

LEMMA SpawnServed ==
  ASSUME NEW v, NEW s, NEW u, NEW d, NEW p, NEW late, NEW q,
         Served(v, s, u, d, p, "preparing", late), d = <<>>,
         q.size = s.size
  PROVE  Served(v, s, u, <<"ready", "attached">>, q, "serving", late)
<1>1. PICK e : e = <<"ready", "attached">>
  OBVIOUS
<1>2. DOMAIN e = 1 .. 2 /\ e[1] = "ready" /\ e[2] = "attached"
  BY <1>1
<1>3. Announces(e)
  BY <1>2 DEF Announces
<1>4. v.status = "connecting" /\ v.sent = None
  BY DEF Served
<1> QED BY <1>1, <1>2, <1>3, <1>4 DEF Served

\* A message of the tab reaches the process, or nobody.
LEMMA MessageServed ==
  ASSUME NEW v, NEW s, NEW u \in Seq(Size), u # <<>>, NEW d, NEW p, NEW h, NEW late, NEW q,
         Served(v, s, u, d, p, h, late),
         \/ p.proc = "running" /\ q.proc = "running" /\ q.size = Head(u)
         \/ p.proc # "running" /\ q = p
  PROVE  Served(v, s, Tail(u), d, q, h, late)
<1>1. v.status = "attached"
  BY DEF Served
<1>2. q.proc = "running" => End(Tail(u), q) = End(u, p)
  BY EndTaken
<1> QED BY <1>1, <1>2 DEF Served

\* The timer rings.
LEMMA SyncServed ==
  ASSUME NEW v, NEW s, NEW u \in Seq(Size), NEW d, NEW p, NEW h, NEW late \in BOOLEAN,
         NEW w, NEW later,
         Served(v, s, u, d, p, h, late), v.size \in Size,
         w.status = v.status, w.known = v.known, w.size = v.size, w.timer = FALSE
  PROVE  /\ v.status # "attached" /\ w.sent = v.sent /\ later = late
              => Served(w, s, u, d, p, h, later)
         /\ v.status = "attached" /\ w.sent = v.sent /\ v.sent = v.size /\ v.size # None
              => Served(w, s, u, d, p, h, later)
         /\ v.status = "attached" /\ w.sent = v.size
              => Served(w, s, Append(u, v.size), d, p, h, later)
<1>1. ASSUME v.status # "attached", w.sent = v.sent, later = late
      PROVE  Served(w, s, u, d, p, h, later)
  BY <1>1 DEF Served
<1>2. ASSUME v.status = "attached", w.sent = v.sent, v.sent = v.size, v.size # None
      PROVE  Served(w, s, u, d, p, h, later)
  BY <1>2 DEF Served
<1>3. ASSUME v.status = "attached", w.sent = v.size
      PROVE  Served(w, s, Append(u, v.size), d, p, h, later)
  <2>1. PICK e : e = Append(u, v.size)
    OBVIOUS
  <2>2. End(e, p) = v.size
    BY <2>1, EndAppend
  <2> QED BY <1>3, <2>1, <2>2 DEF Served
<1> QED BY <1>1, <1>2, <1>3

\* The size that was sent last is forgotten.
LEMMA ForgetServed ==
  ASSUME NEW v, NEW s, NEW u, NEW d, NEW p, NEW h, NEW late, NEW w,
         Served(v, s, u, d, p, h, late),
         w.status = v.status, w.known = v.known, w.size = v.size, w.timer = v.timer,
         w.sent = None
  PROVE  Served(w, s, u, d, p, h, late)
  BY DEF Served

-----------------------------------------------------------------------------
(* A step of one handler, and a step of one tab.                            *)

LEMMA SettlingFacts ==
  ASSUME Settling, NEW k \in Conn
  PROVE  /\ IsSock(sock[k]) /\ up[k] \in Seq(Size) /\ down[k] \in Seq(Messages)
         /\ Unserved(server[k], up[k], down[k], pty[k])
         /\ \A t \in Tab : view[t].conn = k => IsOpen(k) /\ sock[k].tab = t /\ ServedBy(t, k)
         /\ IsOpen(k) => sock[k].tab \in Tab /\ view[sock[k].tab].conn = k
  BY DEF Settling, Wires, Owned

\* A step of the handler of j, which leaves the others as they are.
LEMMA HandlerStep ==
  ASSUME Settling, NEW j \in Conn, UNCHANGED <<view, unsynced, sock>>,
         up' \in [Conn -> Seq(Size)], down' \in [Conn -> Seq(Messages)],
         \A k \in Conn \ {j} :
           /\ up'[k] = up[k] /\ down'[k] = down[k] /\ server'[k] = server[k]
           /\ pty'[k].proc = "running" => pty'[k] = pty[k]
           /\ pty[k].proc = "none" => pty'[k].proc = "none",
         Unserved(server'[j], up'[j], down'[j], pty'[j]),
         \A t \in Tab : view[t].conn = j => ServedBy(t, j)'
  PROVE  Settling'
<1>1. Wires'
  BY DEF Settling, Wires
<1>2. ASSUME NEW t \in Tab, NEW k \in Conn, view[t].conn = k, k # j
      PROVE  ServedBy(t, k)'
  <2>1. Served(view[t], sock[k], up[k], down[k], pty[k], server[k], unsynced[t])
    BY <1>2, SettlingFacts DEF ServedBy
  <2>2. PICK v, s, u, d, p, h, late, q :
          /\ v = view[t] /\ s = sock[k] /\ u = up[k] /\ d = down[k] /\ p = pty[k]
          /\ h = server[k] /\ late = unsynced[t] /\ q = pty'[k]
    OBVIOUS
  <2>3. Served(v, s, u, d, p, h, late)
    BY <2>1, <2>2
  <2>4. h # "none" /\ (q.proc = "running" => q = p)
    BY <1>2, <2>2, <2>3 DEF Served
  <2>5. Served(v, s, u, d, q, h, late)
    BY <2>3, <2>4, SilentServed
  <2> QED BY <1>2, <2>2, <2>5 DEF ServedBy
<1>3. ASSUME NEW k \in Conn
      PROVE  Unserved(server[k], up[k], down[k], pty[k])'
  <2>1. CASE k = j
    BY <2>1 DEF Unserved
  <2>2. CASE k # j
    BY <2>2, SettlingFacts DEF Unserved
  <2> QED BY <2>1, <2>2
<1>4. ASSUME NEW t \in Tab, NEW k \in Conn, view[t].conn = k
      PROVE  ServedBy(t, k)'
  BY <1>2, <1>4
<1>5. Owned'
  BY <1>3, <1>4 DEF Settling, Owned, IsOpen
<1> QED BY <1>1, <1>5 DEF Settling

\* A step of the tab t, after which it is w: its former socket and its new one
\* are accounted for, the others stay.
LEMMA TabStep ==
  ASSUME Settling, NEW t \in Tab, NEW w, Wires', view'[t] = w,
         \A x \in Tab \ {t} : view'[x] = view[x] /\ unsynced'[x] = unsynced[x],
         \A k \in Conn : k # view[t].conn /\ k # w.conn =>
           /\ up'[k] = up[k] /\ server'[k] = server[k] /\ pty'[k] = pty[k]
           /\ IsOpen(k) => sock'[k] = sock[k] /\ down'[k] = down[k]
           /\ ~IsOpen(k) => ~IsOpen(k)',
         \A k \in Conn : k = view[t].conn /\ k # w.conn => ~IsOpen(k)',
         w.conn \in Conn =>
           /\ IsOpen(w.conn)' /\ sock'[w.conn].tab = t
           /\ Served(w, sock'[w.conn], up'[w.conn], down'[w.conn], pty'[w.conn],
                     server'[w.conn], unsynced'[t])
           /\ w.conn # view[t].conn => server[w.conn] = "none",
         \A k \in Conn : Unserved(server'[k], up'[k], down'[k], pty'[k])
  PROVE  Settling'
<1>1. ASSUME NEW k \in Conn, w.conn = k, NEW x \in Tab, view[x].conn = k
      PROVE  x = t
  <2>1. IsOpen(k) /\ sock[k].tab = x /\ server[k] # "none"
    <3>1. IsOpen(k) /\ sock[k].tab = x /\ ServedBy(x, k)
      BY <1>1, SettlingFacts
    <3> QED BY <3>1 DEF ServedBy, Served
  <2>2. view[t].conn = k
    BY <1>1, <2>1
  <2> QED BY <2>1, <2>2, SettlingFacts
<1>2. ASSUME NEW k \in Conn, NEW x \in Tab \ {t}, view'[x].conn = k
      PROVE  IsOpen(k)' /\ sock'[k].tab = x /\ ServedBy(x, k)'
  <2>1. view[x].conn = k /\ IsOpen(k) /\ sock[k].tab = x /\ ServedBy(x, k)
    BY <1>2, SettlingFacts
  <2>2. k # w.conn
    BY <1>1, <1>2, <2>1
  <2>3. k # view[t].conn
    BY <1>2, <2>1, SettlingFacts
  <2>4. /\ up'[k] = up[k] /\ server'[k] = server[k] /\ pty'[k] = pty[k]
        /\ sock'[k] = sock[k] /\ down'[k] = down[k]
    BY <2>1, <2>2, <2>3
  <2> QED BY <1>2, <2>1, <2>4 DEF ServedBy, IsOpen
<1>3. ASSUME NEW k \in Conn, NEW x \in Tab, view'[x].conn = k
      PROVE  IsOpen(k)' /\ sock'[k].tab = x /\ ServedBy(x, k)'
  <2>1. CASE x # t
    BY <1>2, <1>3, <2>1
  <2>2. CASE x = t
    BY <1>3, <2>2 DEF ServedBy, IsOpen
  <2> QED BY <2>1, <2>2
<1>4. ASSUME NEW k \in Conn, IsOpen(k)'
      PROVE  sock'[k].tab \in Tab /\ view'[sock'[k].tab].conn = k
  <2>1. CASE k = w.conn
    BY <1>4, <2>1
  <2>2. CASE k # w.conn
    <3>1. k # view[t].conn
      BY <1>4, <2>2 DEF IsOpen
    <3>2. IsOpen(k) /\ sock'[k] = sock[k]
      BY <1>4, <2>2, <3>1
    <3>3. sock[k].tab \in Tab /\ view[sock[k].tab].conn = k
      BY <3>2, SettlingFacts
    <3> QED BY <3>1, <3>2, <3>3
  <2> QED BY <2>1, <2>2
<1>5. Owned'
  BY <1>3, <1>4 DEF Owned, IsOpen
<1> QED BY <1>5 DEF Settling

-----------------------------------------------------------------------------
(* The handlers *)

\* Of a connection that is open the tab is told, otherwise nobody listens.
LEMMA SentDown ==
  ASSUME Settling, NEW k \in Conn, NEW messages \in Seq(Messages), Sent(k, messages)
  PROVE  /\ down' \in [Conn -> Seq(Messages)]
         /\ \A j \in Conn \ {k} : down'[j] = down[j]
         /\ IsOpen(k) => down'[k] = down[k] \o messages
  BY DEF Settling, Wires, Sent

LEMMA OneMessage ==
  ASSUME NEW m \in Messages
  PROVE  <<m>> \in Seq(Messages)
OBVIOUS

\* The handler ends and says so.
LEMMA EndSent ==
  ASSUME Settling, NEW k \in Conn, NEW m \in {"close", "close exited"}, Sent(k, <<m>>),
         server'[k] = "ending", UNCHANGED <<view, unsynced, sock, up>>,
         \A j \in Conn \ {k} :
           /\ server'[j] = server[j]
           /\ pty'[j].proc = "running" => pty'[j] = pty[j]
           /\ pty[j].proc = "none" => pty'[j].proc = "none",
         pty'[k].proc = "running" => pty'[k] = pty[k]
  PROVE  Settling'
<1>1. m \in Messages /\ m \notin {"ready", "attached"}
  BY DEF Messages
<1>2. <<m>> \in Seq(Messages)
  BY <1>1, OneMessage
<1>3. /\ down' \in [Conn -> Seq(Messages)]
      /\ \A j \in Conn \ {k} : down'[j] = down[j]
      /\ IsOpen(k) => down'[k] = down[k] \o <<m>>
  BY <1>2, SentDown
<1>4. ASSUME NEW t \in Tab, view[t].conn = k
      PROVE  ServedBy(t, k)'
  <2>1. PICK v, s, u, d, p, h, late, q :
          /\ v = view[t] /\ s = sock[k] /\ u = up[k] /\ d = down[k] /\ p = pty[k]
          /\ h = server[k] /\ late = unsynced[t] /\ q = pty'[k]
    OBVIOUS
  <2>2. Served(v, s, u, d, p, h, late) /\ IsOpen(k) /\ d \in Seq(Messages)
    BY <1>4, <2>1, SettlingFacts DEF ServedBy
  <2>3. Served(v, s, u, d \o <<m>>, q, "ending", late)
    BY <1>1, <2>1, <2>2, ClosingServed
  <2> QED BY <1>3, <2>1, <2>2, <2>3 DEF ServedBy
<1>5. Unserved(server'[k], up'[k], down'[k], pty'[k])
  BY DEF Unserved
<1>6. up' \in [Conn -> Seq(Size)]
  BY DEF Settling, Wires
<1> QED BY <1>3, <1>4, <1>5, <1>6, HandlerStep

\* The handler, or the process, goes on without a word.
LEMMA EndSilently ==
  ASSUME Settling, NEW k \in Conn, UNCHANGED <<view, unsynced, sock, down>>,
         up' \in [Conn -> Seq(Size)], up'[k] = up[k] \/ pty'[k].proc # "running",
         up'[k] = up[k] \/ up'[k] = <<>>,
         server'[k] # "none", server'[k] = "preparing" => server[k] = "preparing",
         \A j \in Conn \ {k} :
           /\ server'[j] = server[j] /\ up'[j] = up[j] /\ pty'[j] = pty[j],
         pty'[k].proc = "running" => pty'[k] = pty[k],
         server'[k] = "preparing" => up'[k] = up[k] /\ pty'[k] = pty[k]
  PROVE  Settling'
<1>1. down' \in [Conn -> Seq(Messages)]
  BY DEF Settling, Wires
<1>2. Unserved(server'[k], up'[k], down'[k], pty'[k])
  BY SettlingFacts DEF Unserved
<1>3. ASSUME NEW t \in Tab, view[t].conn = k
      PROVE  ServedBy(t, k)'
  <2>1. PICK v, s, u, d, p, h, late, q, g, w :
          /\ v = view[t] /\ s = sock[k] /\ u = up[k] /\ d = down[k] /\ p = pty[k]
          /\ h = server[k] /\ late = unsynced[t] /\ q = pty'[k] /\ g = server'[k]
          /\ w = up'[k]
    OBVIOUS
  <2>2. Served(v, s, u, d, p, h, late)
    BY <1>3, <2>1, SettlingFacts DEF ServedBy
  <2>3. Served(v, s, u, d, q, g, late)
    BY <2>1, <2>2, SilentServed
  <2>4. Served(v, s, w, d, q, g, late)
    <3>1. CASE w = u
      BY <2>3, <3>1
    <3>2. CASE w = <<>> /\ q.proc # "running"
      BY <2>3, <3>2 DEF Served
    <3> QED BY <2>1, <3>1, <3>2
  <2> QED BY <2>1, <2>4 DEF ServedBy
<1> QED BY <1>1, <1>2, <1>3, HandlerStep

LEMMA HandlersEnd ==
  ASSUME IInv, Settling, NEW k \in Conn,
         PrepareFails(k) \/ Exit(k) \/ InputEnds(k) \/ Interrupt(k)
  PROVE  Settling'
<1>1. /\ server' = [server EXCEPT ![k] = "ending"]
      /\ UNCHANGED <<view, unsynced, sock, up, pty>>
      /\ server[k] # "none"
  BY DEF PrepareFails, Exit, InputEnds, Interrupt, Handles
<1>2. server'[k] = "ending" /\ \A j \in Conn \ {k} : server'[j] = server[j]
  BY <1>1 DEF IInv, Shapes
<1>3. \/ Sent(k, <<"close">>)
      \/ Sent(k, <<"close exited">>)
      \/ down' = down
  BY DEF PrepareFails, Exit, InputEnds, Interrupt
<1>4. up' \in [Conn -> Seq(Size)]
  BY <1>1 DEF Settling, Wires
<1> QED BY <1>1, <1>2, <1>3, <1>4, EndSent, EndSilently

LEMMA ReplacedNone ==
  ASSUME IInv, NEW j \in Conn, pty[j].proc = "none"
  PROVE  Replaced[j].proc = "none"
<1>1. CASE active = NoConn
  BY <1>1 DEF Replaced
<1>2. CASE active # NoConn
  <2>1. Replaced = [pty EXCEPT ![active] = Close(pty[active], "replaced")]
    BY <1>2 DEF Replaced
  <2>2. Close(pty[j], "replaced") = pty[j]
    BY DEF Close
  <2> QED BY <2>1, <2>2 DEF IInv, Shapes
<1> QED BY <1>1, <1>2

LEMMA SpawnFailsSettling ==
  ASSUME IInv, Settling, NEW k \in Conn, SpawnFails(k)
  PROVE  Settling'
<1>1. /\ server' = [server EXCEPT ![k] = "ending"] /\ Sent(k, <<"close">>)
      /\ UNCHANGED <<view, unsynced, sock, up>> /\ pty' = Replaced
  BY DEF SpawnFails, Handles
<1>2. server'[k] = "ending" /\ \A j \in Conn \ {k} : server'[j] = server[j]
  BY <1>1 DEF IInv, Shapes
<1>3. \A j \in Conn : /\ pty'[j].proc # "running"
                      /\ pty[j].proc = "none" => pty'[j].proc = "none"
  BY <1>1, ReplacedStops, ReplacedNone
<1> QED BY <1>1, <1>2, <1>3, EndSent

LEMMA SpawnSettling ==
  ASSUME IInv, Settling, NEW k \in Conn, Spawn(k)
  PROVE  Settling'
<1>1. /\ server[k] = "preparing" /\ server' = [server EXCEPT ![k] = "serving"]
      /\ UNCHANGED <<view, unsynced, sock, up>>
      /\ Sent(k, <<"ready", "attached">>)
      /\ pty' = [Replaced EXCEPT ![k] = [proc |-> "running", size |-> sock[k].size,
                                         exited |-> "no"]]
  BY DEF Spawn, Handles
<1>2. <<"ready", "attached">> \in Seq(Messages)
  BY DEF Messages
<1>3. /\ down' \in [Conn -> Seq(Messages)]
      /\ \A j \in Conn \ {k} : down'[j] = down[j]
      /\ IsOpen(k) => down'[k] = down[k] \o <<"ready", "attached">>
  BY <1>1, <1>2, SentDown
<1>4. server'[k] = "serving" /\ \A j \in Conn \ {k} : server'[j] = server[j]
  BY <1>1 DEF IInv, Shapes
<1>5. /\ pty'[k].size = sock[k].size
      /\ \A j \in Conn \ {k} : /\ pty'[j].proc # "running"
                               /\ pty[j].proc = "none" => pty'[j].proc = "none"
  BY <1>1, ReplacedStops, ReplacedNone
<1>6. ASSUME NEW t \in Tab, view[t].conn = k
      PROVE  ServedBy(t, k)'
  <2>1. PICK v, s, u, d, p, late, q :
          /\ v = view[t] /\ s = sock[k] /\ u = up[k] /\ d = down[k] /\ p = pty[k]
          /\ late = unsynced[t] /\ q = pty'[k]
    OBVIOUS
  <2>2. Served(v, s, u, d, p, "preparing", late) /\ IsOpen(k) /\ d = <<>>
    BY <1>1, <1>6, <2>1, SettlingFacts DEF ServedBy, Unserved
  <2>3. Served(v, s, u, <<"ready", "attached">>, q, "serving", late)
    BY <1>5, <2>1, <2>2, SpawnServed
  <2>4. down'[k] = <<"ready", "attached">>
    BY <1>2, <1>3, <2>1, <2>2, ConcatEmptySeq
  <2> QED BY <1>1, <1>4, <2>1, <2>3, <2>4 DEF ServedBy
<1>7. Unserved(server'[k], up'[k], down'[k], pty'[k])
  BY <1>4 DEF Unserved
<1>8. up' \in [Conn -> Seq(Size)]
  BY <1>1 DEF Settling, Wires
<1> QED BY <1>1, <1>3, <1>4, <1>5, <1>6, <1>7, <1>8, HandlerStep

LEMMA MessageSettling ==
  ASSUME IInv, Settling, NEW k \in Conn, Message(k)
  PROVE  Settling'
<1>1. /\ up[k] # <<>> /\ up' = [up EXCEPT ![k] = Tail(@)]
      /\ UNCHANGED <<view, unsynced, sock, server>>
  BY DEF Message
<1>2. up[k] \in Seq(Size) /\ down \in [Conn -> Seq(Messages)]
  BY DEF Settling, Wires
<1>3. Tail(up[k]) \in Seq(Size)
  BY <1>1, <1>2, HeadTailProperties
<1>4. /\ up' \in [Conn -> Seq(Size)] /\ up'[k] = Tail(up[k])
      /\ \A j \in Conn \ {k} : up'[j] = up[j]
  BY <1>1, <1>3 DEF Settling, Wires
<1>5. /\ \A j \in Conn \ {k} : pty'[j] = pty[j]
      /\ \/ /\ pty[k].proc = "running" /\ pty'[k].proc = "running"
            /\ pty'[k].size = Head(up[k])
         \/ pty[k].proc # "running" /\ pty'[k] = pty[k]
  <2>1. CASE pty[k].proc = "running"
    <3>1. PICK q : q = [pty[k] EXCEPT !.size = Head(up[k])]
      OBVIOUS
    <3>2. pty' = [pty EXCEPT ![k] = q]
      BY <2>1, <3>1 DEF Message
    <3>3. q.proc = pty[k].proc /\ q.size = Head(up[k])
      BY <3>1 DEF IInv, Shapes, IsProcess
    <3> QED BY <2>1, <3>2, <3>3 DEF IInv, Shapes
  <2>2. CASE pty[k].proc # "running"
    BY <2>2 DEF Message
  <2> QED BY <2>1, <2>2
<1>6. \/ down' = down
      \/ Sent(k, <<"close">>)
  BY DEF Message
<1>7. "close" \in Messages /\ "close" \notin {"ready", "attached"}
  BY DEF Messages
<1>8. <<"close">> \in Seq(Messages)
  BY <1>7, OneMessage
<1>9. /\ down' \in [Conn -> Seq(Messages)]
      /\ \A j \in Conn \ {k} : down'[j] = down[j]
      /\ IsOpen(k) => down'[k] = down[k] \/ down'[k] = down[k] \o <<"close">>
  BY <1>2, <1>6, <1>8, SentDown
<1>10. server[k] \notin {"none", "preparing"}
  BY <1>1, SettlingFacts DEF Unserved
<1>11. ASSUME NEW t \in Tab, view[t].conn = k
       PROVE  ServedBy(t, k)'
  <2>1. PICK v, s, u, d, p, h, late, q, e :
          /\ v = view[t] /\ s = sock[k] /\ u = up[k] /\ d = down[k] /\ p = pty[k]
          /\ h = server[k] /\ late = unsynced[t] /\ q = pty'[k] /\ e = down'[k]
    OBVIOUS
  <2>2. Served(v, s, u, d, p, h, late) /\ IsOpen(k) /\ d \in Seq(Messages)
    BY <1>11, <2>1, SettlingFacts DEF ServedBy
  <2>3. Served(v, s, Tail(u), d, q, h, late)
    BY <1>1, <1>2, <1>5, <2>1, <2>2, MessageServed
  <2>4. Served(v, s, Tail(u), e, q, h, late)
    <3>1. CASE e = d
      BY <2>3, <3>1
    <3>2. CASE e = d \o <<"close">>
      BY <1>7, <1>10, <2>1, <2>2, <2>3, <3>2, ClosingServed
    <3> QED BY <1>9, <2>1, <2>2, <3>1, <3>2
  <2> QED BY <1>1, <1>4, <2>1, <2>4 DEF ServedBy
<1>12. Unserved(server'[k], up'[k], down'[k], pty'[k])
  BY <1>1, <1>10 DEF Unserved
<1> QED BY <1>1, <1>4, <1>5, <1>9, <1>11, <1>12, HandlerStep

LEMMA ReleaseSettling ==
  ASSUME IInv, Settling, NEW k \in Conn, Release(k)
  PROVE  Settling'
<1>1. PICK p : p = [NoProcess EXCEPT !.proc = Close(pty[k], "exited").proc]
  OBVIOUS
<1>2. /\ pty' = [pty EXCEPT ![k] = p] /\ server' = [server EXCEPT ![k] = "done"]
      /\ up' = [up EXCEPT ![k] = <<>>] /\ UNCHANGED <<view, unsynced, sock, down>>
  BY <1>1 DEF Release
<1>3. p.proc # "running"
  BY <1>1, CloseCloses DEF IInv, Shapes, NoProcess
<1>4. /\ server'[k] = "done" /\ pty'[k] = p /\ up'[k] = <<>>
      /\ \A j \in Conn \ {k} : server'[j] = server[j] /\ up'[j] = up[j] /\ pty'[j] = pty[j]
  BY <1>2 DEF IInv, Shapes, Settling, Wires
<1>5. up' \in [Conn -> Seq(Size)]
  BY <1>2 DEF Settling, Wires
<1> QED BY <1>2, <1>3, <1>4, <1>5, EndSilently

LEMMA ProcessEndsSettling ==
  ASSUME IInv, Settling, NEW k \in Conn, Overflow(k) \/ Exits(k)
  PROVE  Settling'
<1>1. PICK how : pty' = [pty EXCEPT ![k] = Close(pty[k], how)]
  BY DEF Overflow, Exits
<1>2. UNCHANGED <<view, unsynced, sock, up, down, server>> /\ pty[k].proc = "running"
  BY DEF Overflow, Exits
<1>3. Close(pty[k], how).proc # "running"
  BY CloseCloses DEF IInv, Shapes
<1>4. pty'[k].proc # "running" /\ \A j \in Conn \ {k} : pty'[j] = pty[j]
  BY <1>1, <1>3 DEF IInv, Shapes
<1>5. server[k] \notin {"none", "preparing"}
  BY <1>2, SettlingFacts DEF Unserved
<1>6. up' \in [Conn -> Seq(Size)]
  BY <1>2 DEF Settling, Wires
<1> QED BY <1>2, <1>4, <1>5, <1>6, EndSilently

-----------------------------------------------------------------------------
(* The tabs *)

LEMMA SettlingInit == Init => Settling
<1> SUFFICES ASSUME Init PROVE Settling
  OBVIOUS
<1>1. \A t \in Tab : /\ IsView(view[t]) /\ view[t].conn = NoConn
                     /\ view[t].known \in BOOLEAN /\ view[t].timer \in BOOLEAN
  BY SizeAssumption DEF Init, IsView
<1>2. \A k \in Conn : IsSock(sock[k]) /\ ~IsOpen(k)
  BY DEF Init, IsSock, IsOpen, NoSocket
<1>3. up \in [Conn -> Seq(Size)] /\ down \in [Conn -> Seq(Messages)]
  BY DEF Init
<1>4. Wires
  BY <1>1, <1>2, <1>3 DEF Wires, Init
<1>5. \A k \in Conn : Unserved(server[k], up[k], down[k], pty[k])
  BY DEF Init, Unserved, NoProcess
<1>6. Owned
  BY <1>1, <1>2, <1>5, NotAConn DEF Owned
<1> QED BY <1>4, <1>6 DEF Settling

\* What is known of the tab that takes a step.
LEMMA TabFacts ==
  ASSUME Settling, NEW t \in Tab
  PROVE  /\ view = [x \in Tab |-> view[x]] /\ IsView(view[t])
         /\ view[t].known \in BOOLEAN /\ view[t].timer \in BOOLEAN
         /\ view[t].conn \in Conn \cup {NoConn} /\ view[t].size \in Size
         /\ unsynced[t] \in BOOLEAN
         /\ \A k \in Conn : view[t].conn = k =>
              /\ IsOpen(k) /\ sock[k].tab = t
              /\ Served(view[t], sock[k], up[k], down[k], pty[k], server[k], unsynced[t])
  BY DEF Settling, Wires, Owned, IsView, ServedBy

\* The wires are in order after a step of one tab.
LEMMA WiresAfter ==
  ASSUME Settling, NEW t \in Tab, NEW w, IsView(w),
         w.known \in BOOLEAN, w.timer \in BOOLEAN,
         view' = [x \in Tab |-> view'[x]], view'[t] = w,
         \A x \in Tab \ {t} : view'[x] = view[x],
         unsynced' \in [Tab -> BOOLEAN],
         sock' = [k \in Conn |-> sock'[k]], \A k \in Conn : IsSock(sock'[k]),
         up' \in [Conn -> Seq(Size)], down' \in [Conn -> Seq(Messages)]
  PROVE  Wires'
<1>1. \A x \in Tab : /\ IsView(view'[x])
                     /\ view'[x].known \in BOOLEAN /\ view'[x].timer \in BOOLEAN
  BY DEF Settling, Wires
<1> QED BY <1>1 DEF Wires

\* The socket that a tab closes.
LEMMA ClosingSock ==
  ASSUME Settling, NEW t \in Tab, NEW c, c = Closing(t)
  PROVE  /\ c = [k \in Conn |-> c[k]] /\ \A k \in Conn : IsSock(c[k])
         /\ \A k \in Conn : k # view[t].conn => c[k] = sock[k]
         /\ \A k \in Conn : k = view[t].conn => c[k].end = "closing"
<1>1. CASE view[t].conn = NoConn
  BY <1>1, NotAConn DEF Closing, Settling, Wires
<1>2. CASE view[t].conn # NoConn
  <2>1. PICK j : j = view[t].conn
    OBVIOUS
  <2>2. j \in Conn /\ IsSock(sock[j]) /\ sock[j].tab = t
    BY <1>2, <2>1, TabFacts, SettlingFacts
  <2>3. PICK s : s = [sock[j] EXCEPT !.end = "closing"]
    OBVIOUS
  <2>4. s = [end |-> "closing", tab |-> sock[j].tab, size |-> sock[j].size]
    BY <2>2, <2>3 DEF IsSock
  <2>5. IsSock(s) /\ s.end = "closing"
    BY <2>2, <2>4 DEF IsSock
  <2>6. c = [sock EXCEPT ![j] = s]
    BY <1>2, <2>1, <2>3 DEF Closing
  <2> QED BY <2>1, <2>2, <2>5, <2>6 DEF Settling, Wires
<1> QED BY <1>1, <1>2

LEMMA UnheardDown ==
  ASSUME Settling, NEW t \in Tab, NEW d, d = Unheard(t)
  PROVE  /\ d \in [Conn -> Seq(Messages)]
         /\ \A k \in Conn : d[k] = down[k] \/ d[k] = <<>>
         /\ \A k \in Conn : k # view[t].conn => d[k] = down[k]
  BY DEF Unheard, Settling, Wires

LEMMA AttachSettling ==
  ASSUME IInv, Settling, NEW t \in Tab, NEW k \in Conn, Attach(t, k)
  PROVE  Settling'
<1>1. /\ server[k] = "none" /\ server' = [server EXCEPT ![k] = "preparing"]
      /\ UNCHANGED <<up, pty>> /\ unsynced' = [unsynced EXCEPT ![t] = FALSE]
      /\ down' = Unheard(t)
  BY DEF Attach
<1>2. PICK new : new = [end |-> "open", tab |-> t, size |-> view[t].size]
  OBVIOUS
<1>3. PICK c : c = Closing(t)
  OBVIOUS
<1>4. sock' = [c EXCEPT ![k] = new]
  BY <1>2, <1>3 DEF Attach
<1>5. PICK w : w = view'[t]
  OBVIOUS
<1>6. /\ view' = [x \in Tab |-> view'[x]]
      /\ \A x \in Tab \ {t} : view'[x] = view[x]
      /\ w = [conn |-> k, status |-> "connecting", known |-> FALSE,
              size |-> view[t].size, timer |-> view[t].timer \/ view[t].known,
              sent |-> None]
  <2>1. PICK f, g : f = view /\ g = view'
    OBVIOUS
  <2>2. g = [f EXCEPT ![t].conn = k, ![t].status = "connecting",
                      ![t].known = FALSE, ![t].sent = None,
                      ![t].timer = @ \/ f[t].known]
    BY <2>1 DEF Attach
  <2>3. f = [x \in Tab |-> f[x]] /\ IsView(f[t])
    BY <2>1, TabFacts
  <2>4. /\ g = [x \in Tab |-> g[x]]
        /\ \A x \in Tab \ {t} : g[x] = f[x]
        /\ g[t] = [conn |-> k, status |-> "connecting", known |-> FALSE,
                   size |-> f[t].size, timer |-> f[t].timer \/ f[t].known, sent |-> None]
    BY <2>2, <2>3 DEF IsView
  <2> QED BY <1>5, <2>1, <2>4
<1>7. /\ w.conn = k /\ w.status = "connecting" /\ w.known = FALSE
      /\ w.size = view[t].size /\ w.timer \in BOOLEAN /\ w.sent = None
  BY <1>6, TabFacts
<1>8. IsView(w)
  BY <1>6, <1>7, TabFacts DEF IsView
<1>9. k # view[t].conn
  BY <1>1, TabFacts DEF Served
<1>10. /\ c = [j \in Conn |-> c[j]] /\ \A j \in Conn : IsSock(c[j])
       /\ \A j \in Conn : j # view[t].conn => c[j] = sock[j]
       /\ \A j \in Conn : j = view[t].conn => c[j].end = "closing"
  BY <1>3, ClosingSock
<1>11. IsSock(new) /\ new.end = "open" /\ new.tab = t /\ new.size = view[t].size
  BY <1>2 DEF IsSock
<1>12. /\ sock' = [j \in Conn |-> sock'[j]] /\ sock'[k] = new
       /\ \A j \in Conn \ {k} : sock'[j] = c[j]
  BY <1>4, <1>10
<1>13. PICK d : d = down'
  OBVIOUS
<1>14. /\ d \in [Conn -> Seq(Messages)]
       /\ \A j \in Conn : d[j] = down[j] \/ d[j] = <<>>
       /\ \A j \in Conn : j # view[t].conn => d[j] = down[j]
  BY <1>1, <1>13, UnheardDown
<1>15. unsynced' \in [Tab -> BOOLEAN] /\ unsynced'[t] = FALSE
       /\ \A x \in Tab \ {t} : unsynced'[x] = unsynced[x]
  BY <1>1 DEF Settling, Wires
<1>16. server'[k] = "preparing" /\ \A j \in Conn \ {k} : server'[j] = server[j]
  BY <1>1 DEF IInv, Shapes
<1>17. Wires'
  <2>1. \A j \in Conn : IsSock(sock'[j])
    BY <1>10, <1>11, <1>12
  <2>2. up' \in [Conn -> Seq(Size)]
    BY <1>1 DEF Settling, Wires
  <2> QED BY <1>5, <1>6, <1>7, <1>8, <1>12, <1>13, <1>14, <1>15, <2>1, <2>2, WiresAfter
<1>18. up[k] = <<>> /\ down[k] = <<>> /\ pty[k].proc = "none"
  BY <1>1, SettlingFacts DEF Unserved
<1>19. Served(w, new, up[k], d[k], pty[k], "preparing", FALSE)
  <2>1. d[k] = <<>> /\ up[k] = <<>> /\ pty[k].proc # "running"
    BY <1>9, <1>14, <1>18
  <2>2. Announces(<<>>)
    BY DEF Announces
  <2> QED BY <1>7, <1>11, <2>1, <2>2 DEF Served
<1>20. \A j \in Conn : Unserved(server'[j], up'[j], down'[j], pty'[j])
  BY <1>1, <1>13, <1>14, <1>16, <1>18, SettlingFacts DEF Unserved
<1>21. \A j \in Conn : j # view[t].conn /\ j # w.conn =>
         /\ up'[j] = up[j] /\ server'[j] = server[j] /\ pty'[j] = pty[j]
         /\ IsOpen(j) => sock'[j] = sock[j] /\ down'[j] = down[j]
         /\ ~IsOpen(j) => ~IsOpen(j)'
  BY <1>1, <1>7, <1>10, <1>12, <1>13, <1>14, <1>16 DEF IsOpen
<1>22. \A j \in Conn : j = view[t].conn /\ j # w.conn => ~IsOpen(j)'
  BY <1>7, <1>10, <1>12 DEF IsOpen
<1>23. w.conn \in Conn =>
         /\ IsOpen(w.conn)' /\ sock'[w.conn].tab = t
         /\ Served(w, sock'[w.conn], up'[w.conn], down'[w.conn], pty'[w.conn],
                   server'[w.conn], unsynced'[t])
         /\ w.conn # view[t].conn => server[w.conn] = "none"
  <2>1. /\ sock'[w.conn] = new /\ up'[w.conn] = up[k] /\ down'[w.conn] = d[k]
        /\ pty'[w.conn] = pty[k] /\ server'[w.conn] = "preparing" /\ unsynced'[t] = FALSE
    BY <1>1, <1>7, <1>12, <1>13, <1>15, <1>16
  <2>2. Served(w, sock'[w.conn], up'[w.conn], down'[w.conn], pty'[w.conn],
               server'[w.conn], unsynced'[t])
    BY <1>19, <2>1
  <2> QED BY <1>1, <1>7, <1>11, <2>1, <2>2 DEF IsOpen
<1>24. \A x \in Tab \ {t} : view'[x] = view[x] /\ unsynced'[x] = unsynced[x]
  BY <1>6, <1>15
<1>25. view'[t] = w
  BY <1>5
<1> QED BY <1>17, <1>20, <1>21, <1>22, <1>23, <1>24, <1>25, TabStep

LEMMA LeaveSettling ==
  ASSUME IInv, Settling, NEW t \in Tab, Leave(t)
  PROVE  Settling'
<1>1. UNCHANGED <<up, pty, server, unsynced>> /\ sock' = Closing(t) /\ down' = Unheard(t)
  BY DEF Leave
<1>2. PICK w : w = view'[t]
  OBVIOUS
<1>3. /\ view' = [x \in Tab |-> view'[x]]
      /\ \A x \in Tab \ {t} : view'[x] = view[x]
      /\ w = [conn |-> NoConn, status |-> "detached", known |-> FALSE,
              size |-> view[t].size, timer |-> FALSE, sent |-> None]
  <2>1. PICK f, g : f = view /\ g = view'
    OBVIOUS
  <2>2. g = [f EXCEPT ![t].conn = NoConn, ![t].status = "detached",
                      ![t].known = FALSE, ![t].sent = None, ![t].timer = FALSE]
    BY <2>1 DEF Leave
  <2>3. f = [x \in Tab |-> f[x]] /\ IsView(f[t])
    BY <2>1, TabFacts
  <2>4. /\ g = [x \in Tab |-> g[x]]
        /\ \A x \in Tab \ {t} : g[x] = f[x]
        /\ g[t] = [conn |-> NoConn, status |-> "detached", known |-> FALSE,
                   size |-> f[t].size, timer |-> FALSE, sent |-> None]
    BY <2>2, <2>3 DEF IsView
  <2> QED BY <1>2, <2>1, <2>4
<1>4. w.conn = NoConn /\ w.known = FALSE /\ w.timer = FALSE /\ w.size = view[t].size
  BY <1>3
<1>5. IsView(w)
  BY <1>3, <1>4, TabFacts DEF IsView
<1>6. PICK c, d : c = sock' /\ d = down'
  OBVIOUS
<1>7. /\ c = [j \in Conn |-> c[j]] /\ \A j \in Conn : IsSock(c[j])
      /\ \A j \in Conn : j # view[t].conn => c[j] = sock[j]
      /\ \A j \in Conn : j = view[t].conn => c[j].end = "closing"
  BY <1>1, <1>6, ClosingSock
<1>8. /\ d \in [Conn -> Seq(Messages)]
      /\ \A j \in Conn : d[j] = down[j] \/ d[j] = <<>>
      /\ \A j \in Conn : j # view[t].conn => d[j] = down[j]
  BY <1>1, <1>6, UnheardDown
<1>9. Wires'
  <2>1. unsynced' \in [Tab -> BOOLEAN] /\ up' \in [Conn -> Seq(Size)]
    BY <1>1 DEF Settling, Wires
  <2> QED BY <1>2, <1>3, <1>4, <1>5, <1>6, <1>7, <1>8, <2>1, WiresAfter
<1>10. \A j \in Conn : Unserved(server'[j], up'[j], down'[j], pty'[j])
  BY <1>1, <1>6, <1>8, SettlingFacts DEF Unserved
<1>11. \A j \in Conn : j # view[t].conn /\ j # w.conn =>
         /\ up'[j] = up[j] /\ server'[j] = server[j] /\ pty'[j] = pty[j]
         /\ IsOpen(j) => sock'[j] = sock[j] /\ down'[j] = down[j]
         /\ ~IsOpen(j) => ~IsOpen(j)'
  BY <1>1, <1>6, <1>7, <1>8 DEF IsOpen
<1>12. \A j \in Conn : j = view[t].conn /\ j # w.conn => ~IsOpen(j)'
  BY <1>6, <1>7 DEF IsOpen
<1>13. w.conn \in Conn =>
         /\ IsOpen(w.conn)' /\ sock'[w.conn].tab = t
         /\ Served(w, sock'[w.conn], up'[w.conn], down'[w.conn], pty'[w.conn],
                   server'[w.conn], unsynced'[t])
         /\ w.conn # view[t].conn => server[w.conn] = "none"
  BY <1>4, NotAConn
<1>14. \A x \in Tab \ {t} : view'[x] = view[x] /\ unsynced'[x] = unsynced[x]
  BY <1>1, <1>3
<1>15. view'[t] = w
  BY <1>2
<1> QED BY <1>9, <1>10, <1>11, <1>12, <1>13, <1>14, <1>15, TabStep

\* Steps that leave the socket of the tab as it is.
LEMMA TabStays ==
  ASSUME Settling, NEW t \in Tab, NEW w, view'[t] = w,
         view' = [x \in Tab |-> view'[x]],
         \A x \in Tab \ {t} : view'[x] = view[x] /\ unsynced'[x] = unsynced[x],
         IsView(w), w.known \in BOOLEAN, w.timer \in BOOLEAN, w.conn = view[t].conn,
         unsynced' \in [Tab -> BOOLEAN], UNCHANGED <<pty, server>>,
         sock' = [k \in Conn |-> sock'[k]], \A k \in Conn : IsSock(sock'[k]),
         \A k \in Conn : sock'[k] = sock[k] \/ (~IsOpen(k) /\ ~IsOpen(k)'),
         up' \in [Conn -> Seq(Size)], down' \in [Conn -> Seq(Messages)],
         \A k \in Conn : k # w.conn =>
           up'[k] = up[k] /\ (down'[k] = down[k] \/ (~IsOpen(k) /\ down'[k] = <<>>)),
         \A k \in Conn : k = w.conn =>
           /\ server[k] # "preparing"
                \/ (up'[k] = up[k] /\ down'[k] = down[k])
           /\ Served(w, sock[k], up'[k], down'[k], pty[k], server[k], unsynced'[t])
  PROVE  Settling'
<1>1. Wires'
  BY WiresAfter
<1>2. ASSUME NEW k \in Conn, k = w.conn
      PROVE  IsOpen(k) /\ sock[k].tab = t /\ sock'[k] = sock[k] /\ server[k] # "none"
  <2>1. IsOpen(k) /\ sock[k].tab = t /\ ServedBy(t, k)
    BY <1>2, SettlingFacts
  <2>2. server[k] # "none"
    BY <2>1 DEF ServedBy, Served
  <2> QED BY <2>1, <2>2
<1>3. \A k \in Conn : Unserved(server'[k], up'[k], down'[k], pty'[k])
  <2> SUFFICES ASSUME NEW k \in Conn
               PROVE  Unserved(server'[k], up'[k], down'[k], pty'[k])
    OBVIOUS
  <2>1. CASE k # w.conn
    BY <2>1, SettlingFacts DEF Unserved
  <2>2. CASE k = w.conn
    BY <2>2, <1>2, SettlingFacts DEF Unserved
  <2> QED BY <2>1, <2>2
<1>4. \A k \in Conn : k # view[t].conn /\ k # w.conn =>
         /\ up'[k] = up[k] /\ server'[k] = server[k] /\ pty'[k] = pty[k]
         /\ IsOpen(k) => sock'[k] = sock[k] /\ down'[k] = down[k]
         /\ ~IsOpen(k) => ~IsOpen(k)'
  BY DEF IsOpen
<1>5. w.conn \in Conn =>
        /\ IsOpen(w.conn)' /\ sock'[w.conn].tab = t
        /\ Served(w, sock'[w.conn], up'[w.conn], down'[w.conn], pty'[w.conn],
                  server'[w.conn], unsynced'[t])
        /\ w.conn # view[t].conn => server[w.conn] = "none"
  BY <1>2 DEF IsOpen
<1> QED BY <1>1, <1>3, <1>4, <1>5, TabStep

LEMMA FitSettling ==
  ASSUME IInv, Settling, NEW t \in Tab, NEW s \in Size, Fit(t, s)
  PROVE  Settling'
<1>1. UNCHANGED <<sock, up, down, server, pty>>
  BY DEF Fit
<1>2. PICK w : w = view'[t]
  OBVIOUS
<1>3. /\ view' = [x \in Tab |-> view'[x]]
      /\ \A x \in Tab \ {t} : view'[x] = view[x]
      /\ w = [conn |-> view[t].conn, status |-> view[t].status, known |-> view[t].known,
              size |-> s, timer |-> view[t].timer \/ view[t].known, sent |-> view[t].sent]
  <2>1. PICK f, g : f = view /\ g = view'
    OBVIOUS
  <2>2. g = [f EXCEPT ![t].size = s, ![t].timer = @ \/ f[t].known]
    BY <2>1 DEF Fit
  <2>3. f = [x \in Tab |-> f[x]] /\ IsView(f[t])
    BY <2>1, TabFacts
  <2>4. /\ g = [x \in Tab |-> g[x]]
        /\ \A x \in Tab \ {t} : g[x] = f[x]
        /\ g[t] = [conn |-> f[t].conn, status |-> f[t].status, known |-> f[t].known,
                   size |-> s, timer |-> f[t].timer \/ f[t].known, sent |-> f[t].sent]
    BY <2>2, <2>3 DEF IsView
  <2> QED BY <1>2, <2>1, <2>4
<1>4. /\ w.conn = view[t].conn /\ w.status = view[t].status /\ w.known = view[t].known
      /\ w.sent = view[t].sent /\ w.size = s /\ w.timer \in BOOLEAN
      /\ w.known \in BOOLEAN /\ (view[t].known = TRUE => w.timer = TRUE)
  BY <1>3, TabFacts
<1>5. IsView(w)
  BY <1>3, <1>4, TabFacts DEF IsView
<1>6. /\ unsynced' \in [Tab -> BOOLEAN]
      /\ \A x \in Tab \ {t} : unsynced'[x] = unsynced[x]
      /\ \/ s = view[t].size /\ unsynced'[t] = unsynced[t]
         \/ unsynced'[t] = FALSE /\ view[t].status = "attached"
         \/ unsynced'[t] = TRUE /\ view[t].status # "attached"
  BY DEF Fit, Settling, Wires
<1>7. ASSUME NEW k \in Conn, k = w.conn
      PROVE  Served(w, sock[k], up[k], down[k], pty[k], server[k], unsynced'[t])
  <2>1. Served(view[t], sock[k], up[k], down[k], pty[k], server[k], unsynced[t])
    BY <1>4, <1>7, TabFacts
  <2>2. PICK v, c, u, d, p, h, late, later :
          /\ v = view[t] /\ c = sock[k] /\ u = up[k] /\ d = down[k] /\ p = pty[k]
          /\ h = server[k] /\ late = unsynced[t] /\ later = unsynced'[t]
    OBVIOUS
  <2>3. Served(v, c, u, d, p, h, late) /\ late \in BOOLEAN
    BY <2>1, <2>2, TabFacts
  <2>4. /\ w.status = v.status /\ w.known = v.known /\ w.sent = v.sent
        /\ v.known = TRUE => w.timer = TRUE
    BY <1>4, <2>2
  <2>5. \/ w.size = v.size /\ later = late
        \/ later = FALSE /\ v.status = "attached"
        \/ later = TRUE /\ v.status # "attached"
    BY <1>4, <1>6, <2>2
  <2>6. Served(w, c, u, d, p, h, later)
    BY <2>3, <2>4, <2>5 DEF Served
  <2> QED BY <2>2, <2>6
<1>8. /\ sock' = [k \in Conn |-> sock'[k]] /\ \A k \in Conn : IsSock(sock'[k])
      /\ up' \in [Conn -> Seq(Size)] /\ down' \in [Conn -> Seq(Messages)]
  BY <1>1 DEF Settling, Wires
<1>9. view'[t] = w
  BY <1>2
<1> QED BY <1>1, <1>3, <1>4, <1>5, <1>6, <1>7, <1>8, <1>9, TabStays

LEMMA SyncSettling ==
  ASSUME IInv, Settling, NEW t \in Tab, Sync(t)
  PROVE  Settling'
<1>1. UNCHANGED <<sock, down, server, pty>>
  BY DEF Sync
<1>2. PICK live, sends, sent :
        /\ live = (view[t].status = "attached" /\ view[t].conn # NoConn)
        /\ sends = (live /\ view[t].sent # view[t].size)
        /\ sent = IF sends THEN view[t].size ELSE view[t].sent
  OBVIOUS
<1>3. PICK w : w = view'[t]
  OBVIOUS
<1>4. /\ view' = [x \in Tab |-> view'[x]]
      /\ \A x \in Tab \ {t} : view'[x] = view[x]
      /\ w = [conn |-> view[t].conn, status |-> view[t].status, known |-> view[t].known,
              size |-> view[t].size, timer |-> FALSE, sent |-> sent]
  <2>1. PICK f, g : f = view /\ g = view'
    OBVIOUS
  <2>2. g = [f EXCEPT ![t].timer = FALSE,
                      ![t].sent = IF sends THEN f[t].size ELSE @]
    BY <1>2, <2>1 DEF Sync
  <2>3. f = [x \in Tab |-> f[x]] /\ IsView(f[t])
    BY <2>1, TabFacts
  <2>4. sent = IF sends THEN f[t].size ELSE f[t].sent
    BY <1>2, <2>1
  <2>5. /\ g = [x \in Tab |-> g[x]]
        /\ \A x \in Tab \ {t} : g[x] = f[x]
        /\ g[t] = [conn |-> f[t].conn, status |-> f[t].status, known |-> f[t].known,
                   size |-> f[t].size, timer |-> FALSE, sent |-> sent]
    BY <2>2, <2>3, <2>4 DEF IsView
  <2> QED BY <1>3, <2>1, <2>5
<1>5. /\ w.conn = view[t].conn /\ w.status = view[t].status /\ w.known = view[t].known
      /\ w.sent = sent /\ w.size = view[t].size /\ w.timer = FALSE
      /\ w.known \in BOOLEAN /\ view[t].size \in Size
  BY <1>4, TabFacts
<1>6. IsView(w)
  BY <1>4, <1>5, TabFacts DEF IsView
<1>7. /\ unsynced' \in [Tab -> BOOLEAN]
      /\ \A x \in Tab \ {t} : unsynced'[x] = unsynced[x]
      /\ live # TRUE => unsynced'[t] = unsynced[t]
  <2>1. unsynced' = [unsynced EXCEPT ![t] = @ /\ ~live]
    BY <1>2 DEF Sync
  <2>2. live \in BOOLEAN /\ unsynced \in [Tab -> BOOLEAN]
    BY <1>2 DEF Settling, Wires
  <2> QED BY <2>1, <2>2
<1>8. sends \in BOOLEAN /\ live \in BOOLEAN
  BY <1>2
<1>9. /\ sends = FALSE => up' = up
      /\ sends = TRUE => up' = [up EXCEPT ![w.conn] = Append(@, view[t].size)]
  BY <1>2, <1>5 DEF Sync
<1>10. sends = TRUE => w.conn \in Conn
  BY <1>2, <1>5, TabFacts
<1>11. \A k \in Conn : up[k] \in Seq(Size)
  BY SettlingFacts
<1>12. \A k \in Conn : Append(up[k], view[t].size) \in Seq(Size)
  BY <1>5, <1>11, EndAppend
<1>13. /\ up' \in [Conn -> Seq(Size)]
       /\ \A k \in Conn : k # w.conn => up'[k] = up[k]
       /\ sends = FALSE => \A k \in Conn : up'[k] = up[k]
       /\ sends = TRUE => up'[w.conn] = Append(up[w.conn], view[t].size)
  BY <1>8, <1>9, <1>10, <1>12 DEF Settling, Wires
<1>14. ASSUME NEW k \in Conn, k = w.conn
       PROVE  /\ Served(w, sock[k], up'[k], down[k], pty[k], server[k], unsynced'[t])
              /\ server[k] # "preparing" \/ up'[k] = up[k]
  <2>1. Served(view[t], sock[k], up[k], down[k], pty[k], server[k], unsynced[t])
    BY <1>5, <1>14, TabFacts
  <2>2. PICK v, c, u, d, p, h, late, later :
          /\ v = view[t] /\ c = sock[k] /\ u = up[k] /\ d = down[k] /\ p = pty[k]
          /\ h = server[k] /\ late = unsynced[t] /\ later = unsynced'[t]
    OBVIOUS
  <2>3. Served(v, c, u, d, p, h, late) /\ late \in BOOLEAN /\ u \in Seq(Size)
        /\ v.size \in Size /\ v.size # None
    BY <2>1, <2>2, <1>11, TabFacts, NoneAssumption
  <2>4. /\ v.status # "attached" /\ w.sent = v.sent /\ later = late
             => Served(w, c, u, d, p, h, later)
        /\ v.status = "attached" /\ w.sent = v.sent /\ v.sent = v.size /\ v.size # None
             => Served(w, c, u, d, p, h, later)
        /\ v.status = "attached" /\ w.sent = v.size
             => Served(w, c, Append(u, v.size), d, p, h, later)
    <3>1. /\ w.status = v.status /\ w.known = v.known /\ w.size = v.size
          /\ w.timer = FALSE
      BY <1>5, <2>2
    <3> QED BY <2>3, <3>1, SyncServed
  <2>5. live = TRUE <=> v.status = "attached"
    BY <1>2, <1>5, <1>14, <2>2, NotAConn
  <2>6. CASE sends = TRUE
    <3>1. live = TRUE /\ w.sent = v.size /\ up'[k] = Append(u, v.size)
      BY <1>2, <1>5, <1>13, <1>14, <2>2, <2>6
    <3>2. h # "preparing"
      BY <2>3, <2>5, <3>1 DEF Served
    <3> QED BY <2>2, <2>4, <2>5, <3>1, <3>2
  <2>7. CASE sends = FALSE
    <3>1. w.sent = v.sent /\ up'[k] = u
      BY <1>2, <1>5, <1>13, <2>2, <2>7
    <3>2. live = TRUE => v.sent = v.size
      BY <1>2, <2>2, <2>7
    <3>3. live # TRUE => later = late
      BY <1>7, <2>2
    <3> QED BY <2>2, <2>3, <2>4, <2>5, <3>1, <3>2, <3>3
  <2> QED BY <1>8, <2>6, <2>7
<1>15. /\ sock' = [k \in Conn |-> sock'[k]] /\ \A k \in Conn : IsSock(sock'[k])
       /\ down' \in [Conn -> Seq(Messages)]
  BY <1>1 DEF Settling, Wires
<1>16. view'[t] = w
  BY <1>3
<1> QED BY <1>1, <1>4, <1>5, <1>6, <1>7, <1>13, <1>14, <1>15, <1>16, TabStays

\* The end of a socket, its own or one it has closed itself, reaches the tab.
LEMMA EndReaches ==
  ASSUME Settling, NEW k \in Conn, NEW status, NEW t, t = sock[k].tab,
         sock[k].end \in {"open", "closing"},
         view' = OnClose(t, k, status),
         sock' = [sock EXCEPT ![k].end = "closed"],
         down' = [down EXCEPT ![k] = <<>>],
         UNCHANGED <<unsynced, up, server, pty>>
  PROVE  Settling'
<1>1. IsSock(sock[k]) /\ t \in Tab
  BY SettlingFacts DEF IsSock
<1>2. PICK c : c = [sock[k] EXCEPT !.end = "closed"]
  OBVIOUS
<1>3. c = [end |-> "closed", tab |-> sock[k].tab, size |-> sock[k].size]
  BY <1>1, <1>2 DEF IsSock
<1>4. IsSock(c) /\ c.end = "closed"
  BY <1>1, <1>3 DEF IsSock
<1>5. sock' = [sock EXCEPT ![k] = c]
  BY <1>2
<1>6. /\ sock' = [j \in Conn |-> sock'[j]] /\ \A j \in Conn : IsSock(sock'[j])
      /\ sock'[k] = c /\ \A j \in Conn \ {k} : sock'[j] = sock[j]
  BY <1>4, <1>5 DEF Settling, Wires
<1>7. /\ down' \in [Conn -> Seq(Messages)] /\ down'[k] = <<>>
      /\ \A j \in Conn \ {k} : down'[j] = down[j]
  BY DEF Settling, Wires
<1>8. unsynced' \in [Tab -> BOOLEAN] /\ up' \in [Conn -> Seq(Size)]
  BY DEF Settling, Wires
<1>9. PICK f, g, w : f = view /\ g = view' /\ w = view'[t]
  OBVIOUS
<1>10. f = [x \in Tab |-> f[x]] /\ IsView(f[t])
  BY <1>1, <1>9, TabFacts
<1>11. CASE view[t].conn = k
  <2>1. g = [f EXCEPT ![t].conn = NoConn, ![t].status = status, ![t].sent = None]
    BY <1>9, <1>11 DEF OnClose
  <2>2. /\ g = [x \in Tab |-> g[x]]
        /\ \A x \in Tab \ {t} : g[x] = f[x]
        /\ g[t] = [conn |-> NoConn, status |-> status, known |-> f[t].known,
                   size |-> f[t].size, timer |-> f[t].timer, sent |-> None]
    BY <1>1, <1>10, <2>1 DEF IsView
  <2>3. /\ w = [conn |-> NoConn, status |-> status, known |-> view[t].known,
                size |-> view[t].size, timer |-> view[t].timer, sent |-> None]
        /\ view' = [x \in Tab |-> view'[x]]
        /\ \A x \in Tab \ {t} : view'[x] = view[x]
    BY <1>9, <2>2
  <2>4. /\ w.conn = NoConn /\ w.known = view[t].known /\ w.timer = view[t].timer
        /\ w.size = view[t].size
    BY <2>3
  <2>5. IsView(w) /\ w.known \in BOOLEAN /\ w.timer \in BOOLEAN
    BY <1>1, <2>3, <2>4, TabFacts DEF IsView
  <2>6. view'[t] = w
    BY <1>9
  <2>7. Wires'
    BY <1>1, <1>6, <1>7, <1>8, <2>3, <2>5, <2>6, WiresAfter
  <2>8. \A j \in Conn : Unserved(server'[j], up'[j], down'[j], pty'[j])
    BY <1>7, SettlingFacts DEF Unserved
  <2>9. \A j \in Conn : j # view[t].conn /\ j # w.conn =>
          /\ up'[j] = up[j] /\ server'[j] = server[j] /\ pty'[j] = pty[j]
          /\ IsOpen(j) => sock'[j] = sock[j] /\ down'[j] = down[j]
          /\ ~IsOpen(j) => ~IsOpen(j)'
    BY <1>6, <1>7, <1>11 DEF IsOpen
  <2>10. \A j \in Conn : j = view[t].conn /\ j # w.conn => ~IsOpen(j)'
    BY <1>4, <1>6, <1>11 DEF IsOpen
  <2>11. w.conn \in Conn =>
           /\ IsOpen(w.conn)' /\ sock'[w.conn].tab = t
           /\ Served(w, sock'[w.conn], up'[w.conn], down'[w.conn], pty'[w.conn],
                     server'[w.conn], unsynced'[t])
           /\ w.conn # view[t].conn => server[w.conn] = "none"
    BY <2>4, NotAConn
  <2>12. \A x \in Tab \ {t} : view'[x] = view[x] /\ unsynced'[x] = unsynced[x]
    BY <2>3
  <2> QED BY <1>1, <2>6, <2>7, <2>8, <2>9, <2>10, <2>11, <2>12, TabStep
<1>12. CASE view[t].conn # k
  <2>0. ~IsOpen(k)
    BY <1>12, SettlingFacts
  <2>1. g = [f EXCEPT ![t].sent = None]
    BY <1>9, <1>12 DEF OnClose
  <2>2. /\ g = [x \in Tab |-> g[x]]
        /\ \A x \in Tab \ {t} : g[x] = f[x]
        /\ g[t] = [conn |-> f[t].conn, status |-> f[t].status, known |-> f[t].known,
                   size |-> f[t].size, timer |-> f[t].timer, sent |-> None]
    BY <1>1, <1>10, <2>1 DEF IsView
  <2>3. /\ w = [conn |-> view[t].conn, status |-> view[t].status, known |-> view[t].known,
                size |-> view[t].size, timer |-> view[t].timer, sent |-> None]
        /\ view' = [x \in Tab |-> view'[x]]
        /\ \A x \in Tab \ {t} : view'[x] = view[x]
    BY <1>9, <2>2
  <2>4. /\ w.conn = view[t].conn /\ w.known = view[t].known /\ w.timer = view[t].timer
        /\ w.size = view[t].size /\ w.status = view[t].status /\ w.sent = None
    BY <2>3
  <2>5. IsView(w) /\ w.known \in BOOLEAN /\ w.timer \in BOOLEAN
    BY <1>1, <2>3, <2>4, TabFacts DEF IsView
  <2>6. view'[t] = w
    BY <1>9
  <2>7. ASSUME NEW j \in Conn, j = w.conn
        PROVE  Served(w, sock[j], up[j], down[j], pty[j], server[j], unsynced[t])
    <3>1. PICK v, s, u, d, p, h, late :
            /\ v = view[t] /\ s = sock[j] /\ u = up[j] /\ d = down[j] /\ p = pty[j]
            /\ h = server[j] /\ late = unsynced[t]
      OBVIOUS
    <3>2. Served(v, s, u, d, p, h, late)
      BY <1>1, <2>4, <2>7, <3>1, TabFacts
    <3>3. Served(w, s, u, d, p, h, late)
      BY <2>4, <3>1, <3>2, ForgetServed
    <3> QED BY <3>1, <3>3
  <2>8. \A j \in Conn : sock'[j] = sock[j] \/ (~IsOpen(j) /\ ~IsOpen(j)')
    BY <1>4, <1>6, <2>0 DEF IsOpen
  <2>9. \A j \in Conn : /\ j # w.conn => up'[j] = up[j]
                             /\ (down'[j] = down[j] \/ (~IsOpen(j) /\ down'[j] = <<>>))
    BY <1>7, <2>0
  <2>10. \A j \in Conn : j = w.conn =>
           /\ server[j] # "preparing" \/ (up'[j] = up[j] /\ down'[j] = down[j])
           /\ Served(w, sock[j], up'[j], down'[j], pty[j], server[j], unsynced'[t])
    BY <1>7, <1>12, <2>4, <2>7
  <2>11. \A x \in Tab \ {t} : view'[x] = view[x] /\ unsynced'[x] = unsynced[x]
    BY <2>3
  <2> QED BY <1>1, <1>6, <1>7, <1>8, <2>3, <2>4, <2>5, <2>6, <2>8, <2>9, <2>10, <2>11, TabStays
<1> QED BY <1>11, <1>12

LEMMA EndsSettling ==
  ASSUME IInv, Settling, NEW k \in Conn, Closed(k) \/ Break(k)
  PROVE  Settling'
<1>1. PICK t : t = sock[k].tab
  OBVIOUS
<1>2. /\ view' = OnClose(t, k, "disconnected")
      /\ sock' = [sock EXCEPT ![k].end = "closed"]
      /\ down' = [down EXCEPT ![k] = <<>>]
      /\ UNCHANGED <<unsynced, up, server, pty>>
      /\ sock[k].end \in {"open", "closing"}
  BY <1>1 DEF Closed, Break, Ends, IsOpen
<1> QED BY <1>1, <1>2, EndReaches

\* The tab hears that its session is ready, or attached.
LEMMA AnnouncedSettling ==
  ASSUME IInv, Settling, NEW k \in Conn, Receive(k), Head(down[k]) \in {"ready", "attached"}
  PROVE  Settling'
<1>1. /\ IsOpen(k) /\ down[k] # <<>> /\ UNCHANGED <<unsynced, sock, up, server, pty>>
      /\ down' = [down EXCEPT ![k] = Tail(down[k])]
      /\ view' = OnMessage(sock[k].tab, k, Head(down[k]))
  BY DEF Receive
<1>2. PICK t, m : t = sock[k].tab /\ m = Head(down[k])
  OBVIOUS
<1>3. t \in Tab /\ view[t].conn = k /\ down[k] \in Seq(Messages)
  BY <1>1, <1>2, SettlingFacts
<1>4. PICK v, c, u, d, p, h, late, w :
        /\ v = view[t] /\ c = sock[k] /\ u = up[k] /\ d = down[k] /\ p = pty[k]
        /\ h = server[k] /\ late = unsynced[t] /\ w = view'[t]
  OBVIOUS
<1>5. Served(v, c, u, d, p, h, late)
  BY <1>3, <1>4, TabFacts
<1>6. d \in Seq(Messages) /\ d # <<>> /\ Head(d) = m /\ m \in {"ready", "attached"}
  BY <1>1, <1>2, <1>3, <1>4
<1>7. h # "preparing"
  BY <1>4, <1>6, SettlingFacts DEF Unserved
<1>8. Tail(d) \in Seq(Messages)
  BY <1>6, HeadTailProperties
<1>9. /\ down' \in [Conn -> Seq(Messages)] /\ down'[k] = Tail(d)
      /\ \A j \in Conn : j # k => down'[j] = down[j]
  BY <1>1, <1>4, <1>8 DEF Settling, Wires
<1>10. /\ view' = [x \in Tab |-> view'[x]]
       /\ \A x \in Tab \ {t} : view'[x] = view[x]
       /\ m = "ready" => w = [conn |-> v.conn, status |-> "connecting", known |-> TRUE,
                              size |-> v.size, timer |-> v.timer, sent |-> c.size]
       /\ m = "attached" => w = [conn |-> v.conn, status |-> "attached", known |-> v.known,
                                 size |-> v.size, timer |-> v.timer, sent |-> v.sent]
  <2>1. PICK f, g : f = view /\ g = view'
    OBVIOUS
  <2>2. f = [x \in Tab |-> f[x]] /\ IsView(f[t]) /\ v = f[t]
    BY <1>3, <1>4, <2>1, TabFacts
  <2>3. CASE m = "ready"
    <3>1. g = [f EXCEPT ![t].status = "connecting", ![t].known = TRUE, ![t].sent = c.size]
      BY <1>1, <1>2, <1>4, <2>1, <2>3 DEF OnMessage, ReadySize
    <3>2. /\ g = [x \in Tab |-> g[x]]
          /\ \A x \in Tab \ {t} : g[x] = f[x]
          /\ g[t] = [conn |-> f[t].conn, status |-> "connecting", known |-> TRUE,
                     size |-> f[t].size, timer |-> f[t].timer, sent |-> c.size]
      BY <1>3, <2>2, <3>1 DEF IsView
    <3> QED BY <1>4, <2>1, <2>2, <2>3, <3>2
  <2>4. CASE m = "attached"
    <3>1. g = [f EXCEPT ![t].status = "attached"]
      BY <1>1, <1>2, <2>1, <2>4 DEF OnMessage
    <3>2. /\ g = [x \in Tab |-> g[x]]
          /\ \A x \in Tab \ {t} : g[x] = f[x]
          /\ g[t] = [conn |-> f[t].conn, status |-> "attached", known |-> f[t].known,
                     size |-> f[t].size, timer |-> f[t].timer, sent |-> f[t].sent]
      BY <1>3, <2>2, <3>1 DEF IsView
    <3> QED BY <1>4, <2>1, <2>2, <2>4, <3>2
  <2> QED BY <1>6, <2>3, <2>4
<1>11. /\ w.conn = v.conn /\ w.size = v.size /\ w.timer = v.timer
       /\ m = "ready" => w.status = "connecting" /\ w.known = TRUE /\ w.sent = c.size
       /\ m = "attached" => w.status = "attached" /\ w.known = v.known /\ w.sent = v.sent
  BY <1>6, <1>10
<1>12. v.known \in BOOLEAN /\ v.timer \in BOOLEAN /\ IsView(v)
  BY <1>3, <1>4, TabFacts
<1>13. w.known \in BOOLEAN /\ w.timer \in BOOLEAN /\ w.conn = k
  BY <1>3, <1>4, <1>6, <1>11, <1>12
<1>14. IsView(w)
  <2>1. CASE m = "ready"
    BY <1>10, <1>11, <1>12, <2>1 DEF IsView
  <2>2. CASE m = "attached"
    BY <1>10, <1>11, <1>12, <2>2 DEF IsView
  <2> QED BY <1>6, <2>1, <2>2
<1>15. Served(w, c, u, Tail(d), p, h, late)
  <2>1. CASE m = "ready"
    <3>1. Head(d) = "ready"
      BY <1>6, <2>1
    <3>2. w.status = "connecting" /\ w.known = TRUE /\ w.sent = c.size /\ w.size = v.size
      BY <1>11, <2>1
    <3> QED BY <1>5, <1>6, <1>7, <3>1, <3>2, ReadyServed
  <2>2. CASE m = "attached"
    <3>1. Head(d) = "attached"
      BY <1>6, <2>2
    <3>2. /\ w.status = "attached" /\ w.known = v.known /\ w.sent = v.sent
          /\ w.size = v.size /\ w.timer = v.timer
      BY <1>11, <2>2
    <3> QED BY <1>5, <1>6, <1>7, <3>1, <3>2, AttachedServed
  <2> QED BY <1>6, <2>1, <2>2
<1>16. /\ sock' = [j \in Conn |-> sock'[j]] /\ \A j \in Conn : IsSock(sock'[j])
       /\ up' \in [Conn -> Seq(Size)] /\ unsynced' \in [Tab -> BOOLEAN]
  BY <1>1 DEF Settling, Wires
<1>17. \A j \in Conn : j # w.conn =>
         up'[j] = up[j] /\ (down'[j] = down[j] \/ (~IsOpen(j) /\ down'[j] = <<>>))
  BY <1>1, <1>9, <1>13
<1>18. \A j \in Conn : j = w.conn =>
         /\ server[j] # "preparing" \/ (up'[j] = up[j] /\ down'[j] = down[j])
         /\ Served(w, sock[j], up'[j], down'[j], pty[j], server[j], unsynced'[t])
  BY <1>1, <1>4, <1>7, <1>9, <1>13, <1>15
<1>19. \A x \in Tab \ {t} : view'[x] = view[x] /\ unsynced'[x] = unsynced[x]
  BY <1>1, <1>10
<1>20. view'[t] = w /\ w.conn = view[t].conn /\ UNCHANGED <<pty, server>>
       /\ \A j \in Conn : sock'[j] = sock[j] \/ (~IsOpen(j) /\ ~IsOpen(j)')
  BY <1>1, <1>4, <1>11
<1> QED BY <1>3, <1>9, <1>10, <1>13, <1>14, <1>16, <1>17, <1>18, <1>19, <1>20, TabStays

LEMMA ReceiveSettling ==
  ASSUME IInv, Settling, NEW k \in Conn, Receive(k)
  PROVE  Settling'
<1>1. /\ IsOpen(k) /\ down[k] # <<>> /\ UNCHANGED <<unsynced, up, server, pty>>
  BY DEF Receive
<1>2. PICK t : t = sock[k].tab
  OBVIOUS
<1>3. down[k] \in Seq(Messages)
  BY SettlingFacts
<1>4. Head(down[k]) \in Messages
  BY <1>1, <1>3, HeadTailProperties
<1>5. CASE Head(down[k]) \in {"ready", "attached"}
  BY <1>5, AnnouncedSettling
<1>6. CASE Head(down[k]) \in {"close", "close exited"}
  <2>1. /\ sock' = [sock EXCEPT ![k].end = "closed"]
        /\ down' = [down EXCEPT ![k] = <<>>]
    BY <1>6 DEF Receive
  <2>2. PICK status : view' = OnClose(t, k, status)
    BY <1>2, <1>6 DEF Receive, OnMessage
  <2>3. sock[k].end \in {"open", "closing"}
    BY <1>1 DEF IsOpen
  <2> QED BY <1>1, <1>2, <2>1, <2>2, <2>3, EndReaches
<1> QED BY <1>4, <1>5, <1>6 DEF Messages

LEMMA SettlingNext ==
  ASSUME IInv, Settling, [Next]_vars
  PROVE  Settling'
<1>1. CASE UNCHANGED vars
  <2>1. UNCHANGED <<view, unsynced, sock, up, down, server, pty>>
    BY <1>1 DEF vars
  <2>2. Wires'
    BY <2>1 DEF Settling, Wires
  <2>3. Owned'
    BY <2>1 DEF Settling, Owned, IsOpen, ServedBy
  <2> QED BY <2>2, <2>3 DEF Settling
<1>2. ASSUME NEW t \in Tab,
             Leave(t) \/ Sync(t) \/ (\E k \in Conn : Attach(t, k)) \/ \E s \in Size : Fit(t, s)
      PROVE  Settling'
  BY <1>2, LeaveSettling, SyncSettling, AttachSettling, FitSettling
<1>3. ASSUME NEW k \in Conn,
             Receive(k) \/ Closed(k) \/ Break(k) \/ Overflow(k) \/ Exits(k)
      PROVE  Settling'
  BY <1>3, ReceiveSettling, EndsSettling, ProcessEndsSettling
<1>4. ASSUME NEW k \in Conn,
             \/ PrepareFails(k) \/ Spawn(k) \/ SpawnFails(k)
             \/ Message(k) \/ Exit(k) \/ InputEnds(k) \/ Interrupt(k) \/ Release(k)
      PROVE  Settling'
  BY <1>4, HandlersEnd, SpawnSettling, SpawnFailsSettling, MessageSettling, ReleaseSettling
<1> QED BY <1>1, <1>2, <1>3, <1>4 DEF Next

LEMMA SettlingSettles == ASSUME Settling PROVE SizeSettles
<1> SUFFICES ASSUME NEW t \in Tab, NEW k, k = view[t].conn,
                    view[t].status = "attached", k # NoConn, ~view[t].timer,
                    up[k] = <<>>, pty[k].proc = "running", ~unsynced[t]
             PROVE  pty[k].size = view[t].size
  BY DEF SizeSettles
<1>1. k \in Conn /\ view[t].timer = FALSE /\ unsynced[t] = FALSE
  BY TabFacts
<1>2. Served(view[t], sock[k], up[k], down[k], pty[k], server[k], unsynced[t])
  BY <1>1, TabFacts
<1>3. End(up[k], pty[k]) = view[t].size
  BY <1>1, <1>2 DEF Served
<1> QED BY <1>3 DEF End

\* The process of an attachment has the rows and columns of the window when no
\* resize is on its way and no timer set: through reconnections, sockets that
\* replace one another and broken ones, for any number of them (the resize
\* queue of the terminal view and TerminalBridge.resize).
THEOREM SizeSettlesHolds == Spec => []SizeSettles
<1>1. Init => IInv /\ Settling
  BY InitIInv, SettlingInit
<1>2. IInv /\ Settling /\ [Next]_vars => (IInv /\ Settling)'
  BY NextIInv, SettlingNext
<1>3. Settling => SizeSettles
  BY SettlingSettles
<1> QED BY <1>1, <1>2, <1>3, PTL DEF Spec
=============================================================================
