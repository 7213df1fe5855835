------------------------------- MODULE GuestExec -------------------------------
(***************************************************************************)
(* Running a command in a sandbox, from end to end: the host's exec client *)
(* (mm-sandbox exec/client.rs), the Unix socket it dials, the vsock        *)
(* device's worker that bridges the socket to the guest                    *)
(* (devices/vsock.rs, with the credit of vsock_proto.rs), the guest        *)
(* kernel's vsock sockets (external), the exec agent and its child, and    *)
(* PID 1's reaper (mm-init exec_agent.rs, pid1.rs).                        *)
(*                                                                         *)
(* A stream is numbered when it is dialled and its number stands for the   *)
(* host port alloc_port gives it; ports and pids are not reused.  An Exec  *)
(* frame is ExecLen units long and may arrive in parts; an Output or Exit  *)
(* frame is one unit.  Credit counts units, modulo Modulus (2^32 in the    *)
(* code).  The two pipes of a child are one.  Publishing a buffer and      *)
(* notifying the other side is one step (module Virtio takes it apart).    *)
(***************************************************************************)
EXTENDS Integers, Sequences

CONSTANTS
    Clients,            \* callers of run_exec_over_uds_ready
    MaxStreams,         \* bound: connections dialled
    Scenes,             \* the situations to look at: who dials, how many streams and
                        \* chunks (bounds), RX_BACKLOG_MAX, whether PID 1's reaper wakes
                        \* up, and whether no timer runs out, nothing fails and the
                        \* machine is not stopped
    ExecLen,            \* units of an Exec frame
    MaxOut,             \* bound: chunks a command writes
    Modulus,            \* the credit counters are modulo this
    GuestBuf, HostBuf,  \* buf_alloc of the guest and HOST_BUF_ALLOC
    RxBufs,             \* buffers the guest posts in the rx queue
    UdsCap, PipeCap     \* units the Unix socket and the child's pipe hold

Streams == 1..MaxStreams
Boot    == 0                                            \* BOOT_PORT
Least(a, b) == IF a <= b THEN a ELSE b

ASSUME GuestExecAssumption ==
    /\ MaxStreams \in Nat \ {0} /\ ExecLen \in Nat \ {0} /\ MaxOut \in Nat
    /\ Modulus \in Nat /\ GuestBuf \in 1..(Modulus - 1) /\ HostBuf \in 1..(Modulus - 1)
    /\ RxBufs \in Nat \ {0} /\ UdsCap \in Nat \ {0} /\ PipeCap \in Nat \ {0}
    /\ Scenes \subseteq [clients : SUBSET Clients, streams : Streams, out : 0..MaxOut,
                         backlog : Nat \ {0}, reaping : BOOLEAN, calm : BOOLEAN]

VARIABLES
    scene,
    client,             \* of each client: where it is, and its stream
    told, got,          \* the outcome it returned; chunks it was given
    dialled,            \* streams so far
    hung,               \* the client has dropped its end
    up, down,           \* the Unix socket, to and from the worker
    conn,               \* of each stream: in the accept queue, a Pending, a Conn, or dropped
    backlog, rx, room,  \* rx_backlog; the rx queue: packets returned, buffers free
    irq,                \* an interrupt for the rx queue is due
    tx,                 \* packets in the tx queue
    ready,              \* VsockReady::flag
    guest,              \* how far the guest has come up
    sock,               \* the guest's sockets (external)
    job,                \* the agent's thread for each connection, its reader and its child
    owned, reaper,      \* owned_children; PID 1's reaper
    alive               \* the machine runs

host  == <<client, told, got, dialled, hung>>
uds   == <<up, down>>
rings == <<backlog, rx, room, irq>>
agent == <<job, owned, reaper>>
vars  == <<scene, host, uds, conn, rings, tx, ready, guest, sock, agent, alive>>

Ops   == {"REQUEST", "RESPONSE", "RST", "SHUTDOWN", "RW", "CREDIT_UPDATE", "CREDIT_REQUEST"}
Codes == {"zero", "-1", "124", "127"}
Frames == [t : {"ok", "out", "exit"}, n : 0..MaxOut, code : Codes \union {"none"}]
Ok      == [t |-> "ok", n |-> 0, code |-> "none"]
Out(n)  == [t |-> "out", n |-> n, code |-> "none"]
Exit(c) == [t |-> "exit", n |-> 0, code |-> c]

(* Packets, to and from the guest: of a header, what the two sides look at; *)
(* buf_alloc never changes.                                                 *)
RxPackets == [op : Ops, port : 0..MaxStreams, n : 0..ExecLen, fwd : 0..(Modulus - 1)]
TxPackets == [op : Ops, port : 0..MaxStreams, body : Seq(Frames), fwd : 0..(Modulus - 1)]

NoConn  == [st |-> "none", alloc |-> 0, fwd |-> 0, tx |-> 0, rxfwd |-> 0, last |-> 0, buf |-> <<>>]
NoSock  == [st |-> "none", rbuf |-> 0, fwd |-> 0, tx |-> 0, pfwd |-> 0, asked |-> FALSE]
NoJob   == [pc |-> "none", in |-> 0, code |-> "none", pipe |-> 0, wrote |-> 0, reader |-> "none",
            child |-> "none", fate |-> "none", early |-> FALSE]

TypeOK ==
    /\ scene \in Scenes
    /\ client \in [Clients -> [pc : {"idle", "dial", "handshake", "command", "done"}, k : 0..MaxStreams]]
    /\ told \in [Clients -> Codes \union {"none", "error", "notready"}]
    /\ got \in [Clients -> Seq(1..MaxOut)] /\ dialled \in 0..MaxStreams
    /\ hung \in [Streams -> BOOLEAN]
    /\ up \in [Streams -> Seq({"connect", "exec"})] /\ down \in [Streams -> Seq(Frames)]
    /\ conn \in [Streams ->
          [st : {"none", "listen", "pending", "connecting", "established", "dropped"},
           alloc : {0, GuestBuf}, fwd : 0..(Modulus - 1), tx : 0..(Modulus - 1),
           rxfwd : 0..(Modulus - 1), last : 0..(Modulus - 1), buf : Seq(Frames)]]
    /\ rx \in Seq(RxPackets) /\ backlog \in Seq(RxPackets) /\ tx \in Seq(TxPackets)
    /\ Len(backlog) <= scene.backlog /\ Len(rx) + room = RxBufs /\ room \in 0..RxBufs
    /\ irq \in BOOLEAN /\ ready \in BOOLEAN /\ alive \in BOOLEAN
    /\ guest \in {"boot", "pinged", "up", "listening"}
    /\ sock \in [Streams -> [st : {"none", "queued", "open", "reset", "closed"}, rbuf : 0..GuestBuf,
                             fwd : 0..(Modulus - 1), tx : 0..(Modulus - 1), pfwd : 0..(Modulus - 1),
                             asked : BOOLEAN]]
    /\ job \in [Streams ->
          [pc : {"none", "read", "exec", "spawned", "wait", "join", "exit", "closed"},
           in : 0..ExecLen, code : Codes \union {"none"}, pipe : 0..PipeCap, wrote : 0..MaxOut,
           reader : {"none", "run", "ended"},
           child : {"none", "running", "zombie", "taken", "reaped"},
           fate : {"none", "exit", "signal", "killed"}, early : BOOLEAN]]
    /\ owned \subseteq Streams
    /\ reaper \in [pc : {"idle", "peeked", "consume"}, k : 0..MaxStreams]

Init ==
    /\ scene \in Scenes
    /\ client = [c \in Clients |-> [pc |-> IF c \in scene.clients THEN "dial" ELSE "idle", k |-> 0]]
    /\ told = [c \in Clients |-> "none"] /\ got = [c \in Clients |-> <<>>] /\ dialled = 0
    /\ hung = [k \in Streams |-> FALSE]
    /\ up = [k \in Streams |-> <<>>] /\ down = [k \in Streams |-> <<>>]
    /\ conn = [k \in Streams |-> NoConn]
    /\ backlog = <<>> /\ rx = <<>> /\ room = RxBufs /\ irq = FALSE /\ tx = <<>>
    /\ ready = FALSE /\ guest = "boot" /\ sock = [k \in Streams |-> NoSock]
    /\ job = [k \in Streams |-> NoJob] /\ owned = {}
    /\ reaper = [pc |-> "idle", k |-> 0] /\ alive = TRUE

-------------------------------------------------------------------------------
(* The exec client. *)

(* UnixStream::connect and the CONNECT line of vsock_connect.  Callers dial *)
(* a machine that is reported running, which is after it signalled ready.   *)
Dial(c) ==
    LET k == dialled + 1
    IN  /\ client[c].pc = "dial" /\ ready /\ alive /\ k <= scene.streams
        /\ dialled' = k /\ client' = [client EXCEPT ![c] = [pc |-> "handshake", k |-> k]]
        /\ up' = [up EXCEPT ![k] = <<"connect">>]
        /\ conn' = [conn EXCEPT ![k].st = "listen"]
        /\ UNCHANGED <<scene, told, got, hung, down, rings, tx, ready, guest, sock, agent, alive>>

(* The caller returns with outcome o and drops its stream. *)
Return(c, o) ==
    /\ client' = [client EXCEPT ![c].pc = "done"]
    /\ told' = [told EXCEPT ![c] = o]
    /\ hung' = [k \in Streams |-> hung[k] \/ k = client[c].k]

(* connect_exec_ready after a failed attempt: retry, or TimedOut once the   *)
(* deadline has passed; also a dial of a machine that is gone.              *)
Retry(c) ==
    \/ /\ dialled < scene.streams /\ client' = [client EXCEPT ![c].pc = "dial"]
       /\ hung' = [hung EXCEPT ![client[c].k] = TRUE] /\ UNCHANGED told
    \/ Return(c, "notready")

(* The worker has dropped its end and everything it wrote has been read. *)
Eof(k) == down[k] = <<>> /\ conn[k].st = "dropped"

AttemptFails(c) ==
    /\ client[c].pc = "handshake"
    /\ Eof(client[c].k) \/ ~scene.calm          \* EOF before OK, or HANDSHAKE_ATTEMPT_TIMEOUT
    /\ Retry(c)
    /\ UNCHANGED <<scene, got, dialled, uds, conn, rings, tx, ready, guest, sock, agent, alive>>

DialFails(c) ==
    /\ client[c].pc = "dial" /\ (~alive \/ dialled = scene.streams) /\ Return(c, "notready")
    /\ UNCHANGED <<scene, got, dialled, uds, conn, rings, tx, ready, guest, sock, agent, alive>>

(* vsock_connect reads OK; run_exec_streaming writes the Exec frame, which  *)
(* fails if the worker has dropped its end.                                 *)
Handshaken(c) ==
    LET k == client[c].k
    IN  /\ client[c].pc = "handshake" /\ down[k] # <<>>
        /\ down' = [down EXCEPT ![k] = Tail(@)]
        /\ IF conn[k].st = "dropped"
           THEN Return(c, "error") /\ UNCHANGED up
           ELSE /\ client' = [client EXCEPT ![c].pc = "command"]
                /\ up' = [up EXCEPT ![k] = @ \o [i \in 1..ExecLen |-> "exec"]]
                /\ UNCHANGED <<told, hung>>
        /\ UNCHANGED <<scene, got, dialled, conn, rings, tx, ready, guest, sock, agent, alive>>

(* One frame of run_exec_streaming's loop. *)
Event(c) ==
    LET k == client[c].k
        f == Head(down[k])
    IN  /\ client[c].pc = "command" /\ down[k] # <<>>
        /\ down' = [down EXCEPT ![k] = Tail(@)]
        /\ IF f.t = "exit"
           THEN Return(c, f.code) /\ UNCHANGED got
           ELSE got' = [got EXCEPT ![c] = Append(@, f.n)] /\ UNCHANGED <<client, told, hung>>
        /\ UNCHANGED <<scene, dialled, up, conn, rings, tx, ready, guest, sock, agent, alive>>

(* read returned 0: Exit(-1).  A socket dropped with bytes unread is reset, *)
(* and the read fails.                                                      *)
StreamEnds(c) ==
    LET k == client[c].k
    IN  /\ client[c].pc = "command" /\ Eof(k)
        /\ Return(c, IF up[k] = <<>> THEN "-1" ELSE "error")
        /\ UNCHANGED <<scene, got, dialled, uds, conn, rings, tx, ready, guest, sock, agent, alive>>

(* command_read_timeout passes without data, or on_event fails. *)
GiveUp(c) ==
    /\ client[c].pc = "command" /\ ~scene.calm /\ Return(c, "error")
    /\ UNCHANGED <<scene, got, dialled, uds, conn, rings, tx, ready, guest, sock, agent, alive>>

-------------------------------------------------------------------------------
(* Credit (CreditTracker). *)

Wrap(n) == n % Modulus

(* The counters compared without wrapping. *)
availableUnwrapped(c) ==
    LET flight == IF c.tx >= c.fwd THEN c.tx - c.fwd ELSE 0
    IN  IF flight >= c.alloc THEN 0 ELSE c.alloc - flight

available(c) ==
    LET flight == Wrap(c.tx - c.fwd)
    IN  IF flight >= c.alloc THEN 0 ELSE c.alloc - flight

(* The consumed count is not taken over. *)
update_peer_alloc(c, p) == [c EXCEPT !.alloc = GuestBuf]

update_peer(c, p) == [c EXCEPT !.alloc = GuestBuf, !.fwd = p.fwd]

-------------------------------------------------------------------------------
(* The worker.  Its methods map the part of the state they work on to the   *)
(* part they leave; dirty is the result that asks run() for an interrupt.   *)

Now == [conn |-> conn, up |-> up, down |-> down, backlog |-> backlog, rx |-> rx, room |-> room,
        dirty |-> FALSE]

(* One event of an iteration of run() leaves d. *)
Become(d) ==
    /\ conn' = d.conn /\ up' = d.up /\ down' = d.down
    /\ backlog' = d.backlog /\ rx' = d.rx /\ room' = d.room
    /\ irq' = (irq \/ d.dirty)

Live(d, k) == k \in Streams /\ d.conn[k].st \in {"connecting", "established"}

(* Without a bound. *)
enqueue_backlog_unbounded(d, p) == [d EXCEPT !.backlog = Append(@, p)]

enqueue_backlog(d, p) ==
    [d EXCEPT !.backlog = Append(IF Len(@) >= scene.backlog THEN Tail(@) ELSE @, p)]

write_rx(d, p) == [d EXCEPT !.rx = Append(@, p), !.room = @ - 1, !.dirty = TRUE]

push_to_guest(d, p) ==
    IF d.backlog # <<>> \/ d.room = 0 THEN enqueue_backlog(d, p) ELSE write_rx(d, p)

header(d, k, op, n) == [op |-> op, port |-> k, n |-> n, fwd |-> d.conn[k].rxfwd]
Rst(k) == [op |-> "RST", port |-> k, n |-> 0, fwd |-> 0]

send_control(d, k, op) ==
    LET e == IF op = "CREDIT_UPDATE" THEN [d EXCEPT !.conn[k].last = d.conn[k].rxfwd] ELSE d
    IN  IF Live(d, k) THEN push_to_guest(e, header(e, k, op, 0)) ELSE d

send_rw(d, k, n) ==
    push_to_guest([d EXCEPT !.conn[k].tx = Wrap(@ + n), !.up[k] = SubSeq(@, n + 1, Len(@))],
                  header(d, k, "RW", n))

(* close_conn without a reset, and with one. *)
Drop(d, k) == IF Live(d, k) THEN [d EXCEPT !.conn[k] = [NoConn EXCEPT !.st = "dropped"]] ELSE d
close_conn(d, k) == IF Live(d, k) THEN push_to_guest(Drop(d, k), Rst(k)) ELSE d

(* What the socket takes of buf is written and counted; a client that is    *)
(* gone makes the write fail, and that reset asks for no interrupt.         *)
flush_to_uds(d, k) ==
    LET c == d.conn[k]
        n == Least(Len(c.buf), UdsCap - Len(d.down[k]))
        e == [d EXCEPT !.down[k] = @ \o SubSeq(c.buf, 1, n),
                       !.conn[k].buf = SubSeq(@, n + 1, Len(@)),
                       !.conn[k].rxfwd = Wrap(@ + n)]
    IN  CASE c.buf = <<>> -> d
          [] c.buf # <<>> /\ hung[k] -> [Drop(send_control(d, k, "RST"), k) EXCEPT !.dirty = d.dirty]
          [] c.buf # <<>> /\ ~hung[k] ->
               IF n > 0 /\ e.conn[k].rxfwd # c.last THEN send_control(e, k, "CREDIT_UPDATE") ELSE e

(* The whole of what the socket holds goes, as far as the credit; at its    *)
(* end, and with credit left, SHUTDOWN and the connection is removed.       *)
pump_to_guest(d, k) ==
    LET n == Least(available(d.conn[k]), Len(d.up[k]))
        e == IF n > 0 THEN send_rw(d, k, n) ELSE d
    IN  IF d.conn[k].st # "established" THEN d
        ELSE IF hung[k] /\ e.up[k] = <<>> /\ available(e.conn[k]) > 0
             THEN [Drop(send_control(e, k, "SHUTDOWN"), k) EXCEPT !.dirty = TRUE]
             ELSE e

handle_guest_packet(d, p) ==
    LET k == p.port
        c == d.conn[k]
    IN  CASE p.op = "REQUEST" -> push_to_guest(d, Rst(k))
          [] p.op = "RESPONSE" ->
               IF Live(d, k) /\ c.st = "connecting"
               THEN [d EXCEPT !.conn[k] = [update_peer(c, p) EXCEPT !.st = "established"],
                              !.down[k] = IF hung[k] THEN @ ELSE Append(@, Ok)]
               ELSE d
          [] p.op = "RW" ->
               IF Live(d, k)
               THEN flush_to_uds([d EXCEPT !.conn[k] = [update_peer(c, p) EXCEPT !.buf = @ \o p.body]], k)
               ELSE d
          [] p.op = "CREDIT_UPDATE" ->
               IF Live(d, k) THEN [d EXCEPT !.conn[k] = update_peer(c, p)] ELSE d
          [] p.op = "CREDIT_REQUEST" -> send_control(d, k, "CREDIT_UPDATE")
          [] p.op = "SHUTDOWN" -> [Drop(push_to_guest(d, Rst(k)), k) EXCEPT !.dirty = TRUE]
          [] p.op = "RST" -> Drop(d, k)

(* The guest connecting to BOOT_PORT is the readiness edge. *)
mark_ready(p) == ready \/ (p.op = "REQUEST" /\ p.port = Boot)

(* Source::TxEvt, process_tx, one packet: the guest sees its answer no      *)
(* later than it would at the end of the drain.                             *)
process_tx ==
    /\ alive /\ tx # <<>> /\ tx' = Tail(tx)
    /\ Become(handle_guest_packet(Now, Head(tx)))
    /\ ready' = mark_ready(Head(tx))
    /\ UNCHANGED <<scene, host, guest, sock, agent, alive>>

(* Source::RxEvt: the packets there is room for. *)
drain_rx_backlog ==
    LET n == Least(room, Len(backlog))
    IN  /\ alive /\ n > 0
        /\ rx' = rx \o SubSeq(backlog, 1, n) /\ room' = room - n
        /\ backlog' = SubSeq(backlog, n + 1, Len(backlog)) /\ irq' = TRUE
        /\ UNCHANGED <<scene, host, uds, conn, tx, ready, guest, sock, agent, alive>>

(* Source::Listener: everyone in the accept queue. *)
accept_uds ==
    /\ alive /\ \E k \in Streams : conn[k].st = "listen"
    /\ conn' = [k \in Streams |-> IF conn[k].st = "listen" THEN [conn[k] EXCEPT !.st = "pending"]
                                  ELSE conn[k]]
    /\ UNCHANGED <<scene, host, uds, rings, tx, ready, guest, sock, agent, alive>>

parse_connect(buf) == buf # <<>> /\ Head(buf) = "connect"

(* Source::Pending: the CONNECT line makes it a connection; the line is in  *)
(* the socket from the start, so an end before it cannot be met.            *)
poll_pending(k) ==
    /\ alive /\ conn[k].st = "pending" /\ parse_connect(up[k])
    /\ Become(send_control([Now EXCEPT !.up[k] = Tail(@), !.conn[k].st = "connecting"], k, "REQUEST"))
    /\ UNCHANGED <<scene, host, tx, ready, guest, sock, agent, alive>>

(* Source::Conn: POLLOUT, then POLLIN, then POLLHUP, of those asked for;    *)
(* a connection that asks for nothing is not polled at all.                 *)
ConnEvent(k) ==
    LET in  == conn[k].st = "established" /\ available(conn[k]) > 0
               /\ (up[k] # <<>> \/ hung[k])
        out == conn[k].buf # <<>> /\ (hung[k] \/ Len(down[k]) < UdsCap)
        d1  == IF out THEN flush_to_uds(Now, k) ELSE Now
        d2  == IF in THEN pump_to_guest(d1, k) ELSE d1
        d3  == IF hung[k] THEN [close_conn(d2, k) EXCEPT !.dirty = TRUE] ELSE d2
    IN  /\ alive /\ (in \/ out)
        /\ Become(d3)
        /\ UNCHANGED <<scene, host, tx, ready, guest, sock, agent, alive>>

(* The machine is stopped or ends (a panic of PID 1's process resets it):   *)
(* the worker process exits and its sockets with it.                        *)
Stop ==
    /\ alive /\ ~scene.calm /\ alive' = FALSE
    /\ conn' = [k \in Streams |-> IF conn[k].st = "none" THEN conn[k]
                                  ELSE [NoConn EXCEPT !.st = "dropped"]]
    /\ UNCHANGED <<scene, host, uds, rings, tx, ready, guest, sock, agent>>

-------------------------------------------------------------------------------
(* The guest's kernel and boot. *)

(* signal_boot_ready, and the thread of run_sandbox that serves. *)
Ping ==
    /\ alive /\ guest = "boot" /\ guest' = "pinged"
    /\ tx' = Append(tx, [op |-> "REQUEST", port |-> Boot, body |-> <<>>, fwd |-> 0])
    /\ UNCHANGED <<scene, host, uds, conn, rings, ready, sock, agent, alive>>

Listen ==
    /\ alive /\ guest = "up" /\ guest' = "listening"
    /\ UNCHANGED <<scene, host, uds, conn, rings, tx, ready, sock, agent, alive>>

Packet(k, op, body) == [op |-> op, port |-> k, body |-> body, fwd |-> sock[k].fwd]
Known(k) == sock[k].st \in {"queued", "open"}

(* The kernel takes a packet from the rx queue and posts the buffer again.  *)
(* A request nobody listens for is reset; SHUTDOWN closes the directions    *)
(* its flags name, and the worker's header() names none.                    *)
GuestRx ==
    LET p == Head(rx)
        k == p.port
        reply(op) == Append(tx, [op |-> op, port |-> k, body |-> <<>>, fwd |-> 0])
    IN  /\ alive /\ irq /\ rx # <<>>
        /\ rx' = Tail(rx) /\ room' = room + 1 /\ irq' = (Tail(rx) # <<>>)
        /\ \/ /\ k = Boot
              /\ guest' = IF guest = "pinged" THEN "up" ELSE guest
              /\ UNCHANGED <<tx, sock>>
           \/ /\ k # Boot /\ p.op = "REQUEST"
              /\ IF guest = "listening"
                 THEN tx' = reply("RESPONSE") /\ sock' = [sock EXCEPT ![k].st = "queued"]
                 ELSE tx' = reply("RST") /\ UNCHANGED sock
              /\ UNCHANGED guest
           \/ /\ k # Boot /\ p.op = "RST"
              /\ sock' = [sock EXCEPT ![k].st = IF Known(k) THEN "reset" ELSE @]
              /\ UNCHANGED <<guest, tx>>
           \/ /\ k # Boot /\ p.op \in {"RW", "CREDIT_UPDATE", "SHUTDOWN"}
              /\ sock' = [sock EXCEPT ![k] =
                              IF Known(k) THEN [sock[k] EXCEPT !.rbuf = @ + p.n, !.pfwd = p.fwd] ELSE @]
              /\ UNCHANGED <<guest, tx>>
        /\ UNCHANGED <<scene, host, uds, conn, backlog, ready, agent, alive>>

(* write_all of one frame on a socket: it waits for credit. *)
Credit(k) == HostBuf - Wrap(sock[k].tx - sock[k].pfwd) > 0
SockWrite(k, f) ==
    /\ sock[k].st = "open" /\ Credit(k)
    /\ tx' = Append(tx, Packet(k, "RW", <<f>>))
    /\ sock' = [sock EXCEPT ![k].tx = Wrap(@ + 1)]

(* A kernel may ask for credit when a writer waits. *)
AskCredit(k) ==
    /\ alive /\ sock[k].st = "open" /\ ~Credit(k) /\ ~sock[k].asked
    /\ job[k].pipe > 0 \/ job[k].pc = "exit"
    /\ tx' = Append(tx, Packet(k, "CREDIT_REQUEST", <<>>))
    /\ sock' = [sock EXCEPT ![k].asked = TRUE]
    /\ UNCHANGED <<scene, host, uds, conn, rings, ready, guest, agent, alive>>

-------------------------------------------------------------------------------
(* The exec agent. *)

(* serve: accept, and a thread for the connection. *)
Accept(k) ==
    /\ alive /\ sock[k].st = "queued"
    /\ sock' = [sock EXCEPT ![k].st = "open"] /\ job' = [job EXCEPT ![k].pc = "read"]
    /\ UNCHANGED <<scene, host, uds, conn, rings, tx, ready, guest, owned, reaper, alive>>

(* handle_connection reads what there is; the kernel tells the host that    *)
(* it is consumed, and a complete frame is executed.                        *)
Read(k) ==
    LET s == sock[k]
        n == job[k].in + s.rbuf
    IN  /\ alive /\ job[k].pc = "read" /\ s.rbuf > 0
        /\ sock' = [sock EXCEPT ![k].rbuf = 0, ![k].fwd = Wrap(@ + s.rbuf)]
        /\ tx' = IF s.st = "open"
                 THEN Append(tx, [Packet(k, "CREDIT_UPDATE", <<>>) EXCEPT !.fwd = Wrap(s.fwd + s.rbuf)])
                 ELSE tx
        /\ job' = [job EXCEPT ![k].in = n, ![k].pc = IF n = ExecLen THEN "exec" ELSE "read"]
        /\ UNCHANGED <<scene, host, uds, conn, rings, ready, guest, owned, reaper, alive>>

(* read returned 0 or failed: the thread ends and closes the socket. *)
ReadEnds(k) ==
    /\ alive /\ job[k].pc = "read" /\ sock[k].rbuf = 0 /\ sock[k].st = "reset"
    /\ job' = [job EXCEPT ![k].pc = "closed"] /\ sock' = [sock EXCEPT ![k].st = "closed"]
    /\ UNCHANGED <<scene, host, uds, conn, rings, tx, ready, guest, owned, reaper, alive>>

(* handle_exec: an empty command, or one that cannot be spawned, is 127. *)
Spawn(k) ==
    /\ alive /\ job[k].pc = "exec"
    /\ \/ job' = [job EXCEPT ![k].pc = "spawned", ![k].child = "running"]
       \/ job' = [job EXCEPT ![k].pc = "exit", ![k].code = "127"]
    /\ UNCHANGED <<scene, host, uds, conn, rings, tx, ready, guest, sock, owned, reaper, alive>>

(* track_child, the clone of the stream, and the two readers. *)
Claim(k) ==
    /\ alive /\ job[k].pc = "spawned"
    /\ owned' = owned \union {k}
    /\ job' = [job EXCEPT ![k].pc = "wait", ![k].reader = "run"]
    /\ UNCHANGED <<scene, host, uds, conn, rings, tx, ready, guest, sock, reaper, alive>>

Kill(j) == [j EXCEPT !.child = IF @ = "reaped" THEN @ ELSE "taken",
                     !.fate = IF j.child = "running" THEN "killed" ELSE @]

(* The stream cannot be cloned: the child is killed and no Exit is sent. *)
CloneFails(k) ==
    /\ alive /\ job[k].pc = "spawned" /\ ~scene.calm
    /\ job' = [job EXCEPT ![k] = [Kill(@) EXCEPT !.pc = "read", !.in = 0, !.pipe = 0]]
    /\ UNCHANGED <<scene, host, uds, conn, rings, tx, ready, guest, sock, owned, reaper, alive>>

(* try_wait finds the child exited, or already reaped by somebody else. *)
TryWait(k) ==
    LET j == job[k]
    IN  /\ alive /\ j.pc = "wait" /\ j.child \in {"zombie", "reaped"}
        /\ job' = [job EXCEPT ![k].pc = "join", ![k].child = IF @ = "zombie" THEN "taken" ELSE @,
                     ![k].code = IF j.child = "zombie" /\ j.fate = "exit" THEN "zero" ELSE "-1"]
        /\ UNCHANGED <<scene, host, uds, conn, rings, tx, ready, guest, sock, owned, reaper, alive>>

(* The deadline: the child is killed, whatever it has done since try_wait. *)
Deadline(k) ==
    /\ alive /\ job[k].pc = "wait" /\ ~scene.calm
    /\ job' = [job EXCEPT ![k] = [Kill(@) EXCEPT !.pc = "join", !.code = "124"]]
    /\ UNCHANGED <<scene, host, uds, conn, rings, tx, ready, guest, sock, owned, reaper, alive>>

(* stream_reader: a chunk of the pipe becomes an Output frame; it ends at   *)
(* the end of the pipe, or when the socket fails.                           *)
Forward(k) ==
    LET j == job[k]
    IN  /\ alive /\ j.reader = "run"
        /\ \/ /\ j.pipe > 0 /\ SockWrite(k, Out(j.wrote - j.pipe + 1))
              /\ job' = [job EXCEPT ![k].pipe = @ - 1]
           \/ /\ j.pipe > 0 /\ sock[k].st = "reset"
              /\ job' = [job EXCEPT ![k].pipe = 0, ![k].reader = "ended"]
              /\ UNCHANGED <<tx, sock>>
           \/ /\ j.pipe = 0 /\ j.child # "running"
              /\ job' = [job EXCEPT ![k].reader = "ended"]
              /\ UNCHANGED <<tx, sock>>
        /\ UNCHANGED <<scene, host, uds, conn, rings, ready, guest, owned, reaper, alive>>

(* The Exit frame does not wait for the readers. *)
JoinSkipped(k) ==
    /\ alive /\ job[k].pc = "join"
    /\ job' = [job EXCEPT ![k].pc = "exit"] /\ owned' = owned \ {k}
    /\ UNCHANGED <<scene, host, uds, conn, rings, tx, ready, guest, sock, reaper, alive>>

(* Both readers joined: untrack_child. *)
Join(k) ==
    /\ alive /\ job[k].pc = "join" /\ job[k].reader = "ended"
    /\ job' = [job EXCEPT ![k].pc = "exit"] /\ owned' = owned \ {k}
    /\ UNCHANGED <<scene, host, uds, conn, rings, tx, ready, guest, sock, reaper, alive>>

SendExit(k) ==
    /\ alive /\ job[k].pc = "exit"
    /\ \/ SockWrite(k, Exit(job[k].code))
       \/ sock[k].st = "reset" /\ UNCHANGED <<tx, sock>>
    /\ job' = [job EXCEPT ![k].pc = "read", ![k].in = 0]
    /\ UNCHANGED <<scene, host, uds, conn, rings, ready, guest, owned, reaper, alive>>

-------------------------------------------------------------------------------
(* The child, and PID 1. *)

ChildWrites(k) ==
    LET j == job[k]
    IN  /\ alive /\ j.child = "running" /\ j.wrote < scene.out
        /\ j.pipe < PipeCap /\ j.reader # "ended"
        /\ job' = [job EXCEPT ![k].wrote = @ + 1, ![k].pipe = @ + 1]
        /\ UNCHANGED <<scene, host, uds, conn, rings, tx, ready, guest, sock, owned, reaper, alive>>

(* early: before the agent claimed it. *)
ChildExits(k) ==
    /\ alive /\ job[k].child = "running"
    /\ \E fate \in {"exit", "signal"} :
          job' = [job EXCEPT ![k].child = "zombie", ![k].fate = fate, ![k].early = k \notin owned]
    /\ UNCHANGED <<scene, host, uds, conn, rings, tx, ready, guest, sock, owned, reaper, alive>>

(* reap_one_orphan, in the loop of reap_forever: peek at a zombie, ask      *)
(* whether it is owned, consume it.                                         *)
Peek(k) ==
    /\ alive /\ scene.reaping /\ reaper.pc = "idle" /\ job[k].child = "zombie"
    /\ reaper' = [pc |-> "peeked", k |-> k]
    /\ UNCHANGED <<scene, host, uds, conn, rings, tx, ready, guest, sock, job, owned, alive>>

(* The reaper takes every child. *)
is_owned_never(k) == FALSE

is_owned(k) == k \in owned

AskOwned ==
    /\ alive /\ reaper.pc = "peeked"
    /\ reaper' = IF is_owned(reaper.k) THEN [pc |-> "idle", k |-> 0] ELSE [reaper EXCEPT !.pc = "consume"]
    /\ UNCHANGED <<scene, host, uds, conn, rings, tx, ready, guest, sock, job, owned, alive>>

Consume ==
    /\ alive /\ reaper.pc = "consume" /\ reaper' = [pc |-> "idle", k |-> 0]
    /\ job' = [job EXCEPT ![reaper.k].child = IF @ = "zombie" THEN "reaped" ELSE @]
    /\ UNCHANGED <<scene, host, uds, conn, rings, tx, ready, guest, sock, owned, alive>>

-------------------------------------------------------------------------------
ClientStep(c) ==
    \/ Dial(c) \/ AttemptFails(c) \/ DialFails(c) \/ Handshaken(c)
    \/ Event(c) \/ StreamEnds(c) \/ GiveUp(c)
WorkerStep ==
    \/ process_tx \/ drain_rx_backlog \/ accept_uds
    \/ \E k \in Streams : poll_pending(k) \/ ConnEvent(k)
KernelStep == Ping \/ Listen \/ GuestRx
AgentStep(k) ==
    \/ Accept(k) \/ Read(k) \/ ReadEnds(k) \/ Spawn(k) \/ Claim(k) \/ CloneFails(k)
    \/ TryWait(k) \/ Deadline(k) \/ Forward(k) \/ Join(k) \/ SendExit(k)
ReaperStep == (\E k \in Streams : Peek(k)) \/ AskOwned \/ Consume

Progress ==
    \/ \E c \in Clients : ClientStep(c)
    \/ WorkerStep \/ KernelStep
    \/ \E k \in Streams : AgentStep(k) \/ ChildExits(k)

Next == Progress \/ Stop \/ ReaperStep \/ \E k \in Streams : AskCredit(k) \/ ChildWrites(k)

(* While a thread of the client, the worker, the guest kernel or the agent  *)
(* can run, or a command has not ended, one of them goes on: PID 1's reaper *)
(* spinning on a zombie, or a chatty child, does not hold up everything.    *)
Fairness == WF_vars(Progress)

Spec == Init /\ [][Next]_vars /\ Fairness

-------------------------------------------------------------------------------
(* Properties. *)

(* The sum of a sequence of numbers, from its first position on. *)
Total(w) ==
    LET upto[i \in 0..Len(w)] == IF i = 0 THEN 0 ELSE upto[i - 1] + w[i]
    IN  upto[Len(w)]

(* The units that stream k's packets carry, packet by packet, to the guest   *)
(* and from it.                                                              *)
Carries(p, k) == p.op = "RW" /\ p.port = k
UnitsTo(s, k)   == [i \in 1..Len(s) |-> IF Carries(s[i], k) THEN s[i].n ELSE 0]
UnitsFrom(s, k) == [i \in 1..Len(s) |-> IF Carries(s[i], k) THEN Len(s[i].body) ELSE 0]

(* Neither direction of a stream ever holds more than the receiver offered: *)
(* what pump_to_guest has sent and the agent not read fits buf_alloc of the *)
(* guest, and what the agent has written and flush_to_uds not passed on     *)
(* fits HOST_BUF_ALLOC, while the counters wrap and the headers that carry  *)
(* them arrive late.                                                        *)
CreditKept ==
    alive =>
    \A k \in Streams : sock[k].st \in {"queued", "open"} /\ conn[k].st = "established" =>
        /\ sock[k].rbuf + Total(UnitsTo(rx \o backlog, k)) <= GuestBuf
        /\ Len(conn[k].buf) + Total(UnitsFrom(tx, k)) <= HostBuf

(* What run_exec_over_uds_ready returns is true of the command: its own     *)
(* code, or 124, only after every chunk it wrote and in their order; 127    *)
(* only if nothing was started; -1 only if a signal ended it, the machine   *)
(* went away, or it exited before track_child had claimed it.  PID 1's      *)
(* reaper and the readers run beside handle_exec all the while.             *)
ExitIsTrue ==
    \A c \in Clients :
        LET k == client[c].k
            j == job[k]
        IN  /\ got[c] = [i \in 1..Len(got[c]) |-> i]
            /\ told[c] \in {"zero", "124"} => Len(got[c]) = j.wrote
            /\ told[c] = "zero" => j.fate = "exit"
            /\ told[c] = "124"  => j.fate # "none"
            /\ told[c] = "127"  => j.child = "none"
            /\ told[c] = "-1"   => j.fate = "signal" \/ ~alive \/ (j.child = "reaped" /\ j.early)

(* exec_agent.rs:220-222: a child is claimed "so PID 1's orphan reaper does *)
(* not race us for it": the client is told -1, the code of a child somebody *)
(* else reaped, only of one that a signal ended, or by a machine going away. *)
ChildAlwaysClaimed ==
    \A c \in Clients : told[c] = "-1" => job[client[c].k].fate = "signal" \/ ~alive

(* Without any timer running out, a caller that has dialled gets an answer: *)
(* the Exit frame of its command, or "not ready" from an agent that was not *)
(* listening.  No stream waits for credit, for room in the rx queue or for  *)
(* its socket for ever.                                                     *)
ExecAnswered ==
    \A c \in Clients :
        (scene.calm /\ client[c].pc \in {"handshake", "command"})
            ~> told[c] \in Codes \union {"notready"}

(* Once the client has dropped its stream and the worker has removed the    *)
(* connection, the agent's thread for it ends too (pump_to_guest: "tell the *)
(* guest, then tear down").                                                 *)
GuestLearns ==
    \A k \in Streams :
        (scene.calm /\ hung[k] /\ conn[k].st = "dropped" /\ job[k].pc = "read") ~> job[k].pc = "closed"
===============================================================================
