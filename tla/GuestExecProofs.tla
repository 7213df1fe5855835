---------------------------- MODULE GuestExecProofs ----------------------------
(***************************************************************************)
(* Proofs about GuestExec, for any number of clients and streams, any      *)
(* length of an Exec frame and of a command's output, any buffer sizes and *)
(* any modulus of the credit counters beyond them.                         *)
(***************************************************************************)
EXTENDS GuestExec, SequenceTheorems, WellFoundedInduction, TLAPS

-------------------------------------------------------------------------------
(* The inductive invariant.                                                 *)
(*                                                                          *)
(* Of a stream k: cn, u and dn are its connection and its Unix socket to    *)
(* and from the worker, s what is on its way to the guest and t to the      *)
(* worker (both shared by all streams), sk its socket in the guest and j    *)
(* its job.                                                                 *)

(* The rx queue and the backlog behind it are one queue; it loses a packet  *)
(* when the guest takes one, or when enqueue_backlog drops the oldest.      *)
Wire(d) == d.rx \o d.backlog
Without(s, m) == [i \in 1..(Len(s) - 1) |-> IF i < m THEN s[i] ELSE s[i + 1]]

(* What is under way for stream k, in units. *)
InFlight(s, k) == Total(UnitsTo(s, k))
InReturn(t, k) == Total(UnitsFrom(t, k))
LoadTo(p, k)   == IF Carries(p, k) THEN p.n ELSE 0
LoadFrom(p, k) == IF Carries(p, k) THEN Len(p.body) ELSE 0

ConnT ==
    [st : {"none", "listen", "pending", "connecting", "established", "dropped"},
     alloc : {0, GuestBuf}, fwd : 0..(Modulus - 1), tx : 0..(Modulus - 1),
     rxfwd : 0..(Modulus - 1), last : 0..(Modulus - 1), buf : Seq(Frames)]
SockT ==
    [st : {"none", "queued", "open", "reset", "closed"}, rbuf : 0..GuestBuf,
     fwd : 0..(Modulus - 1), tx : 0..(Modulus - 1), pfwd : 0..(Modulus - 1), asked : BOOLEAN]
JobT ==
    [pc : {"none", "read", "exec", "spawned", "wait", "join", "exit", "closed"},
     in : 0..ExecLen, code : Codes \union {"none"}, pipe : 0..PipeCap, wrote : 0..MaxOut,
     reader : {"none", "run", "ended"},
     child : {"none", "running", "zombie", "taken", "reaped"},
     fate : {"none", "exit", "signal", "killed"}, early : BOOLEAN]
LineT == Seq({"connect", "exec"})
Typed(cn, u, dn, s, t, sk, j) ==
    /\ cn \in ConnT /\ u \in LineT /\ dn \in Seq(Frames) /\ s \in Seq(RxPackets)
    /\ t \in Seq(TxPackets) /\ sk \in SockT /\ j \in JobT

Silent(s, k) == \A i \in 1..Len(s) : s[i].port # k

RxShape(p) ==
    /\ p.op \in {"REQUEST", "RST", "RW", "CREDIT_UPDATE", "SHUTDOWN"}
    /\ p.port = Boot => p.op = "RST"
    /\ p.op # "RW" => p.n = 0
TxShape(p) ==
    /\ p.port = Boot => p.op = "REQUEST"
    /\ p.port # Boot => p.op \in {"RESPONSE", "RST", "RW", "CREDIT_UPDATE", "CREDIT_REQUEST"}
    /\ p.op = "RW" => Len(p.body) = 1 /\ p.body[1].t # "ok"

(* The agent's thread, the reader and the child go together.  A stream's    *)
(* Exec frame is executed at most once.                                     *)
Executed(j) == j.code # "none" \/ j.child # "none"
Spent(j) == IF Executed(j) THEN ExecLen ELSE j.in
ThreadInv(j) ==
    /\ j.pc = "none" => j = NoJob
    /\ ~Executed(j) => /\ j.pc \in {"none", "read", "exec", "closed"}
                       /\ j.reader = "none" /\ j.pipe = 0 /\ j.wrote = 0
    /\ j.pc = "exec" => ~Executed(j)
    /\ j.pc = "read" /\ Executed(j) => j.in = 0
    /\ j.pc \in {"exec", "spawned", "wait", "join", "exit"} => j.in = ExecLen
    /\ j.pc \in {"spawned", "wait"} => j.code = "none" /\ j.child \in {"running", "zombie", "reaped"}
    /\ j.pc = "spawned" => j.reader = "none" /\ j.pipe = j.wrote
    /\ j.pc \in {"wait", "join"} => j.reader # "none"
    /\ j.pc \in {"join", "exit"} => j.code # "none"
    /\ j.pc = "join" => j.code # "127"
    /\ j.pc = "exit" => j.code = "127" \/ j.reader = "ended"
    /\ j.reader = "run" => j.pc \in {"wait", "join"}
    /\ j.reader = "ended" \/ j.code = "127" => j.pipe = 0
    /\ j.code \notin {"none", "127"} => j.reader # "none"
    /\ j.pipe <= j.wrote

(* What a code says of the child. *)
ChildInv(j) ==
    /\ j.fate = "none" <=> j.child \in {"none", "running"}
    /\ j.child \in {"running", "zombie"} => j.pc \in {"spawned", "wait"}
    /\ j.child \in {"zombie", "reaped"} => j.fate \in {"exit", "signal"}
    /\ j.child = "reaped" => j.early
    /\ j.child = "none" => j.wrote = 0
    /\ j.code = "zero" => j.fate = "exit"
    /\ j.code = "124"  => j.fate # "none"
    /\ j.code = "127"  => j.child = "none"
    /\ j.code = "-1"   => j.fate = "signal" \/ j.child = "reaped"

(* The reaper takes only what was not claimed when it ended. *)
ReaperInv ==
    /\ \A k \in Streams : job[k].child = "zombie" /\ ~job[k].early => k \in owned
    /\ reaper.pc # "idle" => reaper.k \in Streams /\ job[reaper.k].fate # "none"
    /\ reaper.pc = "consume" /\ job[reaper.k].child = "zombie" => job[reaper.k].early

(* Frames are numbered from 1, the Exit frame last. *)
Nth(j, f, m) ==
    \/ f.t = "out" /\ f.n = m /\ m \in 1..j.wrote
    \/ f.t = "exit" /\ m = j.wrote + 1 /\ f.code = j.code /\ j.code # "none"
Sent(j) ==
    IF j.reader = "none" /\ j.code = "none" THEN 0
    ELSE (j.wrote - j.pipe) + (IF j.code # "none" /\ j.pc \notin {"join", "exit"} THEN 1 ELSE 0)
Delivering(a, dn, j) == \A i \in 1..Len(dn) : Nth(j, dn[i], a + i)

(* Behind the first b frames, the ones up to the last that was sent are in  *)
(* the tx queue, in their order.                                            *)
InTx(b, k, t, j) ==
    /\ b <= Sent(j)
    /\ \A i \in 1..Len(t) : Carries(t[i], k) =>
          \E m \in (b + 1)..Sent(j) : Nth(j, t[i].body[1], m)
    /\ \A i1, i2 \in 1..Len(t) : i1 < i2 /\ Carries(t[i1], k) /\ Carries(t[i2], k) =>
          \A m1, m2 \in Nat : Nth(j, t[i1].body[1], m1) /\ Nth(j, t[i2].body[1], m2) => m1 < m2
    /\ \A m \in (b + 1)..Sent(j) : \E i \in 1..Len(t) : Carries(t[i], k) /\ Nth(j, t[i].body[1], m)

(* Where a counter is behind another, modulo Modulus. *)
Behind(x, y) == Wrap(y - x)

(* The packets for k in a queue carry counts between lo and hi, none behind *)
(* the ones before it.                                                      *)
Counts(s, k, y, lo, hi) ==
    /\ \A i \in 1..Len(s) : s[i].port = k => Behind(s[i].fwd, y) \in Behind(hi, y)..Behind(lo, y)
    /\ \A i1, i2 \in 1..Len(s) : i1 < i2 /\ s[i1].port = k /\ s[i2].port = k =>
          Behind(s[i2].fwd, y) <= Behind(s[i1].fwd, y)

GuestCredit(k, cn, s, t, sk) ==
    /\ cn.alloc = GuestBuf
    /\ Counts(t, k, cn.tx, cn.fwd, sk.fwd)
    /\ Behind(sk.fwd, cn.tx) <= Behind(cn.fwd, cn.tx)
    /\ Behind(cn.fwd, cn.tx) <= GuestBuf
    /\ sk.rbuf + InFlight(s, k) <= Behind(sk.fwd, cn.tx)
HostCredit(k, cn, s, t, sk) ==
    /\ Counts(s, k, sk.tx, sk.pfwd, cn.rxfwd)
    /\ Behind(cn.rxfwd, sk.tx) <= Behind(sk.pfwd, sk.tx)
    /\ Behind(sk.pfwd, sk.tx) <= HostBuf
    /\ Len(cn.buf) + InReturn(t, k) = Behind(cn.rxfwd, sk.tx)

Unopened(k, cn, u, dn, s, t, sk, j) ==
    /\ cn = [NoConn EXCEPT !.st = cn.st] /\ sk = NoSock /\ j = NoJob
    /\ u = (IF cn.st = "none" THEN <<>> ELSE <<"connect">>) /\ dn = <<>>
    /\ Silent(s, k) /\ Silent(t, k)

(* One REQUEST, then one answer to it. *)
Opening(k, cn, u, dn, s, t, sk, j) ==
    /\ cn = [NoConn EXCEPT !.st = "connecting"] /\ u = <<>> /\ dn = <<>>
    /\ sk = [NoSock EXCEPT !.st = sk.st] /\ sk.st \in {"none", "queued", "open"}
    /\ j = [NoJob EXCEPT !.pc = j.pc] /\ j.pc \in {"none", "read"}
    /\ \A i \in 1..Len(s) : s[i].port = k => s[i].op = "REQUEST" /\ sk.st = "none" /\ Silent(t, k)
    /\ \A i1, i2 \in 1..Len(s) : s[i1].port = k /\ s[i2].port = k => i1 = i2
    /\ \A i \in 1..Len(t) : t[i].port = k =>
          /\ t[i].op \in {"RESPONSE", "RST"} /\ t[i].fwd = 0
          /\ t[i].op = "RESPONSE" <=> sk.st # "none"
    /\ \A i1, i2 \in 1..Len(t) : t[i1].port = k /\ t[i2].port = k => i1 = i2

Opened(k, cn, u, dn, s, t, sk, j) ==
    /\ \A i \in 1..Len(s) : s[i].port = k => s[i].op \in {"RW", "CREDIT_UPDATE"}
    /\ \A i \in 1..Len(t) : t[i].port = k => t[i].op \in {"RW", "CREDIT_UPDATE", "CREDIT_REQUEST"}
    /\ sk.st \in {"queued", "open"}
    /\ GuestCredit(k, cn, s, t, sk) /\ HostCredit(k, cn, s, t, sk)

Dropped(k, s) == \A i \in 1..Len(s) : s[i].port = k => s[i].op # "REQUEST"

(* The client writes ExecLen units once, and they are spent at most once. *)
Counted(k, u, s, sk, j) ==
    /\ \A i \in 1..Len(u) : u[i] = "exec"
    /\ Len(u) + InFlight(s, k) + sk.rbuf + Spent(j) <= ExecLen

Early == {"none", "listen", "pending"}
StreamInv(k, cn, u, dn, s, t, sk, j) ==
    /\ cn.st \in Early => Unopened(k, cn, u, dn, s, t, sk, j)
    /\ cn.st = "connecting" => Opening(k, cn, u, dn, s, t, sk, j)
    /\ cn.st = "established" => Opened(k, cn, u, dn, s, t, sk, j)
    /\ cn.st = "dropped" => Dropped(k, s) /\ cn.buf = <<>>
    /\ cn.st \notin Early => Counted(k, u, s, sk, j)
    /\ sk.rbuf + InFlight(s, k) <= GuestBuf
    /\ Len(dn) <= UdsCap
    /\ sk.st \in {"none", "queued"} => j = NoJob

(* Of a client that waits for the handshake, or for frames of which it has  *)
(* had a.                                                                   *)
Shaking(k, cn, u, dn, s, t, sk, j) ==
    /\ dn \in {<<>>, <<Ok>>}
    /\ cn.st # "none"
    /\ dn # <<>> => cn.st \in {"established", "dropped"}
    /\ cn.st = "established" =>
          /\ u = <<>> /\ cn.buf = <<>> /\ sk.rbuf + InFlight(s, k) = 0
          /\ j = [NoJob EXCEPT !.pc = j.pc] /\ j.pc \in {"none", "read"}
          /\ \A i \in 1..Len(t) : ~Carries(t[i], k)
Commanding(a, k, cn, dn, t, j) ==
    /\ cn.st = "established" /\ Delivering(a, dn, j)
    /\ \A i \in 1..Len(cn.buf) : Nth(j, cn.buf[i], a + Len(dn) + i)
    /\ InTx(a + Len(dn) + Len(cn.buf), k, t, j)

OwnerInv(c, k, cn, u, dn, s, t, sk, j) ==
    /\ client[c].pc = "handshake" => Shaking(k, cn, u, dn, s, t, sk, j)
    /\ client[c].pc = "command" => Commanding(Len(got[c]), k, cn, dn, t, j)

(* What a client has been given and told. *)
Counting(s) == s = [i \in 1..Len(s) |-> i]
Outcome(c, k) ==
    \/ told[c] \in {"error", "notready"}
    \/ told[c] = "-1" /\ ~alive
    \/ /\ told[c] \in Codes /\ k \in Streams /\ told[c] = job[k].code
       /\ Len(got[c]) = job[k].wrote
ClientInv(c, k) ==
    /\ k <= dialled
    /\ client[c].pc \in {"handshake", "command"} => k # 0 /\ ~hung[k] /\ conn[k].st # "none"
    /\ client[c].pc \notin {"command", "done"} => got[c] = <<>>
    /\ Counting(got[c])
    /\ client[c].pc = "command" /\ ~alive => Delivering(Len(got[c]), down[k], job[k])
    /\ client[c].pc # "done" => told[c] = "none"
    /\ client[c].pc = "done" => Outcome(c, k)

QueueInv ==
    /\ \A i \in 1..Len(rx \o backlog) : RxShape((rx \o backlog)[i])
    /\ \A i \in 1..Len(tx) : TxShape(tx[i])
DialInv ==
    /\ \A k \in Streams : k > dialled <=> conn[k].st = "none"
    /\ \A k \in Streams : conn[k].st = "none" => ~hung[k]
    /\ \A c1, c2 \in Clients : client[c1].k = client[c2].k /\ client[c1].k # 0 => c1 = c2

(* The machine's part of a stream, and what its owner knows of it. *)
LocalInv(k, cn, u, dn, s, t, sk, j) ==
    /\ StreamInv(k, cn, u, dn, s, t, sk, j)
    /\ \A c \in Clients : client[c].k = k => OwnerInv(c, k, cn, u, dn, s, t, sk, j)

AliveInv(d, t) ==
    \A k \in Streams : LocalInv(k, d.conn[k], d.up[k], d.down[k], Wire(d), t, sock[k], job[k])

IInv ==
    /\ TypeOK
    /\ \A k \in Streams : ThreadInv(job[k]) /\ ChildInv(job[k])
    /\ ReaperInv /\ QueueInv /\ DialInv
    /\ \A c \in Clients : ClientInv(c, client[c].k)
    /\ alive => AliveInv(Now, tx)
    /\ ~alive => \A k \in Streams : conn[k].st \in {"none", "dropped"}

-------------------------------------------------------------------------------
(* Counters modulo Modulus. *)

LEMMA ModulusType == Modulus \in Nat /\ Modulus > 1
BY GuestExecAssumption

LEMMA WrapType == ASSUME NEW x \in Int PROVE Wrap(x) \in 0..(Modulus - 1)
BY ModulusType DEF Wrap

LEMMA ModSplit ==
    ASSUME NEW x \in Int, NEW m \in Nat, m > 0 PROVE \E q \in Int : x = m * q + (x % m)
OBVIOUS

LEMMA WrapSplit == ASSUME NEW x \in Int PROVE \E q \in Int : x = Modulus * q + Wrap(x)
<1>1. Modulus \in Nat /\ Modulus > 0
  BY ModulusType
<1>2. \E q \in Int : x = Modulus * q + (x % Modulus)
  BY <1>1, ModSplit, Zenon
<1>3. QED
  BY <1>2 DEF Wrap

(* A remainder is unique. *)
LEMMA WrapIs ==
    ASSUME NEW x \in Int, NEW q \in Int, NEW r \in 0..(Modulus - 1), x = Modulus * q + r
    PROVE  Wrap(x) = r
<1>1. PICK p \in Int : x = Modulus * p + Wrap(x)
  BY WrapSplit
<1>2. Wrap(x) \in 0..(Modulus - 1) /\ Modulus \in Nat /\ Modulus > 1
  BY WrapType, ModulusType
<1>3. CASE p = q
  BY <1>1, <1>2, <1>3
<1>4. CASE p > q
  <2>1. Modulus * p >= Modulus * (q + 1)
    BY <1>2, <1>4
  <2>2. Modulus * (q + 1) = Modulus * q + Modulus
    BY <1>2
  <2>3. QED
    BY <2>1, <2>2, <1>1, <1>2
<1>5. CASE p < q
  <2>1. Modulus * q >= Modulus * (p + 1)
    BY <1>2, <1>5
  <2>2. Modulus * (p + 1) = Modulus * p + Modulus
    BY <1>2
  <2>3. QED
    BY <2>1, <2>2, <1>1, <1>2
<1>6. QED
  BY <1>3, <1>4, <1>5

(* The counter ahead moves on by n: everyone is n more behind. *)
LEMMA BehindMore ==
    ASSUME NEW x \in Int, NEW y \in Int, NEW n \in Nat, Behind(x, y) + n < Modulus
    PROVE  Behind(x, Wrap(y + n)) = Behind(x, y) + n
<1> DEFINE b == Behind(x, y)
<1>1. PICK p \in Int : y - x = Modulus * p + b
  BY WrapSplit DEF Behind
<1>2. PICK q \in Int : y + n = Modulus * q + Wrap(y + n)
  BY WrapSplit
<1>3. b \in 0..(Modulus - 1) /\ Wrap(y + n) \in 0..(Modulus - 1) /\ Modulus \in Nat
  BY WrapType, ModulusType DEF Behind
<1> HIDE DEF b
<1>4. Modulus * (p - q) = Modulus * p - Modulus * q
  BY <1>3
<1>5. Wrap(y + n) - x = Modulus * (p - q) + (b + n)
  BY <1>1, <1>2, <1>3, <1>4
<1>6. b + n \in 0..(Modulus - 1) /\ Wrap(y + n) - x \in Int /\ p - q \in Int
  BY <1>3 DEF b
<1>7. QED
  BY <1>5, <1>6, WrapIs DEF Behind, b

(* A counter behind moves on by n, not beyond the one ahead. *)
LEMMA BehindLess ==
    ASSUME NEW x \in Int, NEW y \in Int, NEW n \in Nat, n <= Behind(x, y)
    PROVE  Behind(Wrap(x + n), y) = Behind(x, y) - n
<1> DEFINE b == Behind(x, y)
<1>1. PICK p \in Int : y - x = Modulus * p + b
  BY WrapSplit DEF Behind
<1>2. PICK q \in Int : x + n = Modulus * q + Wrap(x + n)
  BY WrapSplit
<1>3. b \in 0..(Modulus - 1) /\ Wrap(x + n) \in 0..(Modulus - 1) /\ Modulus \in Nat
  BY WrapType, ModulusType DEF Behind
<1> HIDE DEF b
<1>4. Modulus * (p + q) = Modulus * p + Modulus * q
  BY <1>3
<1>5. y - Wrap(x + n) = Modulus * (p + q) + (b - n)
  BY <1>1, <1>2, <1>3, <1>4
<1>6. b - n \in 0..(Modulus - 1) /\ y - Wrap(x + n) \in Int /\ p + q \in Int
  BY <1>3 DEF b
<1>7. QED
  BY <1>5, <1>6, WrapIs DEF Behind, b

LEMMA BehindType ==
    ASSUME NEW x \in Int, NEW y \in Int PROVE Behind(x, y) \in 0..(Modulus - 1)
BY WrapType DEF Behind

LEMMA BehindInt == ASSUME NEW x \in Int, NEW y \in Int PROVE Behind(x, y) \in Int
<1>1. Behind(x, y) \in 0..(Modulus - 1)
  BY BehindType
<1>2. QED
  BY <1>1, ModulusType

LEMMA BehindSame == ASSUME NEW x \in Int PROVE Behind(x, x) = 0
<1>1. x - x = Modulus * 0 + 0 /\ 0 \in 0..(Modulus - 1) /\ x - x \in Int
  BY ModulusType
<1>2. QED
  BY <1>1, WrapIs DEF Behind

-------------------------------------------------------------------------------
(* Sums. *)

Running(f, w) ==
    /\ f \in [0..Len(w) -> Nat] /\ f[0] = 0
    /\ \A i \in 1..Len(w) : f[i] = f[i - 1] + w[i]

(* Any non-empty set of numbers has a least element. *)
LEMMA LeastOf ==
    ASSUME NEW S \in SUBSET Nat, S # {} PROVE \E x \in S : \A y \in S : x <= y
<1> DEFINE R == OpToRel(<, Nat)
<1>1. \A x, y \in Nat : y < x => <<y, x>> \in R
  BY DEF OpToRel
<1>2. IsWellFoundedOn(R, Nat)
  BY NatLessThanWellFounded
<1> HIDE DEF R
<1>3. PICK x \in S : \A y \in S : ~(<<y, x>> \in R)
  BY <1>2, WFMin
<1>4. ASSUME NEW y \in S PROVE x <= y
  <2>1. x \in Nat /\ y \in Nat
    OBVIOUS
  <2>2. ~(y < x)
    BY <1>1, <1>3, <2>1
  <2>3. QED
    BY <2>1, <2>2
<1>5. QED
  BY <1>4

LEMMA RunningExists == ASSUME NEW w \in Seq(Nat) PROVE \E f : Running(f, w)
<1> DEFINE P(n) == \E f \in [0..n -> Nat] : f[0] = 0 /\ \A i \in 1..n : f[i] = f[i - 1] + w[i]
           Bad == {n \in 0..Len(w) : ~P(n)}
<1>1. Len(w) \in Nat /\ \A i \in 1..Len(w) : w[i] \in Nat
  OBVIOUS
<1>2. SUFFICES Bad = {}
  <2>1. Len(w) \in 0..Len(w)
    BY <1>1
  <2>2. Len(w) \notin Bad
    BY <1>2
  <2>3. QED
    BY <2>1, <2>2 DEF Running
<1>3. SUFFICES ASSUME Bad # {} PROVE FALSE
  OBVIOUS
<1>4. PICK n \in Bad : \A y \in Bad : n <= y
  <2>1. Bad \in SUBSET Nat
    BY <1>1
  <2> HIDE DEF Bad
  <2>2. QED
    BY <2>1, <1>3, LeastOf
<1>5. n # 0
  <2>1. P(0)
    <3> DEFINE z == [i \in 0..0 |-> 0]
    <3>1. z \in [0..0 -> Nat] /\ z[0] = 0 /\ \A i \in 1..0 : z[i] = z[i - 1] + w[i]
      OBVIOUS
    <3> HIDE DEF z
    <3>2. QED
      BY <3>1
  <2>2. QED
    BY <2>1
<1>6. n - 1 \in 0..Len(w) /\ n - 1 \notin Bad /\ n \in 1..Len(w)
  <2>1. n \in 0..Len(w)
    OBVIOUS
  <2>2. n - 1 \in 0..Len(w) /\ n \in 1..Len(w)
    BY <1>1, <1>5, <2>1
  <2> HIDE DEF Bad
  <2>3. QED
    BY <1>4, <2>1, <2>2
<1>7. PICK f \in [0..(n - 1) -> Nat] : f[0] = 0 /\ \A i \in 1..(n - 1) : f[i] = f[i - 1] + w[i]
  BY <1>6
<1> DEFINE g == [i \in 0..n |-> IF i = n THEN f[n - 1] + w[n] ELSE f[i]]
<1>8. g \in [0..n -> Nat] /\ g[0] = 0
  <2>1. n \in Nat /\ n > 0 /\ w[n] \in Nat /\ f[n - 1] \in Nat
    BY <1>1, <1>6, <1>7
  <2>2. \A i \in 0..n : i # n => f[i] \in Nat
    BY <1>7, <2>1
  <2> HIDE DEF Bad, P
  <2>3. QED
    BY <1>7, <2>1, <2>2
<1>9. ASSUME NEW i \in 1..n PROVE g[i] = g[i - 1] + w[i]
  BY <1>1, <1>6, <1>7
<1>10. P(n)
  <2> HIDE DEF g
  <2>1. QED
    BY <1>8, <1>9
<1>11. QED
  BY <1>10

(* Total is the last running total. *)
LEMMA TotalIs ==
    ASSUME NEW w \in Seq(Nat), NEW f, Running(f, w) PROVE Total(w) = f[Len(w)]
<1> DEFINE step(h) == [i \in 0..Len(w) |-> IF i = 0 THEN 0 ELSE h[i - 1] + w[i]]
           up0 == CHOOSE h : h = step(h)
<1>1. Len(w) \in Nat /\ \A i \in 1..Len(w) : w[i] \in Nat
  OBVIOUS
<1>2. f = step(f)
  BY <1>1 DEF Running
<1>3. up0 = step(up0)
  BY <1>2
<1>4. Total(w) = up0[Len(w)]
  BY DEF Total
<1> HIDE DEF up0
<1>5. \A i \in 0..Len(w) : up0[i] = f[i]
  <2> DEFINE Bad == {n \in 0..Len(w) : up0[n] # f[n]}
  <2>1. SUFFICES ASSUME Bad # {} PROVE FALSE
    OBVIOUS
  <2>2. PICK n \in Bad : \A y \in Bad : n <= y
    <3>1. Bad \in SUBSET Nat
      BY <1>1
    <3> HIDE DEF Bad
    <3>2. QED
      BY <3>1, <2>1, LeastOf
  <2>3. n \in 0..Len(w) /\ up0[n] = (IF n = 0 THEN 0 ELSE up0[n - 1] + w[n])
    BY <1>3, <2>2
  <2>4. n # 0
    BY <2>2, <2>3 DEF Running
  <2>5. n - 1 \in 0..Len(w) /\ n \in 1..Len(w) /\ up0[n - 1] = f[n - 1]
    BY <1>1, <2>2, <2>3, <2>4
  <2>6. QED
    BY <2>2, <2>3, <2>4, <2>5 DEF Running
<1>6. QED
  BY <1>1, <1>4, <1>5

LEMMA TotalType == ASSUME NEW w \in Seq(Nat) PROVE Total(w) \in Nat
<1>1. PICK f : Running(f, w)
  BY RunningExists
<1>2. QED
  BY <1>1, TotalIs DEF Running

LEMMA TotalAppend ==
    ASSUME NEW w \in Seq(Nat), NEW x \in Nat PROVE Total(Append(w, x)) = Total(w) + x
<1> DEFINE v == Append(w, x)
           n == Len(w)
<1>1. v \in Seq(Nat) /\ Len(v) = n + 1 /\ v[n + 1] = x /\ n \in Nat /\ \A i \in 1..n : v[i] = w[i]
  BY AppendProperties
<1>2. PICK f : Running(f, w)
  BY RunningExists
<1> DEFINE g == [i \in 0..(n + 1) |-> IF i = n + 1 THEN f[n] + x ELSE f[i]]
<1>3. f \in [0..n -> Nat] /\ f[0] = 0 /\ \A i \in 1..n : f[i] = f[i - 1] + w[i]
  BY <1>2 DEF Running
<1> HIDE DEF v, n
<1>4. g \in [0..(n + 1) -> Nat] /\ g[0] = 0 /\ g[n + 1] = f[n] + x
  BY <1>1, <1>3
<1>5. ASSUME NEW i \in 1..(n + 1) PROVE g[i] = g[i - 1] + v[i]
  BY <1>1, <1>3
<1>6. Running(g, v)
  <2> HIDE DEF g
  <2>1. QED
    BY <1>1, <1>4, <1>5 DEF Running
<1>7. Total(v) = g[n + 1]
  BY <1>1, <1>6, TotalIs
<1>8. Total(w) = f[n]
  BY <1>2, TotalIs DEF n
<1>9. QED
  BY <1>4, <1>7, <1>8 DEF v

LEMMA WithoutProperties ==
    ASSUME NEW S, NEW s \in Seq(S), NEW m \in 1..Len(s)
    PROVE  /\ Without(s, m) \in Seq(S) /\ Len(Without(s, m)) = Len(s) - 1 /\ Len(s) \in Nat
           /\ \A i \in 1..(Len(s) - 1) : Without(s, m)[i] = IF i < m THEN s[i] ELSE s[i + 1]
<1>1. Len(s) \in Nat /\ \A i \in 1..Len(s) : s[i] \in S
  OBVIOUS
<1>2. Len(s) - 1 \in Nat /\ Without(s, m) \in [1..(Len(s) - 1) -> S]
  BY <1>1 DEF Without
<1>3. Without(s, m) \in Seq(S)
  BY <1>2, SeqDef
<1>4. Len(Without(s, m)) = Len(s) - 1
  BY <1>2, <1>3
<1>5. QED
  BY <1>1, <1>3, <1>4 DEF Without

LEMMA TailIsWithout ==
    ASSUME NEW S, NEW s \in Seq(S), s # <<>> PROVE 1 \in 1..Len(s) /\ Tail(s) = Without(s, 1)
<1>1. 1 \in 1..Len(s)
  BY EmptySeq
<1>2. Tail(s) \in Seq(S) /\ Len(Tail(s)) = Len(s) - 1 /\ \A i \in 1..Len(Tail(s)) : Tail(s)[i] = s[i + 1]
  BY HeadTailProperties
<1>3. /\ Without(s, 1) \in Seq(S) /\ Len(Without(s, 1)) = Len(s) - 1
      /\ \A i \in 1..(Len(s) - 1) : Without(s, 1)[i] = s[i + 1]
  BY <1>1, WithoutProperties
<1>4. QED
  BY <1>1, <1>2, <1>3, SeqEqual

LEMMA TotalWithout ==
    ASSUME NEW w \in Seq(Nat), NEW m \in 1..Len(w)
    PROVE  Total(Without(w, m)) = Total(w) - w[m]
<1> DEFINE v == Without(w, m)
           n == Len(w)
<1>1. /\ v \in Seq(Nat) /\ Len(v) = n - 1 /\ n \in Nat /\ m \in 1..n
      /\ \A i \in 1..(n - 1) : v[i] = IF i < m THEN w[i] ELSE w[i + 1]
      /\ \A i \in 1..n : w[i] \in Nat
  BY WithoutProperties
<1>2. PICK f : Running(f, w)
  BY RunningExists
<1>3. f \in [0..n -> Nat] /\ f[0] = 0 /\ \A i \in 1..n : f[i] = f[i - 1] + w[i]
  BY <1>2 DEF Running
<1> DEFINE g == [i \in 0..(n - 1) |-> IF i < m THEN f[i] ELSE f[i + 1] - w[m]]
           Bad == {i \in m..n : f[i] < w[m]}
<1> HIDE DEF v, n
<1>4. Bad = {}
  <2>1. SUFFICES ASSUME Bad # {} PROVE FALSE
    OBVIOUS
  <2>2. PICK i \in Bad : \A y \in Bad : i <= y
    <3>1. Bad \in SUBSET Nat
      BY <1>1
    <3> HIDE DEF Bad
    <3>2. QED
      BY <3>1, <2>1, LeastOf
  <2>3. i # m
    BY <1>1, <1>3, <2>2
  <2>4. i - 1 \in m..n /\ i \in 1..n /\ f[i] = f[i - 1] + w[i] /\ w[i] \in Nat
    BY <1>1, <1>3, <2>2, <2>3
  <2>5. i - 1 \notin Bad
    BY <2>2, <2>4
  <2>6. f[i - 1] \in Nat /\ f[i] \in Nat /\ w[m] \in Nat
    BY <1>1, <1>3, <2>4
  <2>7. QED
    BY <2>2, <2>4, <2>5, <2>6
<1>5. ASSUME NEW i \in m..n PROVE f[i] - w[m] \in Nat
  <2>1. f[i] \in Nat /\ w[m] \in Nat
    BY <1>1, <1>3, SMTT(40)
  <2>2. ~(f[i] < w[m])
    BY <1>4
  <2>3. QED
    BY <2>1, <2>2
<1>6. g \in [0..(n - 1) -> Nat] /\ g[0] = 0
  BY <1>1, <1>3, <1>5, SMTT(40)
<1>7. ASSUME NEW i \in 1..(n - 1) PROVE g[i] = g[i - 1] + v[i]
  <2>1. CASE i < m
    BY <2>1, <1>1, <1>3
  <2>2. CASE i = m
    <3>1. f[i + 1] = f[i] + w[i + 1] /\ f[i] = f[i - 1] + w[i] /\ v[i] = w[i + 1]
      BY <2>2, <1>1, <1>3
    <3>2. g[i] = f[i + 1] - w[m] /\ g[i - 1] = f[i - 1]
      BY <2>2, <1>1
    <3>3. f[i - 1] \in Nat /\ w[i] \in Nat /\ w[i + 1] \in Nat
      BY <2>2, <1>1, <1>3
    <3>4. QED
      BY <2>2, <3>1, <3>2, <3>3
  <2>3. CASE i > m
    <3>0. i + 1 \in 1..n /\ (i + 1) - 1 = i /\ i \in 0..n
      BY <2>3, <1>1
    <3>1. f[i + 1] = f[i] + w[i + 1] /\ v[i] = w[i + 1]
      <4>1. f[i + 1] = f[(i + 1) - 1] + w[i + 1]
        BY <3>0, <1>3
      <4>2. v[i] = w[i + 1]
        BY <2>3, <1>1
      <4>3. QED
        BY <4>1, <4>2, <3>0
    <3>2. g[i] = f[i + 1] - w[m] /\ g[i - 1] = f[i] - w[m]
      BY <2>3, <1>1
    <3>3. f[i] \in Nat /\ w[m] \in Nat /\ w[i + 1] \in Nat
      BY <3>0, <1>1, <1>3
    <3>4. QED
      BY <3>1, <3>2, <3>3
  <2>4. QED
    BY <2>1, <2>2, <2>3, <1>1
<1>8. Running(g, v)
  <2> HIDE DEF g
  <2>1. QED
    BY <1>1, <1>6, <1>7 DEF Running
<1>9. Total(v) = g[n - 1]
  BY <1>1, <1>8, TotalIs
<1>10. Total(w) = f[n]
  BY <1>2, TotalIs DEF n
<1>11. g[n - 1] = f[n] - w[m]
  BY <1>1, <1>3
<1>12. QED
  BY <1>9, <1>10, <1>11 DEF v
-------------------------------------------------------------------------------
(* What is under way, as packets come and go. *)

LEMMA UnitsToType ==
    ASSUME NEW s \in Seq(RxPackets), NEW k
    PROVE  UnitsTo(s, k) \in Seq(Nat) /\ Len(UnitsTo(s, k)) = Len(s) /\ Len(s) \in Nat
<1>1. Len(s) \in Nat /\ \A i \in 1..Len(s) : s[i].n \in Nat
  <2>1. \A p \in RxPackets : p.n \in Nat
    BY GuestExecAssumption DEF RxPackets
  <2>2. QED
    BY <2>1, ElementOfSeq
<1>2. UnitsTo(s, k) \in [1..Len(s) -> Nat]
  BY <1>1 DEF UnitsTo
<1>3. UnitsTo(s, k) \in Seq(Nat)
  BY <1>1, <1>2, SeqDef
<1>4. QED
  BY <1>1, <1>2, <1>3

LEMMA InFlightType == ASSUME NEW s \in Seq(RxPackets), NEW k PROVE InFlight(s, k) \in Nat
BY UnitsToType, TotalType DEF InFlight

LEMMA InFlightNone ==
    ASSUME NEW s \in Seq(RxPackets), NEW k, \A i \in 1..Len(s) : ~Carries(s[i], k)
    PROVE  InFlight(s, k) = 0
<1> DEFINE f == [i \in 0..Len(s) |-> 0]
<1>1. UnitsTo(s, k) \in Seq(Nat) /\ Len(UnitsTo(s, k)) = Len(s) /\ Len(s) \in Nat
  BY UnitsToType
<1>2. \A i \in 1..Len(s) : UnitsTo(s, k)[i] = 0
  BY DEF UnitsTo
<1>3. Running(f, UnitsTo(s, k))
  BY <1>1, <1>2 DEF Running
<1>4. QED
  BY <1>1, <1>3, TotalIs DEF InFlight

LEMMA InFlightAppend ==
    ASSUME NEW s \in Seq(RxPackets), NEW p \in RxPackets, NEW k
    PROVE  InFlight(Append(s, p), k) = InFlight(s, k) + LoadTo(p, k)
<1>1. LoadTo(p, k) \in Nat
  BY GuestExecAssumption DEF RxPackets, LoadTo
<1>2. /\ Append(s, p) \in Seq(RxPackets) /\ Len(Append(s, p)) = Len(s) + 1
      /\ Append(s, p)[Len(s) + 1] = p /\ \A i \in 1..Len(s) : Append(s, p)[i] = s[i]
  BY AppendProperties
<1>3. UnitsTo(s, k) \in Seq(Nat) /\ Len(UnitsTo(s, k)) = Len(s) /\ Len(s) \in Nat
  BY UnitsToType
<1>4. /\ UnitsTo(Append(s, p), k) \in Seq(Nat)
      /\ Len(UnitsTo(Append(s, p), k)) = Len(s) + 1
  BY <1>2, UnitsToType
<1> DEFINE v == Append(UnitsTo(s, k), LoadTo(p, k))
<1>5. /\ v \in Seq(Nat) /\ Len(v) = Len(s) + 1
      /\ v[Len(s) + 1] = LoadTo(p, k) /\ \A i \in 1..Len(s) : v[i] = UnitsTo(s, k)[i]
  BY <1>1, <1>3, AppendProperties
<1>6. ASSUME NEW i \in 1..(Len(s) + 1) PROVE UnitsTo(Append(s, p), k)[i] = v[i]
  <2>1. CASE i = Len(s) + 1
    BY <2>1, <1>2, <1>3, <1>5 DEF UnitsTo, LoadTo
  <2>2. CASE i \in 1..Len(s)
    BY <2>2, <1>2, <1>3, <1>5 DEF UnitsTo
  <2>3. QED
    BY <2>1, <2>2, <1>3
<1> HIDE DEF v
<1>7. UnitsTo(Append(s, p), k) = v
  BY <1>4, <1>5, <1>6, SeqEqual
<1>8. QED
  BY <1>1, <1>3, <1>7, TotalAppend DEF InFlight, v

LEMMA InFlightWithout ==
    ASSUME NEW s \in Seq(RxPackets), NEW m \in 1..Len(s), NEW k
    PROVE  InFlight(Without(s, m), k) = InFlight(s, k) - LoadTo(s[m], k)
<1>1. /\ Without(s, m) \in Seq(RxPackets) /\ Len(Without(s, m)) = Len(s) - 1
      /\ \A i \in 1..(Len(s) - 1) : Without(s, m)[i] = IF i < m THEN s[i] ELSE s[i + 1]
  BY WithoutProperties
<1>2. UnitsTo(s, k) \in Seq(Nat) /\ Len(UnitsTo(s, k)) = Len(s) /\ Len(s) \in Nat
  BY UnitsToType
<1>3. /\ UnitsTo(Without(s, m), k) \in Seq(Nat)
      /\ Len(UnitsTo(Without(s, m), k)) = Len(s) - 1
  BY <1>1, UnitsToType
<1> DEFINE v == Without(UnitsTo(s, k), m)
<1>4. /\ v \in Seq(Nat) /\ Len(v) = Len(s) - 1
      /\ \A i \in 1..(Len(s) - 1) : v[i] = IF i < m THEN UnitsTo(s, k)[i] ELSE UnitsTo(s, k)[i + 1]
  BY <1>2, WithoutProperties
<1>5. ASSUME NEW i \in 1..(Len(s) - 1) PROVE UnitsTo(Without(s, m), k)[i] = v[i]
  <2>1. i \in 1..Len(s) /\ i + 1 \in 1..Len(s)
    BY <1>2
  <2>2. UnitsTo(Without(s, m), k)[i] = LoadTo(Without(s, m)[i], k)
    BY <1>1 DEF UnitsTo, LoadTo
  <2>3. UnitsTo(s, k)[i] = LoadTo(s[i], k) /\ UnitsTo(s, k)[i + 1] = LoadTo(s[i + 1], k)
    BY <2>1 DEF UnitsTo, LoadTo
  <2>4. QED
    BY <2>2, <2>3, <1>1, <1>4
<1> HIDE DEF v
<1>6. UnitsTo(Without(s, m), k) = v
  BY <1>3, <1>4, <1>5, SeqEqual
<1>7. Total(v) = Total(UnitsTo(s, k)) - UnitsTo(s, k)[m]
  BY <1>2, TotalWithout DEF v
<1>8. UnitsTo(s, k)[m] = LoadTo(s[m], k)
  BY DEF UnitsTo, LoadTo
<1>9. QED
  BY <1>6, <1>7, <1>8 DEF InFlight

LEMMA UnitsFromType ==
    ASSUME NEW s \in Seq(TxPackets), NEW k
    PROVE  UnitsFrom(s, k) \in Seq(Nat) /\ Len(UnitsFrom(s, k)) = Len(s) /\ Len(s) \in Nat
<1>1. Len(s) \in Nat /\ \A i \in 1..Len(s) : Len(s[i].body) \in Nat
  BY ElementOfSeq, LenProperties DEF TxPackets
<1>2. UnitsFrom(s, k) \in [1..Len(s) -> Nat]
  BY <1>1 DEF UnitsFrom
<1>3. UnitsFrom(s, k) \in Seq(Nat)
  BY <1>1, <1>2, SeqDef
<1>4. QED
  BY <1>1, <1>2, <1>3

LEMMA InReturnType == ASSUME NEW s \in Seq(TxPackets), NEW k PROVE InReturn(s, k) \in Nat
BY UnitsFromType, TotalType DEF InReturn

LEMMA InReturnNone ==
    ASSUME NEW s \in Seq(TxPackets), NEW k, \A i \in 1..Len(s) : ~Carries(s[i], k)
    PROVE  InReturn(s, k) = 0
<1> DEFINE f == [i \in 0..Len(s) |-> 0]
<1>1. UnitsFrom(s, k) \in Seq(Nat) /\ Len(UnitsFrom(s, k)) = Len(s) /\ Len(s) \in Nat
  BY UnitsFromType
<1>2. \A i \in 1..Len(s) : UnitsFrom(s, k)[i] = 0
  BY DEF UnitsFrom
<1>3. Running(f, UnitsFrom(s, k))
  BY <1>1, <1>2 DEF Running
<1>4. QED
  BY <1>1, <1>3, TotalIs DEF InReturn

LEMMA InReturnAppend ==
    ASSUME NEW s \in Seq(TxPackets), NEW p \in TxPackets, NEW k
    PROVE  InReturn(Append(s, p), k) = InReturn(s, k) + LoadFrom(p, k)
<1>1. LoadFrom(p, k) \in Nat
  BY LenProperties DEF TxPackets, LoadFrom
<1>2. /\ Append(s, p) \in Seq(TxPackets) /\ Len(Append(s, p)) = Len(s) + 1
      /\ Append(s, p)[Len(s) + 1] = p /\ \A i \in 1..Len(s) : Append(s, p)[i] = s[i]
  BY AppendProperties
<1>3. UnitsFrom(s, k) \in Seq(Nat) /\ Len(UnitsFrom(s, k)) = Len(s) /\ Len(s) \in Nat
  BY UnitsFromType
<1>4. /\ UnitsFrom(Append(s, p), k) \in Seq(Nat)
      /\ Len(UnitsFrom(Append(s, p), k)) = Len(s) + 1
  BY <1>2, UnitsFromType
<1> DEFINE v == Append(UnitsFrom(s, k), LoadFrom(p, k))
<1>5. /\ v \in Seq(Nat) /\ Len(v) = Len(s) + 1
      /\ v[Len(s) + 1] = LoadFrom(p, k) /\ \A i \in 1..Len(s) : v[i] = UnitsFrom(s, k)[i]
  BY <1>1, <1>3, AppendProperties
<1>6. ASSUME NEW i \in 1..(Len(s) + 1) PROVE UnitsFrom(Append(s, p), k)[i] = v[i]
  <2>1. CASE i = Len(s) + 1
    BY <2>1, <1>2, <1>3, <1>5 DEF UnitsFrom, LoadFrom
  <2>2. CASE i \in 1..Len(s)
    BY <2>2, <1>2, <1>3, <1>5 DEF UnitsFrom
  <2>3. QED
    BY <2>1, <2>2, <1>3
<1> HIDE DEF v
<1>7. UnitsFrom(Append(s, p), k) = v
  BY <1>4, <1>5, <1>6, SeqEqual
<1>8. QED
  BY <1>1, <1>3, <1>7, TotalAppend DEF InReturn, v

LEMMA InReturnWithout ==
    ASSUME NEW s \in Seq(TxPackets), NEW m \in 1..Len(s), NEW k
    PROVE  InReturn(Without(s, m), k) = InReturn(s, k) - LoadFrom(s[m], k)
<1>1. /\ Without(s, m) \in Seq(TxPackets) /\ Len(Without(s, m)) = Len(s) - 1
      /\ \A i \in 1..(Len(s) - 1) : Without(s, m)[i] = IF i < m THEN s[i] ELSE s[i + 1]
  BY WithoutProperties
<1>2. UnitsFrom(s, k) \in Seq(Nat) /\ Len(UnitsFrom(s, k)) = Len(s) /\ Len(s) \in Nat
  BY UnitsFromType
<1>3. /\ UnitsFrom(Without(s, m), k) \in Seq(Nat)
      /\ Len(UnitsFrom(Without(s, m), k)) = Len(s) - 1
  BY <1>1, UnitsFromType
<1> DEFINE v == Without(UnitsFrom(s, k), m)
<1>4. /\ v \in Seq(Nat) /\ Len(v) = Len(s) - 1
      /\ \A i \in 1..(Len(s) - 1) : v[i] = IF i < m THEN UnitsFrom(s, k)[i] ELSE UnitsFrom(s, k)[i + 1]
  BY <1>2, WithoutProperties
<1>5. ASSUME NEW i \in 1..(Len(s) - 1) PROVE UnitsFrom(Without(s, m), k)[i] = v[i]
  <2>1. i \in 1..Len(s) /\ i + 1 \in 1..Len(s)
    BY <1>2
  <2>2. UnitsFrom(Without(s, m), k)[i] = LoadFrom(Without(s, m)[i], k)
    BY <1>1 DEF UnitsFrom, LoadFrom
  <2>3. UnitsFrom(s, k)[i] = LoadFrom(s[i], k) /\ UnitsFrom(s, k)[i + 1] = LoadFrom(s[i + 1], k)
    BY <2>1 DEF UnitsFrom, LoadFrom
  <2>4. QED
    BY <2>2, <2>3, <1>1, <1>4
<1> HIDE DEF v
<1>6. UnitsFrom(Without(s, m), k) = v
  BY <1>3, <1>4, <1>5, SeqEqual
<1>7. Total(v) = Total(UnitsFrom(s, k)) - UnitsFrom(s, k)[m]
  BY <1>2, TotalWithout DEF v
<1>8. UnitsFrom(s, k)[m] = LoadFrom(s[m], k)
  BY DEF UnitsFrom, LoadFrom
<1>9. QED
  BY <1>6, <1>7, <1>8 DEF InReturn

-------------------------------------------------------------------------------
(* Sequences of packets: one more, one less. *)

LEMMA AssumeTypes ==
    /\ MaxStreams \in Nat \ {0} /\ ExecLen \in Nat \ {0} /\ MaxOut \in Nat
    /\ GuestBuf \in Nat \ {0} /\ GuestBuf < Modulus /\ HostBuf \in Nat \ {0} /\ HostBuf < Modulus
    /\ RxBufs \in Nat \ {0} /\ UdsCap \in Nat \ {0} /\ PipeCap \in Nat \ {0}
    /\ Modulus \in Nat
BY GuestExecAssumption

(* s2 is s and p behind it, or that with an older packet lost. *)
Pushed(s, s2, p) == s2 = Append(s, p) \/ \E m \in 1..Len(s) : s2 = Append(Without(s, m), p)

LEMMA AppendFacts ==
    ASSUME NEW S, NEW s \in Seq(S), NEW p \in S
    PROVE  /\ Append(s, p) \in Seq(S) /\ Len(s) \in Nat /\ Len(Append(s, p)) = Len(s) + 1
           /\ Append(s, p)[Len(s) + 1] = p
           /\ \A i \in 1..Len(s) : Append(s, p)[i] = s[i]
           /\ \A i \in 1..Len(Append(s, p)) : i \in 1..Len(s) \/ i = Len(s) + 1
BY AppendProperties

(* The packets for k in v are among the ones in s, in their order. *)
Among(v, s, k, h) ==
    /\ \A i \in 1..Len(v) : v[i].port = k => h[i] \in 1..Len(s) /\ v[i] = s[h[i]]
    /\ \A i1, i2 \in 1..Len(v) : i1 < i2 /\ v[i1].port = k /\ v[i2].port = k => h[i1] < h[i2]
Fewer(v, s, k) == (\E h : Among(v, s, k, h)) /\ InFlight(v, k) <= InFlight(s, k)
Alike(v, s, k) ==
    /\ \E h : /\ Among(v, s, k, h)
              /\ \A m \in 1..Len(s) : s[m].port = k => \E i \in 1..Len(v) : h[i] = m /\ v[i].port = k
    /\ InReturn(v, k) = InReturn(s, k)

LEMMA WithoutAmong ==
    ASSUME NEW S, NEW s \in Seq(S), NEW m \in 1..Len(s), NEW k
    PROVE  Among(Without(s, m), s, k, [i \in 1..(Len(s) - 1) |-> IF i < m THEN i ELSE i + 1])
<1> DEFINE v == Without(s, m)
           n == Len(s)
           h == [i \in 1..(n - 1) |-> IF i < m THEN i ELSE i + 1]
<1>1. /\ Len(v) = n - 1 /\ n \in Nat
      /\ \A i \in 1..(n - 1) : v[i] = IF i < m THEN s[i] ELSE s[i + 1]
  BY WithoutProperties
<1> HIDE DEF v, n
<1>2. ASSUME NEW i \in 1..(n - 1) PROVE h[i] \in 1..n /\ v[i] = s[h[i]]
  BY <1>1
<1>3. ASSUME NEW i1 \in 1..(n - 1), NEW i2 \in 1..(n - 1), i1 < i2 PROVE h[i1] < h[i2]
  BY <1>1, <1>3
<1> HIDE DEF h
<1>4. Among(v, s, k, h)
  BY <1>1, <1>2, <1>3 DEF Among, n
<1>5. QED
  BY <1>4 DEF v, n, h

LEMMA AppendAmong ==
    ASSUME NEW S, NEW s \in Seq(S), NEW p \in S, NEW k, p.port # k
    PROVE  Among(Append(s, p), s, k, [i \in 1..(Len(s) + 1) |-> i])
<1> DEFINE v == Append(s, p)
           h == [i \in 1..(Len(s) + 1) |-> i]
<1>1. /\ Len(s) \in Nat /\ Len(v) = Len(s) + 1 /\ v[Len(s) + 1] = p
      /\ \A i \in 1..Len(s) : v[i] = s[i]
      /\ \A i \in 1..Len(v) : i \in 1..Len(s) \/ i = Len(s) + 1
  BY AppendFacts
<1> HIDE DEF v
<1>2. ASSUME NEW i \in 1..Len(v), v[i].port = k PROVE h[i] \in 1..Len(s) /\ v[i] = s[h[i]]
  BY <1>1, <1>2
<1>3. ASSUME NEW i1 \in 1..Len(v), NEW i2 \in 1..Len(v), i1 < i2 PROVE h[i1] < h[i2]
  BY <1>1, <1>3
<1> HIDE DEF h
<1>4. Among(v, s, k, h)
  BY <1>2, <1>3 DEF Among
<1>5. QED
  BY <1>4 DEF v, h

LEMMA CountsAmong ==
    ASSUME NEW v, NEW s, NEW k, NEW h, NEW y, NEW lo, NEW hi,
           Among(v, s, k, h), Counts(s, k, y, lo, hi)
    PROVE  Counts(v, k, y, lo, hi)
<1>1. ASSUME NEW i \in 1..Len(v), v[i].port = k
      PROVE  Behind(v[i].fwd, y) \in Behind(hi, y)..Behind(lo, y)
  BY <1>1 DEF Among, Counts
<1>2. ASSUME NEW i1 \in 1..Len(v), NEW i2 \in 1..Len(v), i1 < i2, v[i1].port = k, v[i2].port = k
      PROVE  Behind(v[i2].fwd, y) <= Behind(v[i1].fwd, y)
  <2>1. /\ h[i1] \in 1..Len(s) /\ h[i2] \in 1..Len(s) /\ h[i1] < h[i2]
        /\ v[i1] = s[h[i1]] /\ v[i2] = s[h[i2]]
    BY <1>2 DEF Among
  <2>2. QED
    BY <1>2, <2>1 DEF Counts
<1>3. QED
  BY <1>1, <1>2 DEF Counts

LEMMA CountsAppend ==
    ASSUME NEW S, NEW s \in Seq(S), NEW p \in S, NEW k, NEW y \in Int, NEW lo \in Int, NEW hi \in Int,
           p.port = k, p.fwd = hi, Behind(hi, y) <= Behind(lo, y), Counts(s, k, y, lo, hi)
    PROVE  Counts(Append(s, p), k, y, lo, hi)
<1> DEFINE v == Append(s, p)
           n == Len(s)
<1>1. /\ n \in Nat /\ Len(v) = n + 1 /\ v[n + 1] = p
      /\ \A i \in 1..n : v[i] = s[i]
      /\ \A i \in 1..Len(v) : i \in 1..n \/ i = n + 1
  BY AppendFacts
<1>2. Behind(hi, y) \in Int /\ Behind(lo, y) \in Int
  BY BehindInt
<1> HIDE DEF v, n
<1>3. \A i \in 1..n : s[i].port = k => Behind(s[i].fwd, y) \in Behind(hi, y)..Behind(lo, y)
  BY DEF Counts, n
<1>4. \A i1, i2 \in 1..n : i1 < i2 /\ s[i1].port = k /\ s[i2].port = k =>
          Behind(s[i2].fwd, y) <= Behind(s[i1].fwd, y)
  BY DEF Counts, n
<1>5. ASSUME NEW i \in 1..Len(v), v[i].port = k
      PROVE  Behind(v[i].fwd, y) \in Behind(hi, y)..Behind(lo, y)
  BY <1>1, <1>2, <1>3, <1>5
<1>6. ASSUME NEW i1 \in 1..Len(v), NEW i2 \in 1..Len(v), i1 < i2, v[i1].port = k, v[i2].port = k
      PROVE  Behind(v[i2].fwd, y) <= Behind(v[i1].fwd, y)
  <2>1. i1 \in 1..n
    BY <1>1, <1>6
  <2>2. CASE i2 \in 1..n
    BY <1>1, <1>4, <1>6, <2>1, <2>2
  <2>3. CASE i2 = n + 1
    BY <1>1, <1>2, <1>3, <1>6, <2>1, <2>3
  <2>4. QED
    BY <1>1, <2>2, <2>3
<1>7. QED
  BY <1>5, <1>6 DEF Counts, v

(* The first packet is taken: its count is the one that is known. *)
LEMMA CountsTaken ==
    ASSUME NEW S, NEW s \in Seq(S), s # <<>>, NEW k, NEW y, NEW lo, NEW hi,
           s[1].port = k, s[1].fwd \in Int, y \in Int, Counts(s, k, y, lo, hi)
    PROVE  Counts(Without(s, 1), k, y, s[1].fwd, hi)
<1> DEFINE v == Without(s, 1)
           n == Len(s)
<1>1. 1 \in 1..n
  BY EmptySeq
<1>2. /\ Len(v) = n - 1 /\ n \in Nat /\ \A i \in 1..(n - 1) : v[i] = s[i + 1]
  BY <1>1, WithoutProperties
<1>3. Counts(v, k, y, lo, hi)
  BY <1>1, WithoutAmong, CountsAmong
<1> HIDE DEF v, n
<1>4. ASSUME NEW i \in 1..Len(v), v[i].port = k
      PROVE  Behind(v[i].fwd, y) \in Behind(hi, y)..Behind(s[1].fwd, y)
  <2>1. i + 1 \in 1..n /\ 1 < i + 1 /\ v[i] = s[i + 1]
    BY <1>2
  <2>2. Behind(v[i].fwd, y) <= Behind(s[1].fwd, y)
    BY <1>1, <1>4, <2>1 DEF Counts, n
  <2>3. Behind(v[i].fwd, y) \in Behind(hi, y)..Behind(lo, y)
    BY <1>3, <1>4 DEF Counts
  <2>4. Behind(s[1].fwd, y) \in Int
    BY BehindInt
  <2>5. QED
    BY <2>2, <2>3, <2>4
<1>5. QED
  BY <1>3, <1>4 DEF Counts, v

(* The counter ahead moves on. *)
LEMMA CountsAhead ==
    ASSUME NEW S, NEW s \in Seq(S), NEW k, NEW y \in Int, NEW lo \in Int, NEW hi \in Int, NEW n \in Nat,
           \A i \in 1..Len(s) : s[i].fwd \in Int,
           Behind(lo, y) + n < Modulus, Behind(hi, y) <= Behind(lo, y), Counts(s, k, y, lo, hi)
    PROVE  Counts(s, k, Wrap(y + n), lo, hi)
<1>0. Behind(lo, y) \in Int /\ Behind(hi, y) \in Int /\ Modulus \in Int
  BY BehindInt, AssumeTypes
<1>1. Behind(hi, y) + n < Modulus
  BY <1>0
<1>2. /\ Behind(lo, Wrap(y + n)) = Behind(lo, y) + n
      /\ Behind(hi, Wrap(y + n)) = Behind(hi, y) + n
  BY <1>1, BehindMore
<1>3. ASSUME NEW i \in 1..Len(s), s[i].port = k
      PROVE  /\ Behind(s[i].fwd, y) \in Behind(hi, y)..Behind(lo, y)
             /\ Behind(s[i].fwd, Wrap(y + n)) = Behind(s[i].fwd, y) + n
  <2>1. Behind(s[i].fwd, y) \in Behind(hi, y)..Behind(lo, y)
    BY <1>3 DEF Counts
  <2>2. Behind(s[i].fwd, y) + n < Modulus
    BY <2>1, <1>0
  <2>3. QED
    BY <2>1, <2>2, BehindMore
<1>4. ASSUME NEW i1 \in 1..Len(s), NEW i2 \in 1..Len(s), i1 < i2, s[i1].port = k, s[i2].port = k
      PROVE  Behind(s[i2].fwd, Wrap(y + n)) <= Behind(s[i1].fwd, Wrap(y + n))
  <2>1. Behind(s[i2].fwd, y) <= Behind(s[i1].fwd, y)
    BY <1>4 DEF Counts
  <2>2. QED
    BY <1>0, <1>3, <1>4, <2>1, SMTT(40)
<1>5. ASSUME NEW i \in 1..Len(s), s[i].port = k
      PROVE  Behind(s[i].fwd, Wrap(y + n)) \in Behind(hi, Wrap(y + n))..Behind(lo, Wrap(y + n))
  BY <1>0, <1>2, <1>3, <1>5
<1>6. QED
  BY <1>4, <1>5 DEF Counts

(* The newest count moves towards the counter ahead. *)
LEMMA CountsCloser ==
    ASSUME NEW s, NEW k, NEW y \in Int, NEW lo \in Int, NEW hi \in Int, NEW hi2 \in Int,
           Behind(hi2, y) <= Behind(hi, y), Counts(s, k, y, lo, hi)
    PROVE  Counts(s, k, y, lo, hi2)
<1>1. Behind(lo, y) \in Int /\ Behind(hi, y) \in Int /\ Behind(hi2, y) \in Int
  BY BehindInt
<1>2. ASSUME NEW i \in 1..Len(s), s[i].port = k
      PROVE  Behind(s[i].fwd, y) \in Behind(hi2, y)..Behind(lo, y)
  <2>1. Behind(s[i].fwd, y) \in Behind(hi, y)..Behind(lo, y)
    BY <1>2 DEF Counts
  <2>2. QED
    BY <1>1, <2>1
<1>3. QED
  BY <1>2 DEF Counts

(* Losing any packet of the wire, and packets of other streams. *)
LEMMA FewerWithout ==
    ASSUME NEW s \in Seq(RxPackets), NEW m \in 1..Len(s), NEW k
    PROVE  Fewer(Without(s, m), s, k) /\ Without(s, m) \in Seq(RxPackets)
<1>1. \E h : Among(Without(s, m), s, k, h)
  BY WithoutAmong
<1>2. LoadTo(s[m], k) \in Nat
  <2>1. s[m] \in RxPackets
    BY ElementOfSeq
  <2>2. QED
    BY <2>1, AssumeTypes DEF LoadTo, RxPackets
<1>3. InFlight(Without(s, m), k) <= InFlight(s, k)
  BY <1>2, InFlightWithout, InFlightType
<1>4. QED
  BY <1>1, <1>3, WithoutProperties DEF Fewer

LEMMA FewerForeign ==
    ASSUME NEW s \in Seq(RxPackets), NEW p \in RxPackets, NEW k, p.port # k
    PROVE  Fewer(Append(s, p), s, k) /\ Append(s, p) \in Seq(RxPackets)
<1>1. \E h : Among(Append(s, p), s, k, h)
  BY AppendAmong
<1>2. LoadTo(p, k) = 0
  BY DEF LoadTo, Carries
<1>3. InFlight(Append(s, p), k) <= InFlight(s, k)
  BY <1>2, InFlightAppend, InFlightType
<1>4. QED
  BY <1>1, <1>3, AppendProperties DEF Fewer

LEMMA AlikeAppend ==
    ASSUME NEW s \in Seq(TxPackets), NEW p \in TxPackets, NEW k, p.port # k
    PROVE  Alike(Append(s, p), s, k) /\ Append(s, p) \in Seq(TxPackets)
<1> DEFINE v == Append(s, p)
           h == [i \in 1..(Len(s) + 1) |-> i]
<1>1. Among(v, s, k, h)
  BY AppendAmong
<1>2. /\ Len(s) \in Nat /\ Len(v) = Len(s) + 1 /\ v \in Seq(TxPackets)
      /\ \A i \in 1..Len(s) : v[i] = s[i]
  BY AppendFacts
<1>3. LoadFrom(p, k) = 0
  BY DEF LoadFrom, Carries
<1>4. InReturn(v, k) = InReturn(s, k)
  BY <1>3, InReturnAppend, InReturnType
<1> HIDE DEF v
<1>5. ASSUME NEW m \in 1..Len(s), s[m].port = k
      PROVE  \E i \in 1..Len(v) : h[i] = m /\ v[i].port = k
  <2>1. m \in 1..Len(v) /\ h[m] = m /\ v[m].port = k
    BY <1>2, <1>5
  <2>2. QED
    BY <2>1
<1> HIDE DEF h
<1>6. Alike(v, s, k)
  BY <1>1, <1>4, <1>5 DEF Alike
<1>7. QED
  BY <1>2, <1>6 DEF v

LEMMA AlikeTail ==
    ASSUME NEW s \in Seq(TxPackets), s # <<>>, NEW k, s[1].port # k
    PROVE  Alike(Without(s, 1), s, k) /\ Without(s, 1) \in Seq(TxPackets)
<1> DEFINE v == Without(s, 1)
           h == [i \in 1..(Len(s) - 1) |-> IF i < 1 THEN i ELSE i + 1]
<1>0. 1 \in 1..Len(s)
  BY EmptySeq
<1>1. Among(v, s, k, h)
  BY <1>0, WithoutAmong
<1>2. /\ Len(s) \in Nat /\ Len(v) = Len(s) - 1 /\ v \in Seq(TxPackets)
      /\ \A i \in 1..(Len(s) - 1) : v[i] = s[i + 1]
  BY <1>0, WithoutProperties
<1>3. LoadFrom(s[1], k) = 0
  BY DEF LoadFrom, Carries
<1>4. InReturn(v, k) = InReturn(s, k)
  BY <1>0, <1>3, InReturnWithout, InReturnType
<1> HIDE DEF v
<1>5. ASSUME NEW m \in 1..Len(s), s[m].port = k
      PROVE  \E i \in 1..Len(v) : h[i] = m /\ v[i].port = k
  <2>1. m # 1
    BY <1>5
  <2>2. m - 1 \in 1..Len(v) /\ h[m - 1] = m /\ v[m - 1].port = k
    BY <1>2, <1>5, <2>1
  <2>3. QED
    BY <2>2
<1> HIDE DEF h
<1>6. Alike(v, s, k)
  BY <1>1, <1>4, <1>5 DEF Alike
<1>7. QED
  BY <1>2, <1>6 DEF v

-------------------------------------------------------------------------------
(* A stream's invariant looks at its own packets only, and survives the     *)
(* loss of packets on their way to the guest.                               *)

LEMMA ConnInts ==
    ASSUME NEW cn \in ConnT
    PROVE  /\ cn.fwd \in Int /\ cn.tx \in Int /\ cn.rxfwd \in Int /\ cn.alloc \in Int
           /\ cn.buf \in Seq(Frames) /\ Len(cn.buf) \in Nat
BY AssumeTypes DEF ConnT

LEMMA SockInts ==
    ASSUME NEW sk \in SockT
    PROVE  sk.fwd \in Int /\ sk.tx \in Int /\ sk.pfwd \in Int /\ sk.rbuf \in Nat
BY AssumeTypes DEF SockT

LEMMA StreamFewer ==
    ASSUME NEW k, NEW cn \in ConnT, NEW u, NEW dn, NEW s \in Seq(RxPackets), NEW t, NEW sk \in SockT, NEW j \in JobT,
           NEW v \in Seq(RxPackets), Fewer(v, s, k), u \in LineT,
           StreamInv(k, cn, u, dn, s, t, sk, j)
    PROVE  StreamInv(k, cn, u, dn, v, t, sk, j)
<1>1. PICK h : Among(v, s, k, h)
  BY DEF Fewer
<1>2. InFlight(v, k) <= InFlight(s, k) /\ InFlight(v, k) \in Nat /\ InFlight(s, k) \in Nat
  BY InFlightType DEF Fewer
<1>3. \A i \in 1..Len(v) : v[i].port = k => h[i] \in 1..Len(s) /\ v[i] = s[h[i]]
  BY <1>1 DEF Among
<1>4. ASSUME NEW i1 \in 1..Len(v), NEW i2 \in 1..Len(v), v[i1].port = k, v[i2].port = k, h[i1] = h[i2]
      PROVE  i1 = i2
  <2>1. h[i1] \in Int /\ h[i2] \in Int
    BY <1>3, <1>4
  <2>2. ~(i1 < i2) /\ ~(i2 < i1)
    BY <1>1, <1>4, <2>1 DEF Among
  <2>3. QED
    BY <2>2
<1>5. Unopened(k, cn, u, dn, s, t, sk, j) => Unopened(k, cn, u, dn, v, t, sk, j)
  BY <1>3 DEF Unopened, Silent
<1>6. ASSUME Opening(k, cn, u, dn, s, t, sk, j) PROVE Opening(k, cn, u, dn, v, t, sk, j)
  <2>1. \A i \in 1..Len(v) : v[i].port = k => v[i].op = "REQUEST" /\ sk.st = "none" /\ Silent(t, k)
    BY <1>3, <1>6 DEF Opening
  <2>2. \A i1, i2 \in 1..Len(v) : v[i1].port = k /\ v[i2].port = k => i1 = i2
    BY <1>3, <1>4, <1>6 DEF Opening
  <2>3. QED
    BY <1>6, <2>1, <2>2 DEF Opening
<1>7. ASSUME Opened(k, cn, u, dn, s, t, sk, j) PROVE Opened(k, cn, u, dn, v, t, sk, j)
  <2>1. sk.rbuf \in Nat
    BY AssumeTypes DEF SockT
  <2>2. GuestCredit(k, cn, s, t, sk) => GuestCredit(k, cn, v, t, sk)
    <3> DEFINE b == Behind(sk.fwd, cn.tx)
    <3>1. SUFFICES ASSUME sk.rbuf + InFlight(s, k) <= b, b <= Behind(cn.fwd, cn.tx), Behind(cn.fwd, cn.tx) <= GuestBuf
                   PROVE  sk.rbuf + InFlight(v, k) <= b
      BY DEF GuestCredit
    <3>2. b \in Int
      BY ConnInts, SockInts, BehindInt
    <3>3. QED
      BY <3>1, <3>2, <2>1, <1>2
  <2>3. HostCredit(k, cn, s, t, sk) => HostCredit(k, cn, v, t, sk)
    BY <1>1, CountsAmong DEF HostCredit
  <2>4. QED
    BY <1>3, <1>7, <2>2, <2>3 DEF Opened
<1>8. Dropped(k, s) => Dropped(k, v)
  BY <1>3 DEF Dropped
<1>9. Counted(k, u, s, sk, j) => Counted(k, u, v, sk, j)
  <2>1. sk.rbuf \in Nat /\ Spent(j) \in Nat /\ Len(u) \in Nat
    BY AssumeTypes DEF SockT, JobT, Spent, LineT
  <2>2. QED
    BY <2>1, <1>2, AssumeTypes DEF Counted
<1>10. sk.rbuf + InFlight(s, k) <= GuestBuf => sk.rbuf + InFlight(v, k) <= GuestBuf
  BY <1>2, AssumeTypes DEF SockT
<1>11. QED
  BY <1>5, <1>6, <1>7, <1>8, <1>9, <1>10 DEF StreamInv

LEMMA ShakingFewer ==
    ASSUME NEW k, NEW cn, NEW u, NEW dn, NEW s \in Seq(RxPackets), NEW t, NEW sk \in SockT, NEW j,
           NEW v \in Seq(RxPackets), Fewer(v, s, k), Shaking(k, cn, u, dn, s, t, sk, j)
    PROVE  Shaking(k, cn, u, dn, v, t, sk, j)
<1>1. InFlight(v, k) <= InFlight(s, k) /\ InFlight(v, k) \in Nat /\ InFlight(s, k) \in Nat
  BY InFlightType DEF Fewer
<1>2. sk.rbuf + InFlight(s, k) = 0 => sk.rbuf + InFlight(v, k) = 0
  BY <1>1, AssumeTypes DEF SockT
<1>3. QED
  BY <1>2 DEF Shaking

LEMMA LocalFewer ==
    ASSUME NEW k, NEW cn \in ConnT, NEW u \in LineT, NEW dn, NEW s \in Seq(RxPackets), NEW t, NEW sk \in SockT,
           NEW j \in JobT, NEW v \in Seq(RxPackets), Fewer(v, s, k),
           LocalInv(k, cn, u, dn, s, t, sk, j)
    PROVE  LocalInv(k, cn, u, dn, v, t, sk, j)
BY StreamFewer, ShakingFewer DEF LocalInv, OwnerInv

LEMMA StreamAlike ==
    ASSUME NEW k, NEW cn, NEW u, NEW dn, NEW s, NEW t, NEW sk, NEW j, NEW v, Alike(v, t, k),
           StreamInv(k, cn, u, dn, s, t, sk, j)
    PROVE  StreamInv(k, cn, u, dn, s, v, sk, j)
<1>1. PICK h : Among(v, t, k, h)
  BY DEF Alike
<1>2. InReturn(v, k) = InReturn(t, k)
  BY DEF Alike
<1>3. \A i \in 1..Len(v) : v[i].port = k => h[i] \in 1..Len(t) /\ v[i] = t[h[i]]
  BY <1>1 DEF Among
<1>4. ASSUME NEW i1 \in 1..Len(v), NEW i2 \in 1..Len(v), v[i1].port = k, v[i2].port = k, h[i1] = h[i2]
      PROVE  i1 = i2
  <2>1. h[i1] \in Int /\ h[i2] \in Int
    BY <1>3, <1>4
  <2>2. ~(i1 < i2) /\ ~(i2 < i1)
    BY <1>1, <1>4, <2>1 DEF Among
  <2>3. QED
    BY <2>2
<1>5. Silent(t, k) => Silent(v, k)
  BY <1>3 DEF Silent
<1>6. Unopened(k, cn, u, dn, s, t, sk, j) => Unopened(k, cn, u, dn, s, v, sk, j)
  BY <1>5 DEF Unopened
<1>7. ASSUME Opening(k, cn, u, dn, s, t, sk, j) PROVE Opening(k, cn, u, dn, s, v, sk, j)
  <2>1. \A i \in 1..Len(v) : v[i].port = k =>
            /\ v[i].op \in {"RESPONSE", "RST"} /\ v[i].fwd = 0
            /\ v[i].op = "RESPONSE" <=> sk.st # "none"
    BY <1>3, <1>7 DEF Opening
  <2>2. \A i1, i2 \in 1..Len(v) : v[i1].port = k /\ v[i2].port = k => i1 = i2
    BY <1>3, <1>4, <1>7 DEF Opening
  <2>3. QED
    BY <1>5, <1>7, <2>1, <2>2 DEF Opening
<1>8. ASSUME Opened(k, cn, u, dn, s, t, sk, j) PROVE Opened(k, cn, u, dn, s, v, sk, j)
  <2>1. GuestCredit(k, cn, s, t, sk) => GuestCredit(k, cn, s, v, sk)
    BY <1>1, CountsAmong DEF GuestCredit
  <2>2. HostCredit(k, cn, s, t, sk) => HostCredit(k, cn, s, v, sk)
    BY <1>2 DEF HostCredit
  <2>3. QED
    BY <1>3, <1>8, <2>1, <2>2 DEF Opened
<1>9. QED
  BY <1>6, <1>7, <1>8 DEF StreamInv

LEMMA OwnerAlike ==
    ASSUME NEW k, NEW cn, NEW u, NEW dn, NEW s, NEW t, NEW sk, NEW j, NEW v, Alike(v, t, k),
           NEW c, OwnerInv(c, k, cn, u, dn, s, t, sk, j)
    PROVE  OwnerInv(c, k, cn, u, dn, s, v, sk, j)
<1>1. PICK h : /\ Among(v, t, k, h)
               /\ \A m \in 1..Len(t) : t[m].port = k => \E i \in 1..Len(v) : h[i] = m /\ v[i].port = k
  BY DEF Alike
<1>2. \A i \in 1..Len(v) : v[i].port = k => h[i] \in 1..Len(t) /\ v[i] = t[h[i]]
  BY <1>1 DEF Among
<1>3. Shaking(k, cn, u, dn, s, t, sk, j) => Shaking(k, cn, u, dn, s, v, sk, j)
  BY <1>2 DEF Shaking, Carries
<1>4. ASSUME NEW b, InTx(b, k, t, j) PROVE InTx(b, k, v, j)
  <2>1. ASSUME NEW i \in 1..Len(v), Carries(v[i], k)
        PROVE  \E m \in (b + 1)..Sent(j) : Nth(j, v[i].body[1], m)
    BY <1>2, <1>4, <2>1 DEF InTx, Carries
  <2>2. ASSUME NEW i1 \in 1..Len(v), NEW i2 \in 1..Len(v), i1 < i2, Carries(v[i1], k), Carries(v[i2], k),
               NEW m1 \in Nat, NEW m2 \in Nat, Nth(j, v[i1].body[1], m1), Nth(j, v[i2].body[1], m2)
        PROVE  m1 < m2
    <3>1. /\ h[i1] \in 1..Len(t) /\ h[i2] \in 1..Len(t) /\ h[i1] < h[i2]
          /\ v[i1] = t[h[i1]] /\ v[i2] = t[h[i2]]
      BY <1>1, <1>2, <2>2 DEF Among, Carries
    <3>2. QED
      BY <1>4, <2>2, <3>1 DEF InTx
  <2>3. ASSUME NEW m \in (b + 1)..Sent(j)
        PROVE  \E i \in 1..Len(v) : Carries(v[i], k) /\ Nth(j, v[i].body[1], m)
    <3>1. PICK i0 \in 1..Len(t) : Carries(t[i0], k) /\ Nth(j, t[i0].body[1], m)
      BY <1>4 DEF InTx
    <3>2. PICK i \in 1..Len(v) : h[i] = i0 /\ v[i].port = k
      BY <1>1, <3>1 DEF Carries
    <3>3. QED
      BY <1>2, <3>1, <3>2
  <2>4. QED
    BY <1>4, <2>1, <2>2, <2>3 DEF InTx
<1>5. QED
  BY <1>3, <1>4 DEF OwnerInv, Commanding

LEMMA LocalAlike ==
    ASSUME NEW k, NEW cn, NEW u, NEW dn, NEW s, NEW t, NEW sk, NEW j, NEW v, Alike(v, t, k),
           LocalInv(k, cn, u, dn, s, t, sk, j)
    PROVE  LocalInv(k, cn, u, dn, s, v, sk, j)
BY StreamAlike, OwnerAlike DEF LocalInv

-------------------------------------------------------------------------------
(* The worker's methods work on a part of the state. *)

DT == [conn : [Streams -> ConnT], up : [Streams -> LineT], down : [Streams -> Seq(Frames)],
       backlog : Seq(RxPackets), rx : Seq(RxPackets), room : 0..RxBufs, dirty : BOOLEAN]
WType(d) ==
    /\ d \in DT /\ Len(d.backlog) <= scene.backlog /\ Len(d.rx) + d.room = RxBufs
    /\ \A i \in 1..Len(Wire(d)) : RxShape(Wire(d)[i])
WInv(d, t) ==
    /\ WType(d) /\ AliveInv(d, t)
    /\ \A k \in Streams : d.conn[k].st = "none" <=> conn[k].st = "none"

LEMMA ConcatAppend ==
    ASSUME NEW S, NEW s \in Seq(S), NEW b \in Seq(S), NEW p \in S
    PROVE  s \o Append(b, p) = Append(s \o b, p)
<1>1. Append(b, p) = b \o <<p>> /\ Append(s \o b, p) = (s \o b) \o <<p>> /\ <<p>> \in Seq(S)
  BY AppendIsConcat, ConcatProperties
<1>2. QED
  BY <1>1, ConcatAssociative

LEMMA ConcatTail ==
    ASSUME NEW S, NEW s \in Seq(S), NEW b \in Seq(S), b # <<>>
    PROVE  Len(s) + 1 \in 1..Len(s \o b) /\ s \o Tail(b) = Without(s \o b, Len(s) + 1)
<1> DEFINE w == s \o b
           v == s \o Tail(b)
           n == Len(s)
           m == Len(b)
<1>1. n \in Nat /\ m \in Nat /\ m > 0
  BY EmptySeq, LenProperties
<1>2. Tail(b) \in Seq(S) /\ Len(Tail(b)) = m - 1 /\ \A i \in 1..(m - 1) : Tail(b)[i] = b[i + 1]
  BY HeadTailProperties
<1>3. /\ w \in Seq(S) /\ Len(w) = n + m
      /\ \A i \in 1..(n + m) : w[i] = IF i <= n THEN s[i] ELSE b[i - n]
  BY ConcatProperties
<1>4. /\ v \in Seq(S) /\ Len(v) = n + (m - 1)
      /\ \A i \in 1..(n + (m - 1)) : v[i] = IF i <= n THEN s[i] ELSE Tail(b)[i - n]
  BY <1>2, ConcatProperties
<1> HIDE DEF w, v, n, m
<1>5. n + 1 \in 1..Len(w)
  BY <1>1, <1>3
<1>6. /\ Without(w, n + 1) \in Seq(S) /\ Len(Without(w, n + 1)) = n + m - 1
      /\ \A i \in 1..(n + m - 1) : Without(w, n + 1)[i] = IF i < n + 1 THEN w[i] ELSE w[i + 1]
  <2>1. /\ Without(w, n + 1) \in Seq(S) /\ Len(Without(w, n + 1)) = Len(w) - 1
        /\ \A i \in 1..(Len(w) - 1) : Without(w, n + 1)[i] = IF i < n + 1 THEN w[i] ELSE w[i + 1]
    BY <1>3, <1>5, WithoutProperties
  <2>2. Len(w) - 1 = n + m - 1
    BY <1>1, <1>3
  <2>3. QED
    BY <2>1, <2>2
<1>7. ASSUME NEW i \in 1..Len(v) PROVE v[i] = Without(w, n + 1)[i]
  <2>1. i \in 1..(n + m - 1) /\ i \in 1..(n + (m - 1)) /\ i \in 1..(n + m) /\ i + 1 \in 1..(n + m)
    BY <1>1, <1>4
  <2>2. CASE i <= n
    BY <1>1, <1>3, <1>4, <1>6, <2>1, <2>2
  <2>3. CASE ~(i <= n)
    <3>0. i - n \in 1..(m - 1)
      BY <1>1, <2>1, <2>3
    <3>1. v[i] = Tail(b)[i - n]
      BY <1>4, <2>1, <2>3
    <3>2. Without(w, n + 1)[i] = w[i + 1] /\ w[i + 1] = b[(i + 1) - n]
      BY <1>1, <1>3, <1>6, <2>1, <2>3
    <3>3. Tail(b)[i - n] = b[(i - n) + 1] /\ (i - n) + 1 = (i + 1) - n
      BY <1>1, <1>2, <3>0, <2>1
    <3>4. QED
      BY <3>1, <3>2, <3>3
  <2>4. QED
    BY <2>2, <2>3
<1>8. Len(v) = Len(Without(w, n + 1))
  BY <1>1, <1>4, <1>6
<1>9. v = Without(w, n + 1)
  BY <1>4, <1>6, <1>7, <1>8, SeqEqual
<1>10. QED
  BY <1>5, <1>9 DEF w, v, n

LEMMA WireType ==
    ASSUME NEW d \in DT
    PROVE  /\ d.rx \in Seq(RxPackets) /\ d.backlog \in Seq(RxPackets) /\ Wire(d) \in Seq(RxPackets)
           /\ Len(d.rx) \in Nat /\ Len(d.backlog) \in Nat /\ d.room \in Nat
           /\ d.conn \in [Streams -> ConnT] /\ d.up \in [Streams -> LineT]
           /\ d.down \in [Streams -> Seq(Frames)]
<1>1. d.rx \in Seq(RxPackets) /\ d.backlog \in Seq(RxPackets)
  BY DEF DT
<1>2. QED
  BY <1>1, ConcatProperties, LenProperties, AssumeTypes DEF DT, Wire

(* A packet pushed to the guest is behind all others, of which at most one  *)
(* is lost.                                                                 *)
LEMMA PushEffect ==
    ASSUME NEW d, WType(d), NEW p \in RxPackets, RxShape(p), scene.backlog \in Nat \ {0}
    PROVE  /\ WType(push_to_guest(d, p)) /\ push_to_guest(d, p).conn = d.conn
           /\ push_to_guest(d, p).up = d.up /\ push_to_guest(d, p).down = d.down
           /\ Pushed(Wire(d), Wire(push_to_guest(d, p)), p)
<1> DEFINE e == push_to_guest(d, p)
           S == RxPackets
<1>1. d \in DT /\ Len(d.backlog) <= scene.backlog /\ Len(d.rx) + d.room = RxBufs
  BY DEF WType
<1>2. /\ d.rx \in Seq(S) /\ d.backlog \in Seq(S) /\ Wire(d) \in Seq(S)
      /\ Len(d.rx) \in Nat /\ Len(d.backlog) \in Nat /\ d.room \in Nat
  BY <1>1, WireType
<1>3. /\ e.conn = d.conn /\ e.up = d.up /\ e.down = d.down
  BY <1>1 DEF push_to_guest, enqueue_backlog, write_rx, DT
<1>4. /\ e \in DT /\ Len(e.backlog) <= scene.backlog /\ Len(e.rx) + e.room = RxBufs
      /\ Pushed(Wire(d), Wire(e), p)
  <2>1. CASE ~(d.backlog # <<>> \/ d.room = 0)
    <3>1. e = [d EXCEPT !.rx = Append(@, p), !.room = @ - 1, !.dirty = TRUE]
      BY <2>1 DEF push_to_guest, write_rx
    <3>2. /\ e.rx = Append(d.rx, p) /\ e.backlog = <<>> /\ e.room = d.room - 1
          /\ e.backlog = d.backlog
      BY <1>1, <2>1, <3>1 DEF DT
    <3>3. Append(d.rx, p) \in Seq(S) /\ Len(Append(d.rx, p)) = Len(d.rx) + 1
      BY <1>2, AppendProperties
    <3>4. d.room - 1 \in 0..RxBufs
      BY <1>1, <1>2, <2>1, AssumeTypes DEF DT
    <3>5. e \in DT
      BY <1>1, <3>1, <3>3, <3>4 DEF DT
    <3>6. Wire(e) = Append(d.rx, p) /\ Wire(d) = d.rx
      BY <1>2, <3>2, <3>3, <2>1, ConcatEmptySeq DEF Wire
    <3>7. Len(e.rx) + e.room = RxBufs /\ Len(e.backlog) <= scene.backlog
      <4> DEFINE n == Len(d.rx)
      <4>1. Len(e.rx) = n + 1 /\ e.room = d.room - 1 /\ n + d.room = RxBufs
        BY <1>1, <3>2, <3>3
      <4>2. n \in Nat /\ d.room \in Nat /\ RxBufs \in Nat
        BY <1>2, AssumeTypes
      <4> HIDE DEF n, e
      <4>3. Len(e.rx) + e.room = RxBufs
        BY <4>1, <4>2
      <4>4. QED
        BY <4>3, <1>1, <3>2
    <3>8. QED
      BY <3>5, <3>6, <3>7 DEF Pushed
  <2>2. CASE d.backlog # <<>> \/ d.room = 0
    <3> DEFINE b == IF Len(d.backlog) >= scene.backlog THEN Tail(d.backlog) ELSE d.backlog
    <3>1. e = [d EXCEPT !.backlog = Append(b, p)]
      BY <1>1, <2>2 DEF push_to_guest, enqueue_backlog, DT
    <3>2. b \in Seq(S) /\ Len(b) + 1 <= scene.backlog /\ Len(b) \in Nat
      <4>1. CASE Len(d.backlog) >= scene.backlog
        <5>1. d.backlog # <<>>
          BY <4>1, EmptySeq
        <5>2. Tail(d.backlog) \in Seq(S) /\ Len(Tail(d.backlog)) = Len(d.backlog) - 1
          BY <5>1, <1>2, HeadTailProperties
        <5>3. QED
          BY <4>1, <5>2, <1>1, <1>2
      <4>2. CASE ~(Len(d.backlog) >= scene.backlog)
        BY <4>2, <1>1, <1>2
      <4>3. QED
        BY <4>1, <4>2
    <3>3. Append(b, p) \in Seq(S) /\ Len(Append(b, p)) = Len(b) + 1
      BY <3>2, AppendProperties
    <3>4. e \in DT /\ e.backlog = Append(b, p) /\ e.rx = d.rx /\ e.room = d.room
      BY <1>1, <3>1, <3>3 DEF DT
    <3>5. Wire(e) = Append(d.rx \o b, p)
      <4> HIDE DEF b, e
      <4>1. d.rx \o Append(b, p) = Append(d.rx \o b, p)
        <5> DEFINE r == d.rx
        <5>1. r \in Seq(RxPackets) /\ b \in Seq(RxPackets)
          BY <1>2, <3>2
        <5> HIDE DEF r
        <5>2. r \o Append(b, p) = Append(r \o b, p)
          BY <5>1, ConcatAppend
        <5>3. QED
          BY <5>2 DEF r
      <4>2. Wire(e) = d.rx \o Append(b, p)
        BY <3>4 DEF Wire
      <4>3. QED
        BY <4>1, <4>2
    <3>6. Pushed(Wire(d), Wire(e), p)
      <4>1. CASE Len(d.backlog) >= scene.backlog
        <5>1. d.backlog # <<>>
          BY <4>1, EmptySeq
        <5>2. /\ Len(d.rx) + 1 \in 1..Len(Wire(d))
              /\ d.rx \o Tail(d.backlog) = Without(Wire(d), Len(d.rx) + 1)
          BY <5>1, <1>2, ConcatTail DEF Wire
        <5>3. QED
          BY <4>1, <5>2, <3>5 DEF Pushed
      <4>2. CASE ~(Len(d.backlog) >= scene.backlog)
        BY <4>2, <3>5 DEF Pushed, Wire
      <4>3. QED
        BY <4>1, <4>2
    <3>7. QED
      BY <1>1, <1>2, <3>2, <3>3, <3>4, <3>6
  <2>3. QED
    BY <2>1, <2>2
<1>5. \A i \in 1..Len(Wire(d)) : RxShape(Wire(d)[i])
  BY DEF WType
<1>6. \A i \in 1..Len(Wire(e)) : RxShape(Wire(e)[i])
  <2> HIDE DEF e
  <2>1. CASE Wire(e) = Append(Wire(d), p)
    BY <2>1, <1>2, <1>5, AppendFacts
  <2>2. ASSUME NEW m \in 1..Len(Wire(d)), Wire(e) = Append(Without(Wire(d), m), p)
        PROVE  \A i \in 1..Len(Wire(e)) : RxShape(Wire(e)[i])
    <3> DEFINE v == Without(Wire(d), m)
    <3>1. /\ v \in Seq(S) /\ Len(v) = Len(Wire(d)) - 1 /\ Len(Wire(d)) \in Nat
          /\ \A i \in 1..(Len(Wire(d)) - 1) : v[i] = IF i < m THEN Wire(d)[i] ELSE Wire(d)[i + 1]
      BY <1>2, WithoutProperties
    <3> HIDE DEF v
    <3>2. \A i \in 1..Len(v) : RxShape(v[i])
      BY <3>1, <1>5
    <3>3. QED
      BY <2>2, <3>1, <3>2, AppendFacts DEF v
  <2>3. QED
    BY <1>4, <2>1, <2>2 DEF Pushed
<1>7. QED
  BY <1>3, <1>4, <1>6 DEF WType

LEMMA LocalPushed ==
    ASSUME NEW k, NEW cn \in ConnT, NEW u \in LineT, NEW dn, NEW s \in Seq(RxPackets), NEW t,
           NEW sk \in SockT, NEW j \in JobT, NEW p \in RxPackets, p.port # k,
           NEW v, Pushed(s, v, p), LocalInv(k, cn, u, dn, s, t, sk, j)
    PROVE  LocalInv(k, cn, u, dn, v, t, sk, j)
<1>1. CASE v = Append(s, p)
  BY <1>1, FewerForeign, LocalFewer
<1>2. ASSUME NEW m \in 1..Len(s), v = Append(Without(s, m), p)
      PROVE  LocalInv(k, cn, u, dn, v, t, sk, j)
  <2>1. Fewer(Without(s, m), s, k) /\ Without(s, m) \in Seq(RxPackets)
    BY FewerWithout
  <2>2. LocalInv(k, cn, u, dn, Without(s, m), t, sk, j)
    BY <2>1, LocalFewer
  <2>3. Fewer(v, Without(s, m), k) /\ v \in Seq(RxPackets)
    BY <1>2, <2>1, FewerForeign
  <2>4. QED
    BY <2>1, <2>2, <2>3, LocalFewer
<1>3. QED
  BY <1>1, <1>2 DEF Pushed

(* A method that works on stream k and sends at most one packet for it, and *)
(* perhaps takes one of its packets, leaves the others as they are.         *)
LEMMA Stepping ==
    ASSUME NEW d, NEW t \in Seq(TxPackets), WInv(d, t), NEW e, WType(e), NEW k \in Streams,
           NEW cn, NEW u, NEW dn,
           e.conn = [d.conn EXCEPT ![k] = cn], e.up = [d.up EXCEPT ![k] = u],
           e.down = [d.down EXCEPT ![k] = dn], cn.st # "none", conn[k].st # "none",
           \/ Wire(e) = Wire(d)
           \/ \E p \in RxPackets : p.port = k /\ Pushed(Wire(d), Wire(e), p),
           NEW t2, t2 = t \/ (t # <<>> /\ t[1].port = k /\ t2 = Without(t, 1)),
           \A m \in Streams : sock[m] \in SockT /\ job[m] \in JobT,
           LocalInv(k, cn, u, dn, Wire(e), t2, sock[k], job[k])
    PROVE  WInv(e, t2)
<1>1. d \in DT /\ e \in DT
  BY DEF WInv, WType
<1>2. /\ d.conn \in [Streams -> ConnT] /\ d.up \in [Streams -> LineT]
      /\ d.down \in [Streams -> Seq(Frames)] /\ Wire(d) \in Seq(RxPackets)
      /\ Wire(e) \in Seq(RxPackets)
  BY <1>1, WireType
<1>3. ASSUME NEW m \in Streams
      PROVE  LocalInv(m, e.conn[m], e.up[m], e.down[m], Wire(e), t2, sock[m], job[m])
  <2>1. CASE m = k
    BY <2>1, <1>2
  <2>2. CASE m # k
    <3>1. e.conn[m] = d.conn[m] /\ e.up[m] = d.up[m] /\ e.down[m] = d.down[m]
      BY <1>2, <2>2
    <3>2. LocalInv(m, d.conn[m], d.up[m], d.down[m], Wire(d), t, sock[m], job[m])
      BY DEF WInv, AliveInv
    <3>3. d.conn[m] \in ConnT /\ d.up[m] \in LineT
      BY <1>2
    <3>4. LocalInv(m, d.conn[m], d.up[m], d.down[m], Wire(e), t, sock[m], job[m])
      <4>1. CASE Wire(e) = Wire(d)
        BY <3>2, <4>1
      <4>2. ASSUME NEW p \in RxPackets, p.port = k, Pushed(Wire(d), Wire(e), p)
            PROVE  LocalInv(m, d.conn[m], d.up[m], d.down[m], Wire(e), t, sock[m], job[m])
        BY <1>2, <2>2, <3>2, <3>3, <4>2, LocalPushed
      <4>3. QED
        BY <4>1, <4>2
    <3>5. QED
      BY <2>2, <3>1, <3>4, AlikeTail, LocalAlike
  <2>3. QED
    BY <2>1, <2>2
<1>4. \A m \in Streams : e.conn[m].st = "none" <=> conn[m].st = "none"
  BY <1>2 DEF WInv
<1>5. QED
  BY <1>3, <1>4 DEF WInv, AliveInv

-------------------------------------------------------------------------------
(* What the worker does to one stream. *)

LEMMA FirstFacts ==
    ASSUME NEW t \in Seq(TxPackets), t # <<>>
    PROVE  /\ 1 \in 1..Len(t) /\ Len(t) \in Nat /\ t[1] \in TxPackets
           /\ Without(t, 1) \in Seq(TxPackets) /\ Len(Without(t, 1)) = Len(t) - 1
           /\ \A i \in 1..(Len(t) - 1) :
                 Without(t, 1)[i] = t[i + 1] /\ i + 1 \in 1..Len(t) /\ i + 1 # 1
<1>1. 1 \in 1..Len(t) /\ Len(t) \in Nat
  BY EmptySeq, LenProperties
<1>2. /\ Without(t, 1) \in Seq(TxPackets) /\ Len(Without(t, 1)) = Len(t) - 1
      /\ \A i \in 1..(Len(t) - 1) : Without(t, 1)[i] = IF i < 1 THEN t[i] ELSE t[i + 1]
  BY <1>1, WithoutProperties
<1>3. ASSUME NEW i \in 1..(Len(t) - 1) PROVE Without(t, 1)[i] = t[i + 1] /\ i + 1 \in 1..Len(t) /\ i + 1 # 1
  BY <1>1, <1>2
<1>4. QED
  BY <1>1, <1>2, <1>3, ElementOfSeq

LEMMA NothingSent ==
    /\ Behind(0, 0) = 0 /\ NoConn.tx = 0 /\ NoConn.fwd = 0 /\ NoConn.rxfwd = 0 /\ NoConn.buf = <<>>
    /\ NoSock.tx = 0 /\ NoSock.fwd = 0 /\ NoSock.pfwd = 0 /\ NoSock.rbuf = 0
BY BehindSame DEF NoConn, NoSock

(* The RESPONSE makes the connection. *)
LEMMA Responded ==
    ASSUME NEW k, NEW cn, NEW u, NEW dn, NEW s, NEW t, NEW sk, NEW j, Typed(cn, u, dn, s, t, sk, j),
           LocalInv(k, cn, u, dn, s, t, sk, j), cn.st = "connecting",
           t # <<>>, t[1].port = k, t[1].op = "RESPONSE",
           NEW dn2 \in {dn, Append(dn, Ok)}
    PROVE  LocalInv(k, [update_peer(cn, t[1]) EXCEPT !.st = "established"], u, dn2, s, Without(t, 1), sk, j)
<1> DEFINE cn2 == [update_peer(cn, t[1]) EXCEPT !.st = "established"]
           v == Without(t, 1)
<1>1. /\ cn \in ConnT /\ s \in Seq(RxPackets) /\ t \in Seq(TxPackets) /\ sk \in SockT /\ u \in LineT
      /\ dn \in Seq(Frames)
  BY DEF Typed
<1>2. Opening(k, cn, u, dn, s, t, sk, j)
  BY DEF LocalInv, StreamInv
<1>3. /\ 1 \in 1..Len(t) /\ Len(v) = Len(t) - 1 /\ v \in Seq(TxPackets)
      /\ \A i \in 1..(Len(t) - 1) : v[i] = t[i + 1] /\ i + 1 \in 1..Len(t) /\ i + 1 # 1
  BY <1>1, FirstFacts
<1>4. \A i \in 1..Len(v) : v[i].port # k
  BY <1>2, <1>3 DEF Opening
<1>5. \A i \in 1..Len(s) : s[i].port # k
  BY <1>2, <1>3 DEF Opening, Silent
<1>6. InFlight(s, k) = 0 /\ InReturn(v, k) = 0
  BY <1>1, <1>3, <1>4, <1>5, InFlightNone, InReturnNone DEF Carries
<1>7. t[1].fwd = 0 /\ sk.st \in {"queued", "open"}
  BY <1>2, <1>3 DEF Opening
<1>8. /\ cn2.st = "established" /\ cn2.alloc = GuestBuf /\ cn2.fwd = 0 /\ cn2.tx = 0
      /\ cn2.rxfwd = 0 /\ cn2.buf = <<>>
  BY <1>1, <1>2, <1>7 DEF Opening, NoConn, update_peer
<1>9. sk.fwd = 0 /\ sk.tx = 0 /\ sk.pfwd = 0 /\ sk.rbuf = 0
  BY <1>2 DEF Opening, NoSock
<1> HIDE DEF cn2, v
<1>10. GuestCredit(k, cn2, s, v, sk)
  BY <1>4, <1>6, <1>8, <1>9, NothingSent, AssumeTypes DEF GuestCredit, Counts
<1>11. HostCredit(k, cn2, s, v, sk)
  BY <1>5, <1>6, <1>8, <1>9, NothingSent, AssumeTypes DEF HostCredit, Counts
<1>12. dn = <<>> /\ dn2 \in {<<>>, <<Ok>>} /\ Len(dn2) <= 1
  <2>1. dn = <<>>
    BY <1>2 DEF Opening
  <2>2. Append(<<>>, Ok) = <<Ok>>
    OBVIOUS
  <2>3. dn2 = <<>> \/ dn2 = <<Ok>>
    BY <2>1, <2>2
  <2>4. Len(<<>>) = 0 /\ Len(<<Ok>>) = 1
    OBVIOUS
  <2>5. CASE dn2 = <<>>
    BY <2>1, <2>4, <2>5
  <2>6. CASE dn2 = <<Ok>>
    BY <2>1, <2>4, <2>6
  <2>7. QED
    BY <2>3, <2>5, <2>6
<1>13. StreamInv(k, cn2, u, dn2, s, v, sk, j)
  <2>1. Opened(k, cn2, u, dn2, s, v, sk, j)
    BY <1>4, <1>5, <1>7, <1>10, <1>11 DEF Opened
  <2>2. /\ Counted(k, u, s, sk, j) /\ sk.rbuf + InFlight(s, k) <= GuestBuf
        /\ sk.st \in {"none", "queued"} => j = NoJob
    BY DEF LocalInv, StreamInv, Early
  <2>3. Len(dn2) <= UdsCap
    BY <1>12, AssumeTypes
  <2>4. QED
    BY <1>8, <2>1, <2>2, <2>3 DEF StreamInv, Early
<1>14. ASSUME NEW c \in Clients, client[c].k = k PROVE OwnerInv(c, k, cn2, u, dn2, s, v, sk, j)
  <2>1. client[c].pc # "command"
    BY <1>14 DEF LocalInv, OwnerInv, Commanding
  <2>2. Shaking(k, cn2, u, dn2, s, v, sk, j)
    BY <1>2, <1>4, <1>6, <1>8, <1>9, <1>12 DEF Shaking, Opening, Carries
  <2>3. QED
    BY <2>1, <2>2 DEF OwnerInv
<1>15. QED
  BY <1>13, <1>14 DEF LocalInv, cn2, v

(* The RST ends the attempt. *)
LEMMA Refused ==
    ASSUME NEW k, NEW cn, NEW u, NEW dn, NEW s, NEW t, NEW sk, NEW j, Typed(cn, u, dn, s, t, sk, j),
           LocalInv(k, cn, u, dn, s, t, sk, j), cn.st = "connecting", t # <<>>, t[1].port = k
    PROVE  LocalInv(k, [NoConn EXCEPT !.st = "dropped"], u, dn, s, Without(t, 1), sk, j)
<1> DEFINE cn2 == [NoConn EXCEPT !.st = "dropped"]
           v == Without(t, 1)
<1>1. t \in Seq(TxPackets)
  BY DEF Typed
<1>2. Opening(k, cn, u, dn, s, t, sk, j)
  BY DEF LocalInv, StreamInv
<1>3. 1 \in 1..Len(t)
  BY <1>1, FirstFacts
<1>4. Dropped(k, s)
  BY <1>2, <1>3 DEF Opening, Silent, Dropped
<1>5. cn2.st = "dropped" /\ cn2.buf = <<>>
  BY DEF NoConn
<1> HIDE DEF cn2, v
<1>6. StreamInv(k, cn2, u, dn, s, v, sk, j)
  BY <1>4, <1>5 DEF LocalInv, StreamInv, Early
<1>7. ASSUME NEW c \in Clients, client[c].k = k PROVE OwnerInv(c, k, cn2, u, dn, s, v, sk, j)
  BY <1>5, <1>7 DEF LocalInv, OwnerInv, Commanding, Shaking
<1>8. QED
  BY <1>6, <1>7 DEF LocalInv, cn2, v

(* A dropped connection takes no notice of its packets. *)
LEMMA Ignored ==
    ASSUME NEW k, NEW cn, NEW u, NEW dn, NEW s, NEW t, NEW sk, NEW j, NEW v,
           LocalInv(k, cn, u, dn, s, t, sk, j), cn.st = "dropped"
    PROVE  LocalInv(k, cn, u, dn, s, v, sk, j)
<1>1. StreamInv(k, cn, u, dn, s, v, sk, j)
  BY DEF LocalInv, StreamInv, Early
<1>2. ASSUME NEW c \in Clients, client[c].k = k PROVE OwnerInv(c, k, cn, u, dn, s, v, sk, j)
  BY <1>2 DEF LocalInv, OwnerInv, Commanding, Shaking
<1>3. QED
  BY <1>1, <1>2 DEF LocalInv

LEMMA NthUnique ==
    ASSUME NEW j, NEW f, NEW m1, NEW m2, Nth(j, f, m1), Nth(j, f, m2) PROVE m1 = m2
BY DEF Nth

LEMMA JobInts ==
    ASSUME NEW j \in JobT
    PROVE  /\ j.wrote \in Nat /\ j.pipe \in Nat /\ j.in \in Nat /\ Spent(j) \in Nat /\ Sent(j) \in Int
           /\ j.wrote <= MaxOut
BY AssumeTypes DEF JobT, Spent, Sent

(* The next frame is the first in the tx queue. *)
LEMMA FrameTaken ==
    ASSUME NEW j \in JobT, NEW k, NEW t \in Seq(TxPackets), NEW b \in Nat, InTx(b, k, t, j),
           t # <<>>, Carries(t[1], k)
    PROVE  Nth(j, t[1].body[1], b + 1) /\ InTx(b + 1, k, Without(t, 1), j)
<1> DEFINE v == Without(t, 1)
<1>1. /\ 1 \in 1..Len(t) /\ Len(v) = Len(t) - 1 /\ Len(t) \in Nat
      /\ \A i \in 1..(Len(t) - 1) : v[i] = t[i + 1] /\ i + 1 \in 1..Len(t) /\ i + 1 # 1
  BY FirstFacts
<1>2. Sent(j) \in Int
  BY JobInts
<1>3. PICK m0 \in (b + 1)..Sent(j) : Nth(j, t[1].body[1], m0)
  BY <1>1 DEF InTx
<1>4. b + 1 \in (b + 1)..Sent(j) /\ m0 \in Nat
  BY <1>2, <1>3
<1>5. PICK i0 \in 1..Len(t) : Carries(t[i0], k) /\ Nth(j, t[i0].body[1], b + 1)
  BY <1>4 DEF InTx
<1>6. i0 = 1
  <2>1. SUFFICES ASSUME 1 < i0 PROVE FALSE
    BY <1>1
  <2>2. b + 1 \in Nat /\ m0 \in Nat
    BY <1>4
  <2>3. m0 < b + 1
    BY <1>1, <1>3, <1>5, <2>1, <2>2 DEF InTx
  <2>4. QED
    BY <2>3, <1>3
<1>7. Nth(j, t[1].body[1], b + 1)
  BY <1>5, <1>6
<1> HIDE DEF v
<1>8. ASSUME NEW i \in 1..Len(v), Carries(v[i], k)
      PROVE  \E m \in (b + 1 + 1)..Sent(j) : Nth(j, v[i].body[1], m)
  <2>1. v[i] = t[i + 1] /\ i + 1 \in 1..Len(t) /\ 1 < i + 1
    BY <1>1
  <2>2. PICK m \in (b + 1)..Sent(j) : Nth(j, v[i].body[1], m)
    BY <1>8, <2>1 DEF InTx
  <2>3. b + 1 \in Nat /\ m \in Nat
    BY <1>2
  <2>4. b + 1 < m
    BY <1>1, <1>7, <1>8, <2>1, <2>2, <2>3 DEF InTx
  <2>5. m \in (b + 1 + 1)..Sent(j)
    BY <1>2, <2>2, <2>4
  <2>6. QED
    BY <2>2, <2>5
<1>9. ASSUME NEW i1 \in 1..Len(v), NEW i2 \in 1..Len(v), i1 < i2, Carries(v[i1], k), Carries(v[i2], k),
             NEW m1 \in Nat, NEW m2 \in Nat, Nth(j, v[i1].body[1], m1), Nth(j, v[i2].body[1], m2)
      PROVE  m1 < m2
  <2>0. i1 \in 1..(Len(t) - 1) /\ i2 \in 1..(Len(t) - 1) /\ i1 + 1 < i2 + 1
    BY <1>1, <1>9
  <2>1. /\ i1 + 1 \in 1..Len(t) /\ i2 + 1 \in 1..Len(t) /\ i1 + 1 < i2 + 1
        /\ v[i1] = t[i1 + 1] /\ v[i2] = t[i2 + 1]
    BY <1>1, <2>0
  <2>2. QED
    BY <1>9, <2>1 DEF InTx
<1>10. ASSUME NEW m \in (b + 1 + 1)..Sent(j)
       PROVE  \E i \in 1..Len(v) : Carries(v[i], k) /\ Nth(j, v[i].body[1], m)
  <2>1. m \in (b + 1)..Sent(j) /\ m # b + 1
    BY <1>2
  <2>2. PICK i \in 1..Len(t) : Carries(t[i], k) /\ Nth(j, t[i].body[1], m)
    BY <2>1 DEF InTx
  <2>3. i # 1
    BY <1>7, <2>1, <2>2, NthUnique
  <2>4. i - 1 \in 1..Len(v) /\ v[i - 1] = t[i]
    BY <1>1, <2>3
  <2>5. QED
    BY <2>2, <2>4
<1>11. InTx(b + 1, k, v, j)
  <2>1. b + 1 <= Sent(j)
    BY <1>2, <1>3
  <2>2. QED
    BY <2>1, <1>8, <1>9, <1>10 DEF InTx
<1>12. QED
  BY <1>7, <1>11 DEF v

(* A packet of an open connection is taken: what it says of the credit.     *)
LEMMA CreditTaken ==
    ASSUME NEW k, NEW cn, NEW u, NEW dn, NEW s, NEW t, NEW sk, NEW j, Typed(cn, u, dn, s, t, sk, j),
           Opened(k, cn, u, dn, s, t, sk, j), t # <<>>, t[1].port = k
    PROVE  /\ Counts(Without(t, 1), k, cn.tx, t[1].fwd, sk.fwd)
           /\ Counts(Without(t, 1), k, cn.tx, cn.fwd, sk.fwd)
           /\ Behind(sk.fwd, cn.tx) <= Behind(t[1].fwd, cn.tx) /\ Behind(t[1].fwd, cn.tx) <= GuestBuf
           /\ InReturn(Without(t, 1), k) = InReturn(t, k) - LoadFrom(t[1], k)
           /\ \A i \in 1..Len(Without(t, 1)) : Without(t, 1)[i].port = k =>
                 Without(t, 1)[i].op \in {"RW", "CREDIT_UPDATE", "CREDIT_REQUEST"}
<1>1. /\ t \in Seq(TxPackets) /\ cn.fwd \in Int /\ cn.tx \in Int /\ sk.fwd \in Int
  BY ConnInts, SockInts DEF Typed
<1>2. 1 \in 1..Len(t) /\ t[1].fwd \in Int
  <2>1. 1 \in 1..Len(t) /\ t[1] \in TxPackets
    BY <1>1, FirstFacts
  <2>2. QED
    BY <2>1, AssumeTypes DEF TxPackets
<1>3. /\ Counts(t, k, cn.tx, cn.fwd, sk.fwd) /\ Behind(cn.fwd, cn.tx) <= GuestBuf
  BY DEF Opened, GuestCredit
<1>4. Counts(Without(t, 1), k, cn.tx, t[1].fwd, sk.fwd)
  BY <1>1, <1>2, <1>3, CountsTaken
<1>5. Counts(Without(t, 1), k, cn.tx, cn.fwd, sk.fwd)
  BY <1>1, <1>2, <1>3, WithoutAmong, CountsAmong
<1>6. Behind(t[1].fwd, cn.tx) \in Behind(sk.fwd, cn.tx)..Behind(cn.fwd, cn.tx)
  BY <1>2, <1>3 DEF Counts
<1>7. Behind(t[1].fwd, cn.tx) \in Int /\ Behind(sk.fwd, cn.tx) \in Int /\ Behind(cn.fwd, cn.tx) \in Int
  BY <1>1, <1>2, BehindInt
<1>8. Behind(sk.fwd, cn.tx) <= Behind(t[1].fwd, cn.tx) /\ Behind(t[1].fwd, cn.tx) <= GuestBuf
  BY <1>3, <1>6, <1>7, AssumeTypes
<1>9. InReturn(Without(t, 1), k) = InReturn(t, k) - LoadFrom(t[1], k)
  BY <1>1, <1>2, InReturnWithout
<1>10. \A i \in 1..Len(Without(t, 1)) : Without(t, 1)[i].port = k =>
          Without(t, 1)[i].op \in {"RW", "CREDIT_UPDATE", "CREDIT_REQUEST"}
  <2>1. /\ Len(Without(t, 1)) = Len(t) - 1
        /\ \A i \in 1..(Len(t) - 1) : Without(t, 1)[i] = t[i + 1] /\ i + 1 \in 1..Len(t)
    BY <1>1, FirstFacts
  <2>2. QED
    BY <2>1 DEF Opened
<1>11. QED
  BY <1>4, <1>5, <1>8, <1>9, <1>10

(* CREDIT_UPDATE. *)
LEMMA Updated ==
    ASSUME NEW k, NEW cn, NEW u, NEW dn, NEW s, NEW t, NEW sk, NEW j, Typed(cn, u, dn, s, t, sk, j),
           LocalInv(k, cn, u, dn, s, t, sk, j), cn.st = "established", t # <<>>, t[1].port = k,
           t[1].op # "RW", NEW cn2 \in {cn, update_peer(cn, t[1])}
    PROVE  LocalInv(k, cn2, u, dn, s, Without(t, 1), sk, j)
<1> DEFINE v == Without(t, 1)
<1>1. cn \in ConnT /\ t \in Seq(TxPackets)
  BY DEF Typed
<1>2. Opened(k, cn, u, dn, s, t, sk, j)
  BY DEF LocalInv, StreamInv
<1>3. /\ Counts(v, k, cn.tx, t[1].fwd, sk.fwd) /\ Counts(v, k, cn.tx, cn.fwd, sk.fwd)
      /\ Behind(sk.fwd, cn.tx) <= Behind(t[1].fwd, cn.tx) /\ Behind(t[1].fwd, cn.tx) <= GuestBuf
      /\ InReturn(v, k) = InReturn(t, k) - LoadFrom(t[1], k)
      /\ \A i \in 1..Len(v) : v[i].port = k => v[i].op \in {"RW", "CREDIT_UPDATE", "CREDIT_REQUEST"}
  BY <1>2, CreditTaken
<1>4. InReturn(v, k) = InReturn(t, k)
  BY <1>1, <1>3, InReturnType DEF LoadFrom, Carries
<1>5. /\ cn2.st = "established" /\ cn2.tx = cn.tx /\ cn2.rxfwd = cn.rxfwd /\ cn2.buf = cn.buf
      /\ cn2.alloc = GuestBuf /\ cn2.fwd \in {cn.fwd, t[1].fwd}
  BY <1>1, <1>2 DEF update_peer, ConnT, Opened, GuestCredit
<1> HIDE DEF v
<1>6. GuestCredit(k, cn2, s, v, sk)
  BY <1>2, <1>3, <1>5 DEF Opened, GuestCredit
<1>7. HostCredit(k, cn2, s, v, sk)
  BY <1>2, <1>4, <1>5 DEF Opened, HostCredit
<1>8. StreamInv(k, cn2, u, dn, s, v, sk, j)
  <2>1. Opened(k, cn2, u, dn, s, v, sk, j)
    BY <1>2, <1>3, <1>6, <1>7 DEF Opened
  <2>2. QED
    BY <1>5, <2>1 DEF LocalInv, StreamInv, Early
<1>9. /\ Len(v) = Len(t) - 1 /\ Len(t) \in Nat
      /\ \A i \in 1..(Len(t) - 1) : v[i] = t[i + 1] /\ i + 1 \in 1..Len(t) /\ i + 1 # 1
  BY <1>1, FirstFacts DEF v
<1>10. ASSUME NEW b, InTx(b, k, t, j) PROVE InTx(b, k, v, j)
  <2>1. ASSUME NEW i \in 1..Len(v), Carries(v[i], k)
        PROVE  \E m \in (b + 1)..Sent(j) : Nth(j, v[i].body[1], m)
    BY <1>9, <1>10, <2>1 DEF InTx
  <2>2. ASSUME NEW i1 \in 1..Len(v), NEW i2 \in 1..Len(v), i1 < i2, Carries(v[i1], k), Carries(v[i2], k),
               NEW m1 \in Nat, NEW m2 \in Nat, Nth(j, v[i1].body[1], m1), Nth(j, v[i2].body[1], m2)
        PROVE  m1 < m2
    <3>1. /\ i1 + 1 \in 1..Len(t) /\ i2 + 1 \in 1..Len(t) /\ i1 + 1 < i2 + 1
          /\ v[i1] = t[i1 + 1] /\ v[i2] = t[i2 + 1]
      BY <1>9, <2>2
    <3>2. QED
      BY <1>10, <2>2, <3>1 DEF InTx
  <2>3. ASSUME NEW m \in (b + 1)..Sent(j)
        PROVE  \E i \in 1..Len(v) : Carries(v[i], k) /\ Nth(j, v[i].body[1], m)
    <3>1. PICK i \in 1..Len(t) : Carries(t[i], k) /\ Nth(j, t[i].body[1], m)
      BY <1>10 DEF InTx
    <3>2. i # 1
      BY <3>1 DEF Carries
    <3>3. i - 1 \in 1..Len(v) /\ v[i - 1] = t[i]
      BY <1>9, <3>2
    <3>4. QED
      BY <3>1, <3>3
  <2>4. QED
    BY <1>10, <2>1, <2>2, <2>3 DEF InTx
<1>11. ASSUME NEW c \in Clients, client[c].k = k PROVE OwnerInv(c, k, cn2, u, dn, s, v, sk, j)
  <2>1. OwnerInv(c, k, cn, u, dn, s, t, sk, j)
    BY <1>11 DEF LocalInv
  <2>2. Shaking(k, cn, u, dn, s, t, sk, j) => Shaking(k, cn2, u, dn, s, v, sk, j)
    BY <1>5, <1>9 DEF Shaking
  <2>3. ASSUME NEW a, Commanding(a, k, cn, dn, t, j) PROVE Commanding(a, k, cn2, dn, v, j)
    BY <1>5, <1>10, <2>3 DEF Commanding
  <2>4. QED
    BY <2>1, <2>2, <2>3 DEF OwnerInv
<1>12. QED
  BY <1>8, <1>11 DEF LocalInv, v

(* RW. *)
LEMMA Received ==
    ASSUME NEW k, NEW cn, NEW u, NEW dn, NEW s, NEW t, NEW sk, NEW j, Typed(cn, u, dn, s, t, sk, j),
           LocalInv(k, cn, u, dn, s, t, sk, j), cn.st = "established", t # <<>>, t[1].port = k,
           t[1].op = "RW", TxShape(t[1]), \A c \in Clients : Len(got[c]) \in Nat
    PROVE  LocalInv(k, [update_peer(cn, t[1]) EXCEPT !.buf = @ \o t[1].body], u, dn, s,
                    Without(t, 1), sk, j)
<1> DEFINE v == Without(t, 1)
           cn2 == [update_peer(cn, t[1]) EXCEPT !.buf = @ \o t[1].body]
           f == t[1].body
           n == Len(cn.buf)
<1>1. cn \in ConnT /\ t \in Seq(TxPackets) /\ j \in JobT /\ dn \in Seq(Frames)
  BY DEF Typed
<1>2. Opened(k, cn, u, dn, s, t, sk, j)
  BY DEF LocalInv, StreamInv
<1>3. /\ Counts(v, k, cn.tx, t[1].fwd, sk.fwd)
      /\ Behind(sk.fwd, cn.tx) <= Behind(t[1].fwd, cn.tx) /\ Behind(t[1].fwd, cn.tx) <= GuestBuf
      /\ InReturn(v, k) = InReturn(t, k) - LoadFrom(t[1], k)
      /\ \A i \in 1..Len(v) : v[i].port = k => v[i].op \in {"RW", "CREDIT_UPDATE", "CREDIT_REQUEST"}
  BY <1>2, CreditTaken
<1>4. Carries(t[1], k) /\ LoadFrom(t[1], k) = 1 /\ Len(f) = 1 /\ f \in Seq(Frames)
  <2>1. t[1] \in TxPackets
    BY <1>1, FirstFacts
  <2>2. QED
    BY <2>1 DEF LoadFrom, Carries, TxShape, TxPackets
<1>5. cn.buf \in Seq(Frames) /\ n \in Nat
  BY <1>1, ConnInts
<1>6. /\ cn.buf \o f \in Seq(Frames) /\ Len(cn.buf \o f) = n + 1
      /\ \A i \in 1..n : (cn.buf \o f)[i] = cn.buf[i]
      /\ (cn.buf \o f)[n + 1] = f[1]
  <2> DEFINE g == cn.buf
  <2>0. g \in Seq(Frames)
    BY <1>5
  <2> HIDE DEF f, g
  <2>1. /\ g \o f \in Seq(Frames) /\ Len(g \o f) = Len(g) + Len(f)
        /\ \A i \in 1..(Len(g) + Len(f)) : (g \o f)[i] = IF i <= Len(g) THEN g[i] ELSE f[i - Len(g)]
    BY <1>4, <2>0, ConcatProperties
  <2>2. n + 1 \in 1..(n + 1) /\ (n + 1) - n = 1 /\ ~(n + 1 <= n) /\ \A i \in 1..n : i \in 1..(n + 1) /\ i <= n
    BY <1>5
  <2>3. n = Len(g)
    BY DEF g
  <2> HIDE DEF n
  <2>4. /\ g \o f \in Seq(Frames) /\ Len(g \o f) = n + 1
        /\ \A i \in 1..n : (g \o f)[i] = g[i]
        /\ (g \o f)[n + 1] = f[1]
    BY <1>4, <2>1, <2>2, <2>3
  <2>5. QED
    BY <2>4 DEF g
<1>7. /\ cn2.st = "established" /\ cn2.tx = cn.tx /\ cn2.rxfwd = cn.rxfwd /\ cn2.buf = cn.buf \o f
      /\ cn2.alloc = GuestBuf /\ cn2.fwd = t[1].fwd
  BY <1>1 DEF update_peer, ConnT
<1> HIDE DEF v, cn2, f, n
<1>8. GuestCredit(k, cn2, s, v, sk)
  BY <1>2, <1>3, <1>7 DEF Opened, GuestCredit
<1>9. HostCredit(k, cn2, s, v, sk)
  <2>1. InReturn(t, k) \in Nat
    BY <1>1, InReturnType
  <2>2. Len(cn2.buf) + InReturn(v, k) = n + InReturn(t, k)
    BY <1>3, <1>4, <1>5, <1>6, <1>7, <2>1
  <2>3. QED
    BY <1>2, <1>7, <2>2 DEF Opened, HostCredit, n
<1>10. StreamInv(k, cn2, u, dn, s, v, sk, j)
  <2>1. Opened(k, cn2, u, dn, s, v, sk, j)
    BY <1>2, <1>3, <1>8, <1>9 DEF Opened
  <2>2. QED
    BY <1>7, <2>1 DEF LocalInv, StreamInv, Early
<1>11. 1 \in 1..Len(t)
  BY <1>1, FirstFacts
<1>12. ASSUME NEW c \in Clients, client[c].k = k PROVE OwnerInv(c, k, cn2, u, dn, s, v, sk, j)
  <2>1. OwnerInv(c, k, cn, u, dn, s, t, sk, j)
    BY <1>12 DEF LocalInv
  <2>2. client[c].pc # "handshake"
    BY <1>4, <1>11, <2>1 DEF OwnerInv, Shaking
  <2>3. ASSUME NEW a \in Nat, Commanding(a, k, cn, dn, t, j) PROVE Commanding(a, k, cn2, dn, v, j)
    <3> DEFINE b == a + Len(dn) + n
    <3>1. Len(dn) \in Nat /\ b \in Nat
      BY <1>1, <1>5
    <3>2. Nth(j, f[1], b + 1) /\ InTx(b + 1, k, v, j)
      BY <1>1, <1>4, <2>3, <3>1, FrameTaken DEF Commanding, v, f, n
    <3>3. ASSUME NEW i \in 1..(n + 1) PROVE Nth(j, (cn.buf \o f)[i], a + Len(dn) + i)
      <4>1. CASE i = n + 1
        <5>1. a + Len(dn) + (n + 1) = b + 1
          BY <3>1, <1>5
        <5>2. QED
          BY <4>1, <5>1, <1>6, <3>2
      <4>2. CASE i \in 1..n
        BY <4>2, <1>6, <2>3 DEF Commanding, n
      <4>3. i \in 1..n \/ i = n + 1
        BY <1>5
      <4>4. QED
        BY <4>1, <4>2, <4>3
    <3>4. a + Len(dn) + (n + 1) = b + 1
      BY <3>1, <1>5
    <3>5. InTx(a + Len(dn) + Len(cn2.buf), k, v, j)
      BY <1>6, <1>7, <3>2, <3>4
    <3>6. \A i \in 1..Len(cn2.buf) : Nth(j, cn2.buf[i], a + Len(dn) + i)
      BY <1>6, <1>7, <3>3
    <3>7. QED
      BY <1>7, <2>3, <3>5, <3>6 DEF Commanding
  <2>4. QED
    BY <2>1, <2>2, <2>3 DEF OwnerInv
<1>13. QED
  BY <1>10, <1>12 DEF LocalInv, v, cn2

-------------------------------------------------------------------------------
(* What the worker sends on one stream. *)

(* A packet for k is pushed: what may have been lost, then the packet.      *)
LocalThen(p, k, cn, u, dn, v, t, sk, j) ==
    \E w \in Seq(RxPackets) : v = Append(w, p) /\ LocalInv(k, cn, u, dn, w, t, sk, j)

LEMMA LocalLost ==
    ASSUME NEW k, NEW cn \in ConnT, NEW u \in LineT, NEW dn, NEW s \in Seq(RxPackets), NEW t,
           NEW sk \in SockT, NEW j \in JobT, NEW p \in RxPackets, NEW v, Pushed(s, v, p),
           LocalInv(k, cn, u, dn, s, t, sk, j)
    PROVE  LocalThen(p, k, cn, u, dn, v, t, sk, j)
<1>1. CASE v = Append(s, p)
  BY <1>1 DEF LocalThen
<1>2. ASSUME NEW m \in 1..Len(s), v = Append(Without(s, m), p)
      PROVE  LocalThen(p, k, cn, u, dn, v, t, sk, j)
  <2>1. Fewer(Without(s, m), s, k) /\ Without(s, m) \in Seq(RxPackets)
    BY FewerWithout
  <2>2. LocalInv(k, cn, u, dn, Without(s, m), t, sk, j)
    BY <2>1, LocalFewer
  <2>3. QED
    BY <1>2, <2>1, <2>2 DEF LocalThen
<1>3. QED
  BY <1>1, <1>2 DEF Pushed

(* CREDIT_UPDATE is sent. *)
LEMMA Updating ==
    ASSUME NEW k, NEW cn, NEW u, NEW dn, NEW s, NEW t, NEW sk, NEW j, Typed(cn, u, dn, s, t, sk, j),
           LocalInv(k, cn, u, dn, s, t, sk, j), cn.st = "established",
           NEW p \in RxPackets, p.op = "CREDIT_UPDATE", p.port = k, p.fwd = cn.rxfwd,
           NEW x, NEW v, Pushed(s, v, p)
    PROVE  LocalInv(k, [cn EXCEPT !.last = x], u, dn, v, t, sk, j)
<1> DEFINE cn2 == [cn EXCEPT !.last = x]
<1>1. cn \in ConnT /\ u \in LineT /\ s \in Seq(RxPackets) /\ sk \in SockT /\ j \in JobT
  BY DEF Typed
<1>2. PICK w \in Seq(RxPackets) : v = Append(w, p) /\ LocalInv(k, cn, u, dn, w, t, sk, j)
  <2>1. LocalThen(p, k, cn, u, dn, v, t, sk, j)
    BY <1>1, LocalLost
  <2>2. QED
    BY <2>1 DEF LocalThen
<1>3. Opened(k, cn, u, dn, w, t, sk, j)
  BY <1>2 DEF LocalInv, StreamInv
<1>4. /\ cn2.st = "established" /\ cn2.tx = cn.tx /\ cn2.rxfwd = cn.rxfwd /\ cn2.buf = cn.buf
      /\ cn2.alloc = cn.alloc /\ cn2.fwd = cn.fwd
  BY <1>1 DEF ConnT
<1> HIDE DEF cn2
<1>5. InFlight(v, k) = InFlight(w, k)
  <2>1. LoadTo(p, k) = 0 /\ InFlight(w, k) \in Nat
    BY InFlightType DEF LoadTo, Carries
  <2>2. QED
    BY <2>1, <1>2, InFlightAppend
<1>6. GuestCredit(k, cn2, v, t, sk)
  BY <1>3, <1>4, <1>5 DEF Opened, GuestCredit
<1>7. HostCredit(k, cn2, v, t, sk)
  <2>1. cn.rxfwd \in Int /\ sk.tx \in Int /\ sk.pfwd \in Int
    BY <1>1, ConnInts, SockInts
  <2>2. Counts(v, k, sk.tx, sk.pfwd, cn.rxfwd)
    BY <1>2, <1>3, <2>1, CountsAppend DEF Opened, HostCredit
  <2>3. QED
    BY <1>3, <1>4, <2>2 DEF Opened, HostCredit
<1>8. \A i \in 1..Len(v) : v[i].port = k => v[i].op \in {"RW", "CREDIT_UPDATE"}
  BY <1>2, <1>3, AppendFacts DEF Opened
<1>9. StreamInv(k, cn2, u, dn, v, t, sk, j)
  <2>1. Opened(k, cn2, u, dn, v, t, sk, j)
    BY <1>3, <1>6, <1>7, <1>8 DEF Opened
  <2>2. Counted(k, u, w, sk, j) => Counted(k, u, v, sk, j)
    BY <1>5 DEF Counted
  <2>3. QED
    BY <1>2, <1>4, <1>5, <2>1, <2>2 DEF LocalInv, StreamInv, Early
<1>10. ASSUME NEW c \in Clients, client[c].k = k PROVE OwnerInv(c, k, cn2, u, dn, v, t, sk, j)
  <2>1. OwnerInv(c, k, cn, u, dn, w, t, sk, j)
    BY <1>2, <1>10 DEF LocalInv
  <2>2. Shaking(k, cn, u, dn, w, t, sk, j) => Shaking(k, cn2, u, dn, v, t, sk, j)
    BY <1>4, <1>5 DEF Shaking
  <2>3. ASSUME NEW a, Commanding(a, k, cn, dn, t, j) PROVE Commanding(a, k, cn2, dn, t, j)
    BY <1>4, <2>3 DEF Commanding
  <2>4. QED
    BY <2>1, <2>2, <2>3 DEF OwnerInv
<1>11. QED
  BY <1>9, <1>10 DEF LocalInv, cn2

(* RW is sent, within the credit. *)
LEMMA Sending ==
    ASSUME NEW k, NEW cn, NEW u, NEW dn, NEW s, NEW t, NEW sk, NEW j, Typed(cn, u, dn, s, t, sk, j),
           LocalInv(k, cn, u, dn, s, t, sk, j), cn.st = "established",
           NEW n \in 1..Len(u), n <= available(cn),
           NEW p \in RxPackets, p.op = "RW", p.port = k, p.fwd = cn.rxfwd, p.n = n,
           NEW v, Pushed(s, v, p)
    PROVE  LocalInv(k, [cn EXCEPT !.tx = Wrap(@ + n)], SubSeq(u, n + 1, Len(u)), dn, v, t, sk, j)
<1> DEFINE cn2 == [cn EXCEPT !.tx = Wrap(@ + n)]
           u2 == SubSeq(u, n + 1, Len(u))
<1>1. /\ cn \in ConnT /\ u \in LineT /\ s \in Seq(RxPackets) /\ sk \in SockT /\ j \in JobT
      /\ t \in Seq(TxPackets)
  BY DEF Typed
<1>2. PICK w \in Seq(RxPackets) : v = Append(w, p) /\ LocalInv(k, cn, u, dn, w, t, sk, j)
  <2>1. LocalThen(p, k, cn, u, dn, v, t, sk, j)
    BY <1>1, LocalLost
  <2>2. QED
    BY <2>1 DEF LocalThen
<1>3. Opened(k, cn, u, dn, w, t, sk, j)
  BY <1>2 DEF LocalInv, StreamInv
<1>4. /\ cn2.st = "established" /\ cn2.tx = Wrap(cn.tx + n) /\ cn2.rxfwd = cn.rxfwd /\ cn2.buf = cn.buf
      /\ cn2.alloc = cn.alloc /\ cn2.fwd = cn.fwd
  BY <1>1 DEF ConnT
<1>5. Len(u) \in Nat /\ n \in Nat /\ n > 0 /\ n <= Len(u)
  BY <1>1 DEF LineT
<1>6. /\ Len(u2) = Len(u) - n
      /\ \A i \in 1..Len(u2) : u2[i] = u[i + n] /\ i + n \in 1..Len(u)
  <2> DEFINE m == Len(u)
  <2>1. /\ SubSeq(u, n + 1, m) \in LineT
        /\ Len(SubSeq(u, n + 1, m)) = IF n + 1 <= m THEN m - (n + 1) + 1 ELSE 0
        /\ \A i \in 1..(m - (n + 1) + 1) : SubSeq(u, n + 1, m)[i] = u[(n + 1) + i - 1]
    BY <1>1, <1>5, SubSeqProperties DEF LineT
  <2> HIDE DEF m
  <2>2. m \in Nat /\ n \in Nat /\ n <= m
    BY <1>5 DEF m
  <2>3. Len(SubSeq(u, n + 1, m)) = m - n
    BY <2>1, <2>2
  <2>4. ASSUME NEW i \in 1..(m - n) PROVE SubSeq(u, n + 1, m)[i] = u[i + n] /\ i + n \in 1..m
    <3>1. i \in 1..(m - (n + 1) + 1) /\ (n + 1) + i - 1 = i + n /\ i + n \in 1..m
      BY <2>2
    <3>2. QED
      BY <2>1, <3>1
  <2>5. QED
    BY <2>3, <2>4 DEF m
<1> HIDE DEF cn2, u2
<1>7. InFlight(v, k) = InFlight(w, k) + n /\ InFlight(w, k) \in Nat
  BY <1>2, InFlightAppend, InFlightType DEF LoadTo, Carries
<1>8. /\ cn.rxfwd \in Int /\ sk.tx \in Int /\ sk.pfwd \in Int /\ sk.fwd \in Int /\ cn.fwd \in Int
      /\ cn.tx \in Int /\ sk.rbuf \in Nat
  BY <1>1, ConnInts, SockInts
<1>9. Behind(cn.fwd, cn.tx) + n <= GuestBuf /\ Behind(cn.fwd, cn.tx) \in Nat
  <2>1. Behind(cn.fwd, cn.tx) \in 0..(Modulus - 1)
    BY <1>8, BehindType
  <2>2. cn.alloc = GuestBuf
    BY <1>3 DEF Opened, GuestCredit
  <2>3. n <= (IF Behind(cn.fwd, cn.tx) >= GuestBuf THEN 0 ELSE GuestBuf - Behind(cn.fwd, cn.tx))
    BY <2>2 DEF available, Behind
  <2>4. QED
    BY <1>5, <2>1, <2>3, AssumeTypes
<1>10. GuestCredit(k, cn2, v, t, sk)
  <2> DEFINE x == Behind(cn.fwd, cn.tx)
             y == Behind(sk.fwd, cn.tx)
             b == InFlight(w, k)
  <2>1. /\ x \in Nat /\ y \in Int /\ x + n <= GuestBuf /\ GuestBuf < Modulus /\ y <= x
        /\ sk.rbuf + b <= y /\ Counts(t, k, cn.tx, cn.fwd, sk.fwd)
    BY <1>3, <1>8, <1>9, BehindInt, AssumeTypes DEF Opened, GuestCredit
  <2>2. Modulus \in Nat /\ GuestBuf \in Nat /\ b \in Nat /\ sk.rbuf \in Nat
    BY AssumeTypes, <1>7, <1>8
  <2>3. \A i \in 1..Len(t) : t[i].fwd \in Int
    <3>1. \A q \in TxPackets : q.fwd \in Int
      BY AssumeTypes DEF TxPackets
    <3>2. QED
      BY <1>1, <3>1, ElementOfSeq
  <2> HIDE DEF b
  <2>4. x + n < Modulus /\ y + n < Modulus
    <3> HIDE DEF x, y
    <3> QED BY <2>1, <2>2, <1>5
  <2>5. Counts(t, k, cn2.tx, cn.fwd, sk.fwd)
    BY <1>1, <1>4, <1>5, <1>8, <2>1, <2>3, <2>4, CountsAhead, SMTT(40)
  <2>6. Behind(cn.fwd, cn2.tx) = x + n /\ Behind(sk.fwd, cn2.tx) = y + n
    BY <1>4, <1>5, <1>8, <2>4, BehindMore
  <2> HIDE DEF x, y
  <2>7. sk.rbuf + (b + n) <= y + n /\ y + n <= x + n
    BY <1>5, <2>1, <2>2
  <2>8. QED
    BY <1>3, <1>4, <1>7, <2>1, <2>5, <2>6, <2>7 DEF Opened, GuestCredit, b
<1>11. HostCredit(k, cn2, v, t, sk)
  <2>1. Counts(v, k, sk.tx, sk.pfwd, cn.rxfwd)
    BY <1>2, <1>3, <1>8, CountsAppend DEF Opened, HostCredit
  <2>2. QED
    BY <1>3, <1>4, <2>1 DEF Opened, HostCredit
<1>12. \A i \in 1..Len(v) : v[i].port = k => v[i].op \in {"RW", "CREDIT_UPDATE"}
  BY <1>2, <1>3, AppendFacts DEF Opened
<1>13. StreamInv(k, cn2, u2, dn, v, t, sk, j)
  <2>1. Opened(k, cn2, u2, dn, v, t, sk, j)
    BY <1>3, <1>10, <1>11, <1>12 DEF Opened
  <2>2. Counted(k, u, w, sk, j) => Counted(k, u2, v, sk, j)
    <3>1. Spent(j) \in Nat
      BY <1>1, JobInts
    <3> DEFINE m == Len(u)
               b == InFlight(w, k)
    <3>2. m + b + sk.rbuf + Spent(j) <= ExecLen => (m - n) + (b + n) + sk.rbuf + Spent(j) <= ExecLen
      <4>1. m \in Nat /\ b \in Nat /\ sk.rbuf \in Nat /\ ExecLen \in Nat
        BY <1>5, <1>7, <1>8, AssumeTypes
      <4> HIDE DEF m, b
      <4>2. QED
        BY <1>5, <4>1, <3>1
    <3>3. (\A i \in 1..Len(u) : u[i] = "exec") => \A i \in 1..Len(u2) : u2[i] = "exec"
      BY <1>6
    <3>4. QED
      BY <1>6, <1>7, <3>2, <3>3 DEF Counted
  <2>3. sk.rbuf + InFlight(v, k) <= GuestBuf
    <3> DEFINE x == Behind(cn.fwd, cn.tx)
               y == Behind(sk.fwd, cn.tx)
    <3>1. x \in Int /\ y \in Int /\ y <= x /\ sk.rbuf + InFlight(w, k) <= y /\ x + n <= GuestBuf
      BY <1>3, <1>8, <1>9, BehindInt DEF Opened, GuestCredit
    <3> HIDE DEF x, y
    <3>2. QED
      BY <3>1, <1>5, <1>7, <1>8, AssumeTypes
  <2>4. QED
    BY <1>2, <1>4, <2>1, <2>2, <2>3 DEF LocalInv, StreamInv, Early
<1>14. ASSUME NEW c \in Clients, client[c].k = k PROVE OwnerInv(c, k, cn2, u2, dn, v, t, sk, j)
  <2>1. OwnerInv(c, k, cn, u, dn, w, t, sk, j)
    BY <1>2, <1>14 DEF LocalInv
  <2>2. client[c].pc # "handshake"
    BY <1>5, <2>1 DEF OwnerInv, Shaking
  <2>3. ASSUME NEW a, Commanding(a, k, cn, dn, t, j) PROVE Commanding(a, k, cn2, dn, t, j)
    BY <1>4, <2>3 DEF Commanding
  <2>4. QED
    BY <2>1, <2>2, <2>3 DEF OwnerInv
<1>15. QED
  BY <1>13, <1>14 DEF LocalInv, cn2, u2

(* What the socket takes is passed on. *)
LEMMA Delivered ==
    ASSUME NEW k, NEW cn, NEW u, NEW dn, NEW s, NEW t, NEW sk, NEW j, Typed(cn, u, dn, s, t, sk, j),
           LocalInv(k, cn, u, dn, s, t, sk, j), cn.st = "established", cn.buf # <<>>,
           NEW n \in 0..Len(cn.buf), Len(dn) + n <= UdsCap,
           \A c \in Clients : Len(got[c]) \in Nat
    PROVE  LocalInv(k, [cn EXCEPT !.buf = SubSeq(@, n + 1, Len(@)), !.rxfwd = Wrap(@ + n)], u,
                    dn \o SubSeq(cn.buf, 1, n), s, t, sk, j)
<1> DEFINE b == cn.buf
           m == Len(b)
           b1 == SubSeq(b, 1, n)
           b2 == SubSeq(b, n + 1, m)
           dn2 == dn \o b1
           cn2 == [cn EXCEPT !.buf = SubSeq(@, n + 1, Len(@)), !.rxfwd = Wrap(@ + n)]
<1>1. /\ cn \in ConnT /\ u \in LineT /\ s \in Seq(RxPackets) /\ sk \in SockT /\ j \in JobT
      /\ t \in Seq(TxPackets) /\ dn \in Seq(Frames)
  BY DEF Typed
<1>2. b \in Seq(Frames) /\ m \in Nat /\ n \in Nat /\ n <= m /\ Len(dn) \in Nat
  BY <1>1, ConnInts
<1>3. /\ cn2.st = "established" /\ cn2.tx = cn.tx /\ cn2.rxfwd = Wrap(cn.rxfwd + n) /\ cn2.buf = b2
      /\ cn2.alloc = cn.alloc /\ cn2.fwd = cn.fwd
  BY <1>1 DEF ConnT
<1>4. Opened(k, cn, u, dn, s, t, sk, j)
  BY DEF LocalInv, StreamInv
<1> HIDE DEF b, cn2
<1>5. /\ b1 \in Seq(Frames) /\ Len(b1) = n /\ \A i \in 1..n : b1[i] = b[i]
  <2>1. /\ b1 \in Seq(Frames) /\ Len(b1) = IF 1 <= n THEN n - 1 + 1 ELSE 0
        /\ \A i \in 1..(n - 1 + 1) : b1[i] = b[1 + i - 1]
    BY <1>2, SubSeqProperties
  <2>2. n - 1 + 1 = n /\ \A i \in 1..n : 1 + i - 1 = i
    BY <1>2
  <2> HIDE DEF b1
  <2>3. QED
    BY <2>1, <2>2, <1>2
<1>6. /\ Len(b2) = m - n /\ \A i \in 1..(m - n) : b2[i] = b[i + n] /\ i + n \in 1..m
  <2>1. /\ Len(b2) = IF n + 1 <= m THEN m - (n + 1) + 1 ELSE 0
        /\ \A i \in 1..(m - (n + 1) + 1) : b2[i] = b[(n + 1) + i - 1]
    BY <1>2, SubSeqProperties
  <2> HIDE DEF b2, m
  <2>2. Len(b2) = m - n
    BY <2>1, <1>2
  <2>3. ASSUME NEW i \in 1..(m - n) PROVE b2[i] = b[i + n] /\ i + n \in 1..m
    <3>1. i \in 1..(m - (n + 1) + 1) /\ (n + 1) + i - 1 = i + n /\ i + n \in 1..m
      BY <1>2
    <3>2. QED
      BY <2>1, <3>1
  <2>4. QED
    BY <2>2, <2>3
<1>7. /\ Len(dn2) = Len(dn) + n
      /\ \A i \in 1..(Len(dn) + n) : dn2[i] = IF i <= Len(dn) THEN dn[i] ELSE b1[i - Len(dn)]
  <2> HIDE DEF b1
  <2>1. QED
    BY <1>1, <1>5, ConcatProperties
<1>8. /\ cn.rxfwd \in Int /\ sk.tx \in Int /\ sk.pfwd \in Int
  BY <1>1, ConnInts, SockInts
<1> HIDE DEF m, b1, b2, dn2
<1>9. HostCredit(k, cn2, s, t, sk)
  <2> DEFINE x == Behind(cn.rxfwd, sk.tx)
             r == InReturn(t, k)
  <2>1. x \in Int /\ r \in Nat /\ m + r = x /\ x <= Behind(sk.pfwd, sk.tx)
    BY <1>1, <1>4, <1>8, BehindInt, InReturnType DEF Opened, HostCredit, m, b
  <2>2. n <= x
    <3> HIDE DEF x, r
    <3> QED BY <1>2, <2>1
  <2>3. Behind(cn2.rxfwd, sk.tx) = x - n
    BY <1>2, <1>3, <1>8, <2>2, BehindLess
  <2>4. cn2.rxfwd \in Int /\ Behind(sk.pfwd, sk.tx) \in Int
    <3>1. cn.rxfwd + n \in Int
      BY <1>2, <1>8
    <3>2. cn2.rxfwd \in 0..(Modulus - 1)
      BY <3>1, <1>3, WrapType
    <3>3. cn2.rxfwd \in Int
      BY <3>2, AssumeTypes
    <3>4. QED
      BY <3>3, <1>8, BehindInt
  <2>5. x - n <= x /\ x - n <= Behind(sk.pfwd, sk.tx) /\ (m - n) + r = x - n
    <3> HIDE DEF x, r
    <3> QED BY <1>2, <2>1, <2>4
  <2>6. Counts(s, k, sk.tx, sk.pfwd, cn2.rxfwd)
    BY <1>4, <1>8, <2>3, <2>4, <2>5, CountsCloser DEF Opened, HostCredit
  <2>7. QED
    BY <1>3, <1>4, <1>6, <2>3, <2>5, <2>6 DEF Opened, HostCredit
<1>10. GuestCredit(k, cn2, s, t, sk)
  BY <1>3, <1>4 DEF Opened, GuestCredit
<1>11. StreamInv(k, cn2, u, dn2, s, t, sk, j)
  <2>1. Opened(k, cn2, u, dn2, s, t, sk, j)
    BY <1>4, <1>9, <1>10 DEF Opened
  <2>2. Len(dn2) <= UdsCap
    BY <1>7
  <2>3. QED
    BY <1>3, <2>1, <2>2 DEF LocalInv, StreamInv, Early
<1>12. ASSUME NEW c \in Clients, client[c].k = k PROVE OwnerInv(c, k, cn2, u, dn2, s, t, sk, j)
  <2>1. OwnerInv(c, k, cn, u, dn, s, t, sk, j)
    BY <1>12 DEF LocalInv
  <2>2. client[c].pc # "handshake"
    BY <2>1 DEF OwnerInv, Shaking
  <2>3. ASSUME NEW a \in Nat, Commanding(a, k, cn, dn, t, j) PROVE Commanding(a, k, cn2, dn2, t, j)
    <3> DEFINE l == Len(dn)
    <3>0. l \in Nat /\ m = Len(cn.buf)
      BY <1>2 DEF m, b
    <3>1. /\ \A i \in 1..l : Nth(j, dn[i], a + i)
          /\ \A i \in 1..m : Nth(j, b[i], a + l + i)
          /\ InTx(a + l + m, k, t, j)
      BY <2>3, <3>0 DEF Commanding, Delivering, b
    <3>2. ASSUME NEW i \in 1..(l + n) PROVE Nth(j, dn2[i], a + i)
      <4>1. CASE i <= l
        BY <1>7, <3>0, <3>1, <4>1
      <4>2. CASE ~(i <= l)
        <5> HIDE DEF l
        <5>1. i - l \in 1..n /\ i - l \in 1..m /\ a + l + (i - l) = a + i
          BY <1>2, <3>0, <4>2
        <5>2. dn2[i] = b1[i - l]
          BY <1>7, <4>2 DEF l
        <5>3. QED
          BY <1>5, <3>1, <5>1, <5>2
      <4>3. QED
        BY <4>1, <4>2
    <3>3. ASSUME NEW i \in 1..(m - n) PROVE Nth(j, b2[i], a + (l + n) + i)
      <4> HIDE DEF l
      <4>1. a + (l + n) + i = a + l + (i + n)
        BY <1>2, <3>0
      <4>2. QED
        BY <1>6, <3>1, <4>1
    <3>4. a + (l + n) + (m - n) = a + l + m
      <4>1. l \in Int /\ n \in Int /\ m \in Int /\ a \in Int
        BY <1>2, <3>0
      <4> HIDE DEF l
      <4>2. QED
        BY <4>1
    <3>5. QED
      BY <1>3, <1>6, <1>7, <3>1, <3>2, <3>3, <3>4 DEF Commanding, Delivering
  <2>4. QED
    BY <2>1, <2>2, <2>3 DEF OwnerInv
<1>13. QED
  BY <1>11, <1>12 DEF LocalInv, cn2, dn2, b1, b

(* The connection is removed: RST or SHUTDOWN, and nobody waits for it. *)
LEMMA Removed ==
    ASSUME NEW k, NEW cn, NEW u, NEW dn, NEW s, NEW t, NEW sk, NEW j, Typed(cn, u, dn, s, t, sk, j),
           LocalInv(k, cn, u, dn, s, t, sk, j), cn.st = "established",
           \A c \in Clients : client[c].k = k => client[c].pc \notin {"handshake", "command"},
           NEW p \in RxPackets, p.op \in {"RST", "SHUTDOWN"}, NEW v, Pushed(s, v, p)
    PROVE  LocalInv(k, [NoConn EXCEPT !.st = "dropped"], u, dn, v, t, sk, j)
<1> DEFINE cn2 == [NoConn EXCEPT !.st = "dropped"]
<1>1. cn \in ConnT /\ u \in LineT /\ s \in Seq(RxPackets) /\ sk \in SockT /\ j \in JobT
  BY DEF Typed
<1>2. PICK w \in Seq(RxPackets) : v = Append(w, p) /\ LocalInv(k, cn, u, dn, w, t, sk, j)
  <2>1. LocalThen(p, k, cn, u, dn, v, t, sk, j)
    BY <1>1, LocalLost
  <2>2. QED
    BY <2>1 DEF LocalThen
<1>3. Opened(k, cn, u, dn, w, t, sk, j)
  BY <1>2 DEF LocalInv, StreamInv
<1>4. cn2.st = "dropped" /\ cn2.buf = <<>>
  BY DEF NoConn
<1> HIDE DEF cn2
<1>5. InFlight(v, k) = InFlight(w, k)
  <2>1. LoadTo(p, k) = 0 /\ InFlight(w, k) \in Nat
    BY InFlightType DEF LoadTo, Carries
  <2>2. QED
    BY <2>1, <1>2, InFlightAppend
<1>6. Dropped(k, v)
  BY <1>2, <1>3, AppendFacts DEF Opened, Dropped
<1>7. StreamInv(k, cn2, u, dn, v, t, sk, j)
  <2>1. Counted(k, u, w, sk, j) => Counted(k, u, v, sk, j)
    BY <1>5 DEF Counted
  <2>2. QED
    BY <1>2, <1>4, <1>5, <1>6, <2>1 DEF LocalInv, StreamInv, Early
<1>8. QED
  BY <1>7 DEF LocalInv, OwnerInv, cn2

(* The CONNECT line is there, and REQUEST is sent. *)
LEMMA Requested ==
    ASSUME NEW k, NEW cn, NEW u, NEW dn, NEW s, NEW t, NEW sk, NEW j, Typed(cn, u, dn, s, t, sk, j),
           LocalInv(k, cn, u, dn, s, t, sk, j), cn.st = "pending",
           NEW p \in RxPackets, p.op = "REQUEST", p.port = k, NEW v, Pushed(s, v, p)
    PROVE  LocalInv(k, [cn EXCEPT !.st = "connecting"], Tail(u), dn, v, t, sk, j)
<1> DEFINE cn2 == [cn EXCEPT !.st = "connecting"]
           u2 == Tail(u)
<1>1. cn \in ConnT /\ u \in LineT /\ s \in Seq(RxPackets) /\ sk \in SockT /\ j \in JobT
  BY DEF Typed
<1>2. PICK w \in Seq(RxPackets) : v = Append(w, p) /\ LocalInv(k, cn, u, dn, w, t, sk, j)
  <2>1. LocalThen(p, k, cn, u, dn, v, t, sk, j)
    BY <1>1, LocalLost
  <2>2. QED
    BY <2>1 DEF LocalThen
<1>3. Unopened(k, cn, u, dn, w, t, sk, j)
  BY <1>2 DEF LocalInv, StreamInv, Early
<1>4. u2 = <<>> /\ Len(u2) = 0
  BY <1>3 DEF Unopened
<1>5. cn2 = [NoConn EXCEPT !.st = "connecting"] /\ cn2.st = "connecting"
  <2>1. cn = [NoConn EXCEPT !.st = cn.st]
    BY <1>3 DEF Unopened
  <2>2. QED
    BY <2>1 DEF NoConn
<1>6. sk = NoSock /\ j = NoJob /\ dn = <<>> /\ Silent(w, k) /\ Silent(t, k)
  BY <1>3 DEF Unopened
<1>7. sk = [NoSock EXCEPT !.st = sk.st] /\ sk.st = "none" /\ sk.rbuf = 0
  BY <1>6 DEF NoSock
<1>8. j = [NoJob EXCEPT !.pc = j.pc] /\ j.pc = "none" /\ Spent(j) = 0
  BY <1>6 DEF NoJob, Spent, Executed
<1> HIDE DEF cn2, u2
<1>9. InFlight(v, k) = 0
  <2>1. InFlight(w, k) = 0
    BY <1>6, InFlightNone DEF Silent, Carries
  <2>2. LoadTo(p, k) = 0
    BY DEF LoadTo, Carries
  <2>3. QED
    BY <1>2, <2>1, <2>2, InFlightAppend
<1>10. \A i \in 1..Len(v) : v[i].port = k => v[i] = p /\ i = Len(w) + 1
  BY <1>2, <1>6, AppendFacts DEF Silent
<1>11. Opening(k, cn2, u2, dn, v, t, sk, j)
  <2>1. \A i \in 1..Len(v) : v[i].port = k => v[i].op = "REQUEST" /\ sk.st = "none" /\ Silent(t, k)
    BY <1>6, <1>7, <1>10
  <2>2. \A i1, i2 \in 1..Len(v) : v[i1].port = k /\ v[i2].port = k => i1 = i2
    BY <1>10
  <2>3. \A i \in 1..Len(t) : t[i].port # k
    BY <1>6 DEF Silent
  <2>4. QED
    BY <1>4, <1>5, <1>6, <1>7, <1>8, <2>1, <2>2, <2>3 DEF Opening
<1>12. StreamInv(k, cn2, u2, dn, v, t, sk, j)
  <2>1. Counted(k, u2, v, sk, j)
    BY <1>4, <1>7, <1>8, <1>9, AssumeTypes DEF Counted
  <2>2. sk.rbuf + InFlight(v, k) <= GuestBuf
    BY <1>7, <1>9, AssumeTypes
  <2>3. QED
    BY <1>2, <1>5, <1>11, <2>1, <2>2 DEF LocalInv, StreamInv, Early
<1>13. ASSUME NEW c \in Clients, client[c].k = k PROVE OwnerInv(c, k, cn2, u2, dn, v, t, sk, j)
  <2>1. OwnerInv(c, k, cn, u, dn, w, t, sk, j)
    BY <1>2, <1>13 DEF LocalInv
  <2>2. client[c].pc # "command"
    BY <2>1 DEF OwnerInv, Commanding
  <2>3. Shaking(k, cn2, u2, dn, v, t, sk, j)
    BY <1>5, <1>6 DEF Shaking
  <2>4. QED
    BY <2>2, <2>3 DEF OwnerInv
<1>14. QED
  BY <1>12, <1>13 DEF LocalInv, cn2, u2

(* accept_uds. *)
LEMMA Accepted ==
    ASSUME NEW k, NEW cn, NEW u, NEW dn, NEW s, NEW t, NEW sk, NEW j, Typed(cn, u, dn, s, t, sk, j),
           LocalInv(k, cn, u, dn, s, t, sk, j), cn.st = "listen"
    PROVE  LocalInv(k, [cn EXCEPT !.st = "pending"], u, dn, s, t, sk, j)
<1> DEFINE cn2 == [cn EXCEPT !.st = "pending"]
<1>1. Unopened(k, cn, u, dn, s, t, sk, j)
  BY DEF LocalInv, StreamInv, Early
<1>2. cn2 = [NoConn EXCEPT !.st = cn2.st] /\ cn2.st = "pending"
  <2>1. cn = [NoConn EXCEPT !.st = cn.st]
    BY <1>1 DEF Unopened
  <2>2. QED
    BY <2>1 DEF NoConn
<1> HIDE DEF cn2
<1>3. Unopened(k, cn2, u, dn, s, t, sk, j)
  BY <1>1, <1>2 DEF Unopened
<1>4. StreamInv(k, cn2, u, dn, s, t, sk, j)
  BY <1>2, <1>3 DEF LocalInv, StreamInv, Early
<1>5. ASSUME NEW c \in Clients, client[c].k = k PROVE OwnerInv(c, k, cn2, u, dn, s, t, sk, j)
  BY <1>2, <1>3, <1>5 DEF LocalInv, OwnerInv, Commanding, Shaking, Unopened
<1>6. QED
  BY <1>4, <1>5 DEF LocalInv, cn2

-------------------------------------------------------------------------------
(* The worker's methods. *)

(* What they do not change. *)
Around ==
    /\ scene.backlog \in Nat \ {0}
    /\ \A m \in Streams : sock[m] \in SockT /\ job[m] \in JobT /\ hung[m] \in BOOLEAN
    /\ \A c \in Clients : Len(got[c]) \in Nat
    /\ \A c \in Clients : client[c].pc \in {"handshake", "command"} => ~hung[client[c].k]

(* e is d but for what concerns k. *)
Puts(d, e, k, cn, u, dn) ==
    /\ e \in DT /\ e.conn = [d.conn EXCEPT ![k] = cn] /\ e.up = [d.up EXCEPT ![k] = u]
    /\ e.down = [d.down EXCEPT ![k] = dn]
    /\ e.rx = d.rx /\ e.backlog = d.backlog /\ e.room = d.room

LEMMA WInvAt ==
    ASSUME NEW d, NEW t \in Seq(TxPackets), WInv(d, t), Around, NEW k \in Streams
    PROVE  /\ Typed(d.conn[k], d.up[k], d.down[k], Wire(d), t, sock[k], job[k])
           /\ LocalInv(k, d.conn[k], d.up[k], d.down[k], Wire(d), t, sock[k], job[k])
           /\ d \in DT /\ WType(d) /\ d.conn[k] \in ConnT /\ d.up[k] \in LineT
           /\ d.down[k] \in Seq(Frames)
           /\ d.conn \in [Streams -> ConnT] /\ d.up \in [Streams -> LineT]
           /\ d.down \in [Streams -> Seq(Frames)]
<1>1. d \in DT /\ WType(d)
  BY DEF WInv, WType
<1>2. /\ d.conn \in [Streams -> ConnT] /\ d.up \in [Streams -> LineT]
      /\ d.down \in [Streams -> Seq(Frames)] /\ Wire(d) \in Seq(RxPackets)
  BY <1>1, WireType
<1>3. d.conn[k] \in ConnT /\ d.up[k] \in LineT /\ d.down[k] \in Seq(Frames)
  BY <1>2
<1>4. sock[k] \in SockT /\ job[k] \in JobT
  BY DEF Around
<1>5. QED
  BY <1>1, <1>2, <1>3, <1>4 DEF WInv, AliveInv, Typed

LEMMA PutsType ==
    ASSUME NEW d, WType(d), NEW e, NEW k, NEW cn, NEW u, NEW dn, Puts(d, e, k, cn, u, dn)
    PROVE  WType(e) /\ Wire(e) = Wire(d)
<1>1. Wire(e) = Wire(d)
  BY DEF Puts, Wire
<1>2. QED
  BY <1>1 DEF Puts, WType

LEMMA PutsStep ==
    ASSUME NEW d, NEW t \in Seq(TxPackets), WInv(d, t), Around, NEW k \in Streams,
           NEW e, NEW cn, NEW u, NEW dn, Puts(d, e, k, cn, u, dn),
           d.conn[k].st # "none", cn.st # "none",
           NEW t2, t2 = t \/ (t # <<>> /\ t[1].port = k /\ t2 = Without(t, 1)),
           LocalInv(k, cn, u, dn, Wire(d), t2, sock[k], job[k])
    PROVE  WInv(e, t2)
<1>1. WType(e) /\ Wire(e) = Wire(d)
  BY PutsType DEF WInv
<1>2. conn[k].st # "none"
  BY DEF WInv
<1>3. \A m \in Streams : sock[m] \in SockT /\ job[m] \in JobT
  BY DEF Around
<1>4. /\ e.conn = [d.conn EXCEPT ![k] = cn] /\ e.up = [d.up EXCEPT ![k] = u]
      /\ e.down = [d.down EXCEPT ![k] = dn]
  BY DEF Puts
<1>5. LocalInv(k, cn, u, dn, Wire(e), t2, sock[k], job[k])
  BY <1>1
<1>6. QED
  BY <1>1, <1>2, <1>3, <1>4, <1>5, Stepping

LEMMA PutsPush ==
    ASSUME NEW d, NEW t \in Seq(TxPackets), WInv(d, t), Around, NEW k \in Streams,
           NEW e, NEW cn, NEW u, NEW dn, Puts(d, e, k, cn, u, dn),
           d.conn[k].st # "none", cn.st # "none",
           NEW p \in RxPackets, p.port = k, RxShape(p),
           \A v : Pushed(Wire(d), v, p) => LocalInv(k, cn, u, dn, v, t, sock[k], job[k])
    PROVE  WInv(push_to_guest(e, p), t)
<1> DEFINE g == push_to_guest(e, p)
<1>1. WType(e) /\ Wire(e) = Wire(d)
  BY PutsType DEF WInv
<1>2. scene.backlog \in Nat \ {0}
  BY DEF Around
<1>3. /\ WType(g) /\ g.conn = e.conn /\ g.up = e.up /\ g.down = e.down
      /\ Pushed(Wire(d), Wire(g), p)
  BY <1>1, <1>2, PushEffect
<1> HIDE DEF g
<1>4. conn[k].st # "none"
  BY DEF WInv
<1>5. \A m \in Streams : sock[m] \in SockT /\ job[m] \in JobT
  BY DEF Around
<1>6. /\ g.conn = [d.conn EXCEPT ![k] = cn] /\ g.up = [d.up EXCEPT ![k] = u]
      /\ g.down = [d.down EXCEPT ![k] = dn]
  BY <1>3 DEF Puts
<1>7. LocalInv(k, cn, u, dn, Wire(g), t, sock[k], job[k])
  BY <1>3
<1>8. WInv(g, t)
  BY <1>3, <1>4, <1>5, <1>6, <1>7, Stepping
<1>9. QED
  BY <1>8 DEF g

LEMMA DirtyFree ==
    ASSUME NEW d, NEW t, WInv(d, t), NEW b \in BOOLEAN
    PROVE  WInv([d EXCEPT !.dirty = b], t) /\ [d EXCEPT !.dirty = b].conn = d.conn
<1> DEFINE e == [d EXCEPT !.dirty = b]
<1>1. d \in DT
  BY DEF WInv, WType
<1>2. /\ e \in DT /\ e.conn = d.conn /\ e.up = d.up /\ e.down = d.down
      /\ e.rx = d.rx /\ e.backlog = d.backlog /\ e.room = d.room
  BY <1>1 DEF DT
<1> HIDE DEF e
<1>3. Wire(e) = Wire(d)
  BY <1>2 DEF Wire
<1>4. WInv(e, t)
  BY <1>2, <1>3 DEF WInv, WType, AliveInv
<1>5. QED
  BY <1>2, <1>4 DEF e

LEMMA HeaderType ==
    ASSUME NEW d \in DT, NEW k \in Streams, NEW op \in Ops, NEW n \in 0..ExecLen
    PROVE  /\ header(d, k, op, n) \in RxPackets
           /\ header(d, k, op, n).op = op /\ header(d, k, op, n).port = k
           /\ header(d, k, op, n).n = n /\ header(d, k, op, n).fwd = d.conn[k].rxfwd
<1>1. d.conn[k].rxfwd \in 0..(Modulus - 1)
  <2>1. d.conn \in [Streams -> ConnT]
    BY WireType
  <2>2. QED
    BY <2>1 DEF ConnT
<1>2. k \in 0..MaxStreams
  BY AssumeTypes DEF Streams
<1>3. QED
  BY <1>1, <1>2 DEF header, RxPackets

LEMMA RstType ==
    ASSUME NEW k \in 0..MaxStreams
    PROVE  Rst(k) \in RxPackets /\ Rst(k).op = "RST" /\ Rst(k).port = k /\ Rst(k).n = 0
BY AssumeTypes DEF Rst, RxPackets, Ops

LEMMA StreamsPort == \A k \in Streams : k \in 0..MaxStreams /\ k # Boot
BY AssumeTypes DEF Streams, Boot

LEMMA DroppedType ==
    /\ [NoConn EXCEPT !.st = "dropped"] \in ConnT
    /\ [NoConn EXCEPT !.st = "dropped"].st = "dropped"
<1>1. 0 \in 0..(Modulus - 1) /\ <<>> \in Seq(Frames)
  BY ModulusType
<1>2. NoConn \in ConnT
  BY <1>1 DEF NoConn, ConnT
<1>3. QED
  BY <1>2 DEF ConnT

(* CREDIT_UPDATE. *)
LEMMA UpdateSent ==
    ASSUME NEW d, NEW t \in Seq(TxPackets), WInv(d, t), Around, NEW k \in Streams,
           d.conn[k].st = "established"
    PROVE  /\ WInv(send_control(d, k, "CREDIT_UPDATE"), t)
           /\ send_control(d, k, "CREDIT_UPDATE").conn[k].st = "established"
<1> DEFINE cn == d.conn[k]
           cn2 == [cn EXCEPT !.last = cn.rxfwd]
           e == [d EXCEPT !.conn[k].last = d.conn[k].rxfwd]
           p == header(e, k, "CREDIT_UPDATE", 0)
<1>1. /\ Typed(cn, d.up[k], d.down[k], Wire(d), t, sock[k], job[k])
      /\ LocalInv(k, cn, d.up[k], d.down[k], Wire(d), t, sock[k], job[k])
      /\ d \in DT /\ cn \in ConnT
      /\ d.conn \in [Streams -> ConnT] /\ d.up \in [Streams -> LineT]
      /\ d.down \in [Streams -> Seq(Frames)]
  BY WInvAt
<1>2. /\ cn2 \in ConnT /\ cn2.st = "established" /\ cn2.rxfwd = cn.rxfwd
  BY <1>1 DEF ConnT
<1>3. /\ e.conn = [d.conn EXCEPT ![k] = cn2] /\ e.up = d.up /\ e.down = d.down
      /\ e.rx = d.rx /\ e.backlog = d.backlog /\ e.room = d.room /\ e.dirty = d.dirty
      /\ e = [d EXCEPT !.conn = [d.conn EXCEPT ![k] = cn2]]
  BY <1>1 DEF DT
<1>4. e \in DT
  <2>1. [d.conn EXCEPT ![k] = cn2] \in [Streams -> ConnT]
    BY <1>1, <1>2
  <2> HIDE DEF cn2
  <2>2. QED
    BY <1>1, <1>3, <2>1 DEF DT
<1> HIDE DEF cn2, e
<1>5. Puts(d, e, k, cn2, d.up[k], d.down[k])
  BY <1>1, <1>3, <1>4 DEF Puts
<1>6. p \in RxPackets /\ p.op = "CREDIT_UPDATE" /\ p.port = k /\ p.n = 0 /\ p.fwd = cn.rxfwd
  <2>1. e.conn[k] = cn2 /\ 0 \in 0..ExecLen /\ "CREDIT_UPDATE" \in Ops
    BY <1>1, <1>3, AssumeTypes DEF Ops
  <2>2. QED
    BY <1>2, <1>4, <2>1, HeaderType
<1> HIDE DEF p
<1>7. RxShape(p)
  BY <1>6, StreamsPort DEF RxShape
<1>8. ASSUME NEW v, Pushed(Wire(d), v, p)
      PROVE  LocalInv(k, cn2, d.up[k], d.down[k], v, t, sock[k], job[k])
  BY <1>1, <1>6, <1>8, Updating DEF cn2
<1>9. WInv(push_to_guest(e, p), t)
  BY <1>2, <1>5, <1>6, <1>7, <1>8, PutsPush
<1>10. send_control(d, k, "CREDIT_UPDATE") = push_to_guest(e, p)
  BY DEF send_control, Live, e, p
<1>11. push_to_guest(e, p).conn = e.conn
  BY <1>4 DEF push_to_guest, enqueue_backlog, write_rx, DT
<1>12. QED
  BY <1>1, <1>2, <1>3, <1>9, <1>10, <1>11

(* RST or SHUTDOWN, and the connection is gone. *)
LEMMA DropSent ==
    ASSUME NEW d, NEW t \in Seq(TxPackets), WInv(d, t), Around, NEW k \in Streams,
           d.conn[k].st = "established", hung[k], NEW op \in {"RST", "SHUTDOWN"}
    PROVE  WInv(Drop(send_control(d, k, op), k), t) /\ Drop(send_control(d, k, op), k).conn[k].st = "dropped"
<1> DEFINE cn == d.conn[k]
           cn2 == [NoConn EXCEPT !.st = "dropped"]
           p == header(d, k, op, 0)
           g == push_to_guest(d, p)
           e == [g EXCEPT !.conn[k] = cn2]
<1>1. /\ Typed(cn, d.up[k], d.down[k], Wire(d), t, sock[k], job[k])
      /\ LocalInv(k, cn, d.up[k], d.down[k], Wire(d), t, sock[k], job[k])
      /\ d \in DT /\ cn \in ConnT /\ WType(d)
      /\ d.conn \in [Streams -> ConnT] /\ d.up \in [Streams -> LineT]
      /\ d.down \in [Streams -> Seq(Frames)]
  BY WInvAt
<1>2. cn2 \in ConnT /\ cn2.st = "dropped"
  BY DroppedType
<1>3. p \in RxPackets /\ p.op = op /\ p.port = k /\ p.n = 0
  <2>1. 0 \in 0..ExecLen /\ op \in Ops
    BY AssumeTypes DEF Ops
  <2>2. QED
    BY <1>1, <2>1, HeaderType
<1> HIDE DEF p, cn2
<1>4. RxShape(p)
  BY <1>3, StreamsPort DEF RxShape
<1>5. /\ WType(g) /\ g.conn = d.conn /\ g.up = d.up /\ g.down = d.down
      /\ Pushed(Wire(d), Wire(g), p) /\ g \in DT
  <2>1. scene.backlog \in Nat \ {0}
    BY DEF Around
  <2>2. QED
    BY <1>1, <1>3, <1>4, <2>1, PushEffect DEF WType
<1> HIDE DEF g
<1>6. /\ e \in DT /\ e.conn = [d.conn EXCEPT ![k] = cn2] /\ e.up = d.up /\ e.down = d.down
      /\ e.rx = g.rx /\ e.backlog = g.backlog /\ e.room = g.room
  <2>1. [g.conn EXCEPT ![k] = cn2] \in [Streams -> ConnT]
    BY <1>1, <1>2, <1>5
  <2>2. e = [g EXCEPT !.conn = [g.conn EXCEPT ![k] = cn2]]
    BY <1>5 DEF DT
  <2>3. QED
    BY <1>5, <2>1, <2>2 DEF DT
<1>7. Wire(e) = Wire(g)
  BY <1>6 DEF Wire
<1>8. WType(e)
  BY <1>5, <1>6, <1>7 DEF WType
<1> HIDE DEF e
<1>9. \A c \in Clients : client[c].k = k => client[c].pc \notin {"handshake", "command"}
  BY DEF Around
<1>10. LocalInv(k, cn2, d.up[k], d.down[k], Wire(e), t, sock[k], job[k])
  BY <1>1, <1>3, <1>5, <1>7, <1>9, Removed DEF cn2
<1>11. WInv(e, t)
  <2>1. \A m \in Streams : sock[m] \in SockT /\ job[m] \in JobT
    BY DEF Around
  <2>2. conn[k].st # "none" /\ cn2.st # "none"
    BY <1>2 DEF WInv
  <2>3. e.up = [d.up EXCEPT ![k] = d.up[k]] /\ e.down = [d.down EXCEPT ![k] = d.down[k]]
    BY <1>1, <1>6
  <2>4. Pushed(Wire(d), Wire(e), p)
    BY <1>5, <1>7
  <2>5. QED
    BY <1>3, <1>6, <1>8, <1>10, <2>1, <2>2, <2>3, <2>4, Stepping
<1>12. send_control(d, k, op) = g
  BY DEF send_control, Live, g, p
<1>13. Live(g, k)
  BY <1>5 DEF Live
<1>14. Drop(g, k) = e
  BY <1>13 DEF Drop, e, cn2
<1>15. QED
  BY <1>1, <1>2, <1>6, <1>11, <1>12, <1>14

LEMMA LocalCap ==
    ASSUME NEW k, NEW cn, NEW u, NEW dn, NEW s, NEW t, NEW sk, NEW j, LocalInv(k, cn, u, dn, s, t, sk, j)
    PROVE  Len(dn) <= UdsCap
BY DEF LocalInv, StreamInv

LEMMA FlushKeeps ==
    ASSUME NEW d, NEW t \in Seq(TxPackets), WInv(d, t), Around, NEW k \in Streams,
           d.conn[k].st = "established"
    PROVE  WInv(flush_to_uds(d, k), t) /\ flush_to_uds(d, k).conn[k].st # "connecting"
<1> DEFINE cn == d.conn[k]
           n == Least(Len(cn.buf), UdsCap - Len(d.down[k]))
           cn2 == [cn EXCEPT !.buf = SubSeq(@, n + 1, Len(@)), !.rxfwd = Wrap(@ + n)]
           dn2 == d.down[k] \o SubSeq(cn.buf, 1, n)
           e == [d EXCEPT !.down[k] = @ \o SubSeq(cn.buf, 1, n),
                          !.conn[k].buf = SubSeq(@, n + 1, Len(@)),
                          !.conn[k].rxfwd = Wrap(@ + n)]
<1>1. /\ Typed(cn, d.up[k], d.down[k], Wire(d), t, sock[k], job[k])
      /\ LocalInv(k, cn, d.up[k], d.down[k], Wire(d), t, sock[k], job[k])
      /\ d \in DT /\ cn \in ConnT /\ d.down[k] \in Seq(Frames) /\ d.up[k] \in LineT
      /\ d.conn \in [Streams -> ConnT] /\ d.up \in [Streams -> LineT]
      /\ d.down \in [Streams -> Seq(Frames)]
  BY WInvAt
<1>2. CASE cn.buf = <<>>
  <2>1. flush_to_uds(d, k) = d
    BY <1>2 DEF flush_to_uds
  <2>2. QED
    BY <2>1
<1>3. CASE cn.buf # <<>> /\ hung[k]
  <2>1. flush_to_uds(d, k) = [Drop(send_control(d, k, "RST"), k) EXCEPT !.dirty = d.dirty]
    BY <1>3 DEF flush_to_uds
  <2>2. /\ WInv(Drop(send_control(d, k, "RST"), k), t)
        /\ Drop(send_control(d, k, "RST"), k).conn[k].st = "dropped"
    BY <1>3, DropSent
  <2>3. d.dirty \in BOOLEAN
    BY <1>1 DEF DT
  <2>4. QED
    BY <2>1, <2>2, <2>3, DirtyFree
<1>4. CASE cn.buf # <<>> /\ ~hung[k]
  <2>1. Len(cn.buf) \in Nat /\ Len(d.down[k]) \in Nat /\ Len(d.down[k]) <= UdsCap /\ UdsCap \in Nat
    BY <1>1, ConnInts, LocalCap, AssumeTypes
  <2>2. n \in 0..Len(cn.buf) /\ Len(d.down[k]) + n <= UdsCap /\ n \in Nat
    <3> DEFINE x == Len(cn.buf)
               y == Len(d.down[k])
    <3>1. /\ x \in Nat /\ y \in Nat /\ y <= UdsCap /\ UdsCap \in Nat
      BY <2>1
    <3> HIDE DEF x, y
    <3>2. Least(x, UdsCap - y) \in 0..x /\ y + Least(x, UdsCap - y) <= UdsCap
          /\ Least(x, UdsCap - y) \in Nat
      BY <3>1 DEF Least
    <3>3. QED
      BY <3>2 DEF x, y
  <2> HIDE DEF n
  <2>3. LocalInv(k, cn2, d.up[k], dn2, Wire(d), t, sock[k], job[k])
    <3>1. \A c \in Clients : Len(got[c]) \in Nat
      BY DEF Around
    <3>2. QED
      BY <1>1, <1>4, <2>2, <3>1, Delivered
  <2>4. cn2 \in ConnT /\ cn2.st = "established" /\ cn2.last = cn.last
    <3>1. SubSeq(cn.buf, n + 1, Len(cn.buf)) \in Seq(Frames)
      <4>1. cn.buf \in Seq(Frames)
        BY <1>1, ConnInts
      <4>2. QED
        BY <2>1, <2>2, <4>1, SubSeqProperties
    <3>2. Wrap(cn.rxfwd + n) \in 0..(Modulus - 1)
      <4>1. cn.rxfwd \in Int
        BY <1>1, ConnInts
      <4>2. cn.rxfwd + n \in Int
        BY <2>2, <4>1
      <4>3. QED
        BY <4>2, WrapType
    <3>3. QED
      BY <1>1, <3>1, <3>2 DEF ConnT
  <2>5. dn2 \in Seq(Frames)
    <3>1. cn.buf \in Seq(Frames) /\ SubSeq(cn.buf, 1, n) \in Seq(Frames)
      <4>1. cn.buf \in Seq(Frames)
        BY <1>1, ConnInts
      <4>2. QED
        BY <2>1, <2>2, <4>1, SubSeqProperties
    <3> DEFINE b1 == SubSeq(cn.buf, 1, n)
               x == d.down[k]
    <3>2. b1 \in Seq(Frames) /\ x \in Seq(Frames)
      BY <1>1, <3>1
    <3> HIDE DEF b1, x
    <3>3. x \o b1 \in Seq(Frames)
      BY <3>2, ConcatProperties
    <3>4. QED
      BY <3>3 DEF b1, x
  <2>6. e = [d EXCEPT !.down = [d.down EXCEPT ![k] = dn2], !.conn = [d.conn EXCEPT ![k] = cn2]]
    BY <1>1 DEF DT, ConnT
  <2> HIDE DEF e, cn2, dn2
  <2>7. Puts(d, e, k, cn2, d.up[k], dn2)
    <3>1. [d.conn EXCEPT ![k] = cn2] \in [Streams -> ConnT] /\ [d.down EXCEPT ![k] = dn2] \in [Streams -> Seq(Frames)]
      BY <1>1, <2>4, <2>5
    <3>2. e \in DT
      BY <1>1, <2>6, <3>1 DEF DT
    <3>3. d.up = [d.up EXCEPT ![k] = d.up[k]]
      BY <1>1
    <3>4. QED
      BY <1>1, <2>6, <3>2, <3>3 DEF DT, Puts
  <2>8. WInv(e, t)
    BY <2>3, <2>4, <2>7, PutsStep
  <2>9. e.conn[k] = cn2
    BY <1>1, <2>7 DEF Puts
  <2>10. /\ WInv(send_control(e, k, "CREDIT_UPDATE"), t)
         /\ send_control(e, k, "CREDIT_UPDATE").conn[k].st = "established"
    BY <2>4, <2>8, <2>9, UpdateSent
  <2>11. flush_to_uds(d, k) \in {e, send_control(e, k, "CREDIT_UPDATE")}
    BY <1>4 DEF flush_to_uds, e, n
  <2>12. QED
    BY <2>4, <2>8, <2>9, <2>10, <2>11
<1>5. QED
  BY <1>2, <1>3, <1>4 DEF Around

LEMMA SendKeeps ==
    ASSUME NEW d, NEW t \in Seq(TxPackets), WInv(d, t), Around, NEW k \in Streams,
           d.conn[k].st = "established", NEW n \in 1..Len(d.up[k]), n <= available(d.conn[k])
    PROVE  WInv(send_rw(d, k, n), t) /\ send_rw(d, k, n).conn[k].st = "established"
<1> DEFINE cn == d.conn[k]
           cn2 == [cn EXCEPT !.tx = Wrap(@ + n)]
           u2 == SubSeq(d.up[k], n + 1, Len(d.up[k]))
           e == [d EXCEPT !.conn[k].tx = Wrap(@ + n), !.up[k] = SubSeq(@, n + 1, Len(@))]
           p == header(d, k, "RW", n)
<1>1. /\ Typed(cn, d.up[k], d.down[k], Wire(d), t, sock[k], job[k])
      /\ LocalInv(k, cn, d.up[k], d.down[k], Wire(d), t, sock[k], job[k])
      /\ d \in DT /\ cn \in ConnT /\ d.down[k] \in Seq(Frames) /\ d.up[k] \in LineT
      /\ d.conn \in [Streams -> ConnT] /\ d.up \in [Streams -> LineT]
      /\ d.down \in [Streams -> Seq(Frames)]
  BY WInvAt
<1>2. Len(d.up[k]) \in Nat /\ n \in Nat
  BY <1>1 DEF LineT
<1>3. cn2 \in ConnT /\ cn2.st = "established"
  <2>1. Wrap(cn.tx + n) \in 0..(Modulus - 1)
    <3>1. cn.tx \in Int
      BY <1>1, ConnInts
    <3>2. cn.tx + n \in Int
      BY <1>2, <3>1
    <3>3. QED
      BY <3>2, WrapType
  <2>2. QED
    BY <1>1, <2>1 DEF ConnT
<1>4. u2 \in LineT
  BY <1>1, <1>2, SubSeqProperties DEF LineT
<1>5. n \in 0..ExecLen
  <2> DEFINE x == Len(d.up[k])
             y == InFlight(Wire(d), k)
             z == sock[k].rbuf
             w == Spent(job[k])
  <2>1. x + y + z + w <= ExecLen
    BY <1>1 DEF LocalInv, StreamInv, Early, Counted
  <2>2. x \in Nat /\ y \in Nat /\ z \in Nat /\ w \in Nat /\ n <= x /\ ExecLen \in Nat
    BY <1>1, <1>2, SockInts, JobInts, InFlightType, AssumeTypes DEF Typed
  <2> HIDE DEF x, y, z, w
  <2>3. QED
    BY <1>2, <2>1, <2>2
<1>6. e = [d EXCEPT !.conn = [d.conn EXCEPT ![k] = cn2], !.up = [d.up EXCEPT ![k] = u2]]
  BY <1>1 DEF DT
<1> HIDE DEF cn2, u2, e
<1>7. Puts(d, e, k, cn2, u2, d.down[k])
  <2>1. [d.conn EXCEPT ![k] = cn2] \in [Streams -> ConnT] /\ [d.up EXCEPT ![k] = u2] \in [Streams -> LineT]
    BY <1>1, <1>3, <1>4
  <2>2. e \in DT
    BY <1>1, <1>6, <2>1 DEF DT
  <2>3. d.down = [d.down EXCEPT ![k] = d.down[k]]
    BY <1>1
  <2>4. QED
    BY <1>1, <1>6, <2>2, <2>3 DEF DT, Puts
<1>8. p \in RxPackets /\ p.op = "RW" /\ p.port = k /\ p.n = n /\ p.fwd = cn.rxfwd
  <2>1. "RW" \in Ops
    BY DEF Ops
  <2>2. QED
    BY <1>1, <1>5, <2>1, HeaderType
<1> HIDE DEF p
<1>9. RxShape(p)
  BY <1>8, StreamsPort DEF RxShape
<1>10. ASSUME NEW v, Pushed(Wire(d), v, p)
       PROVE  LocalInv(k, cn2, u2, d.down[k], v, t, sock[k], job[k])
  BY <1>1, <1>8, <1>10, Sending DEF cn2, u2
<1>11. WInv(push_to_guest(e, p), t)
  BY <1>3, <1>7, <1>8, <1>9, <1>10, PutsPush
<1>12. send_rw(d, k, n) = push_to_guest(e, p)
  BY DEF send_rw, e, p
<1>13. push_to_guest(e, p).conn = e.conn
  BY <1>7 DEF Puts, push_to_guest, enqueue_backlog, write_rx, DT
<1>14. e.conn[k] = cn2
  BY <1>1, <1>7 DEF Puts
<1>15. QED
  BY <1>3, <1>11, <1>12, <1>13, <1>14

LEMMA PumpKeeps ==
    ASSUME NEW d, NEW t \in Seq(TxPackets), WInv(d, t), Around, NEW k \in Streams
    PROVE  /\ WInv(pump_to_guest(d, k), t)
           /\ d.conn[k].st # "connecting" => pump_to_guest(d, k).conn[k].st # "connecting"
<1> DEFINE n == Least(available(d.conn[k]), Len(d.up[k]))
           e == IF n > 0 THEN send_rw(d, k, n) ELSE d
<1>1. CASE d.conn[k].st # "established"
  BY <1>1 DEF pump_to_guest
<1>2. CASE d.conn[k].st = "established"
  <2>1. WInv(e, t) /\ e.conn[k].st = "established"
    <3>1. CASE n > 0
      <4>1. d.conn[k] \in ConnT /\ d.up[k] \in LineT
        BY WInvAt
      <4>2. available(d.conn[k]) \in Int /\ Len(d.up[k]) \in Int
        <5>1. /\ d.conn[k].tx \in Int /\ d.conn[k].fwd \in Int /\ d.conn[k].alloc \in Int
          BY <4>1, ConnInts
        <5>2. Wrap(d.conn[k].tx - d.conn[k].fwd) \in 0..(Modulus - 1)
          <6>1. d.conn[k].tx - d.conn[k].fwd \in Int
            BY <5>1
          <6>2. QED
            BY <6>1, WrapType
        <5>3. QED
          BY <4>1, <5>1, <5>2, AssumeTypes DEF available, LineT
      <4>3. n \in 1..Len(d.up[k]) /\ n <= available(d.conn[k])
        <5> DEFINE x == available(d.conn[k])
                   y == Len(d.up[k])
        <5>1. x \in Int /\ y \in Int /\ Least(x, y) > 0
          BY <3>1, <4>2
        <5> HIDE DEF x, y
        <5>2. Least(x, y) \in 1..y /\ Least(x, y) <= x
          BY <5>1 DEF Least
        <5>3. QED
          BY <5>2 DEF x, y
      <4> HIDE DEF n
      <4>4. QED
        BY <1>2, <3>1, <4>3, SendKeeps
    <3>2. CASE ~(n > 0)
      BY <1>2, <3>2
    <3>3. QED
      BY <3>1, <3>2
  <2> HIDE DEF e
  <2>2. CASE hung[k] /\ e.up[k] = <<>> /\ available(e.conn[k]) > 0
    <3>1. /\ WInv(Drop(send_control(e, k, "SHUTDOWN"), k), t)
          /\ Drop(send_control(e, k, "SHUTDOWN"), k).conn[k].st = "dropped"
      BY <2>1, <2>2, DropSent
    <3>2. pump_to_guest(d, k) = [Drop(send_control(e, k, "SHUTDOWN"), k) EXCEPT !.dirty = TRUE]
      BY <1>2, <2>2 DEF pump_to_guest, e, n
    <3>3. QED
      BY <3>1, <3>2, DirtyFree
  <2>3. CASE ~(hung[k] /\ e.up[k] = <<>> /\ available(e.conn[k]) > 0)
    <3>1. pump_to_guest(d, k) = e
      BY <1>2, <2>3 DEF pump_to_guest, e, n
    <3>2. QED
      BY <2>1, <3>1
  <2>4. QED
    BY <2>2, <2>3
<1>3. QED
  BY <1>1, <1>2

LEMMA CloseKeeps ==
    ASSUME NEW d, NEW t \in Seq(TxPackets), WInv(d, t), Around, NEW k \in Streams,
           d.conn[k].st # "connecting", hung[k]
    PROVE  WInv(close_conn(d, k), t)
<1>1. CASE d.conn[k].st # "established"
  <2>1. ~Live(d, k)
    BY <1>1 DEF Live
  <2>2. QED
    BY <2>1 DEF close_conn
<1>2. CASE d.conn[k].st = "established"
  <2> DEFINE cn == d.conn[k]
             cn2 == [NoConn EXCEPT !.st = "dropped"]
             e == [d EXCEPT !.conn[k] = [NoConn EXCEPT !.st = "dropped"]]
  <2>1. /\ Typed(cn, d.up[k], d.down[k], Wire(d), t, sock[k], job[k])
        /\ LocalInv(k, cn, d.up[k], d.down[k], Wire(d), t, sock[k], job[k])
        /\ d \in DT /\ d.conn \in [Streams -> ConnT] /\ d.up \in [Streams -> LineT]
        /\ d.down \in [Streams -> Seq(Frames)]
    BY WInvAt
  <2>2. cn2 \in ConnT /\ cn2.st = "dropped"
    BY DroppedType
  <2>3. e = [d EXCEPT !.conn = [d.conn EXCEPT ![k] = cn2]]
    BY <2>1 DEF DT
  <2>4. close_conn(d, k) = push_to_guest(e, Rst(k))
    BY <1>2 DEF close_conn, Live, Drop
  <2> HIDE DEF e, cn2
  <2>5. Puts(d, e, k, cn2, d.up[k], d.down[k])
    <3>1. [d.conn EXCEPT ![k] = cn2] \in [Streams -> ConnT]
      BY <2>1, <2>2
    <3>2. e \in DT
      BY <2>1, <2>3, <3>1 DEF DT
    <3>3. d.down = [d.down EXCEPT ![k] = d.down[k]] /\ d.up = [d.up EXCEPT ![k] = d.up[k]]
      BY <2>1
    <3>4. QED
      BY <2>1, <2>3, <3>2, <3>3 DEF DT, Puts
  <2>6. Rst(k) \in RxPackets /\ Rst(k).op = "RST" /\ Rst(k).port = k /\ Rst(k).n = 0
    BY RstType, StreamsPort
  <2>7. RxShape(Rst(k))
    BY <2>6, StreamsPort DEF RxShape
  <2>8. \A c \in Clients : client[c].k = k => client[c].pc \notin {"handshake", "command"}
    BY DEF Around
  <2>9. ASSUME NEW v, Pushed(Wire(d), v, Rst(k))
        PROVE  LocalInv(k, cn2, d.up[k], d.down[k], v, t, sock[k], job[k])
    BY <1>2, <2>1, <2>6, <2>8, <2>9, Removed DEF cn2
  <2>10. QED
    BY <1>2, <2>2, <2>4, <2>5, <2>6, <2>7, <2>9, PutsPush
<1>3. QED
  BY <1>1, <1>2

(* Drop alone: the connection is refused, or is dropped already. *)
LEMMA PacketKeeps ==
    ASSUME NEW d, NEW t \in Seq(TxPackets), WInv(d, t), Around, t # <<>>, TxShape(t[1])
    PROVE  WInv(handle_guest_packet(d, t[1]), Without(t, 1))
<1> DEFINE p == t[1]
           k == p.port
           t2 == Without(t, 1)
           cn == d.conn[k]
           e == handle_guest_packet(d, p)
<1>1. p \in TxPackets /\ t2 \in Seq(TxPackets)
  BY FirstFacts
<1>2. CASE k = Boot
  <2>1. p.op = "REQUEST"
    BY <1>2 DEF TxShape
  <2>2. e = push_to_guest(d, Rst(k))
    BY <2>1 DEF handle_guest_packet
  <2>3. k \in 0..MaxStreams
    BY <1>1 DEF TxPackets
  <2>4. Rst(k) \in RxPackets /\ Rst(k).op = "RST" /\ Rst(k).port = k /\ Rst(k).n = 0
    BY <2>3, RstType
  <2>5. RxShape(Rst(k))
    BY <2>4 DEF RxShape
  <2>6. WType(d) /\ scene.backlog \in Nat \ {0}
    BY DEF WInv, Around
  <2>7. /\ WType(e) /\ e.conn = d.conn /\ e.up = d.up /\ e.down = d.down
        /\ Pushed(Wire(d), Wire(e), Rst(k))
    BY <2>2, <2>4, <2>5, <2>6, PushEffect
  <2> HIDE DEF e
  <2>8. ASSUME NEW m \in Streams
        PROVE  LocalInv(m, e.conn[m], e.up[m], e.down[m], Wire(e), t2, sock[m], job[m])
    <3>1. m # k
      BY <1>2, StreamsPort
    <3>2. /\ Typed(d.conn[m], d.up[m], d.down[m], Wire(d), t, sock[m], job[m])
          /\ LocalInv(m, d.conn[m], d.up[m], d.down[m], Wire(d), t, sock[m], job[m])
      BY WInvAt
    <3>3. LocalInv(m, d.conn[m], d.up[m], d.down[m], Wire(e), t, sock[m], job[m])
      BY <2>4, <2>7, <3>1, <3>2, LocalPushed DEF Typed
    <3>4. Alike(t2, t, m)
      BY <3>1, AlikeTail
    <3>5. QED
      BY <2>7, <3>3, <3>4, LocalAlike
  <2>9. WInv(e, t2)
    BY <2>7, <2>8 DEF WInv, AliveInv
  <2>10. QED
    BY <2>9 DEF e
<1>3. CASE k # Boot
  <2>1. k \in Streams
    BY <1>1, <1>3, AssumeTypes DEF TxPackets, Streams, Boot
  <2>2. /\ Typed(cn, d.up[k], d.down[k], Wire(d), t, sock[k], job[k])
        /\ LocalInv(k, cn, d.up[k], d.down[k], Wire(d), t, sock[k], job[k])
        /\ d \in DT /\ cn \in ConnT /\ d.up[k] \in LineT /\ d.down[k] \in Seq(Frames)
        /\ d.conn \in [Streams -> ConnT] /\ d.up \in [Streams -> LineT]
        /\ d.down \in [Streams -> Seq(Frames)]
    BY <2>1, WInvAt
  <2>3. p.op \in {"RESPONSE", "RST", "RW", "CREDIT_UPDATE", "CREDIT_REQUEST"}
    BY <1>3 DEF TxShape
  <2>4. 1 \in 1..Len(t)
    BY FirstFacts
  <2>5. cn.st \notin Early
    BY <2>2, <2>4 DEF LocalInv, StreamInv, Unopened, Silent
  <2>6. /\ cn.st = "connecting" => p.op \in {"RESPONSE", "RST"}
        /\ cn.st = "established" => p.op \in {"RW", "CREDIT_UPDATE", "CREDIT_REQUEST"}
    BY <2>2, <2>4 DEF LocalInv, StreamInv, Opening, Opened
  <2>7. cn.st # "none" /\ cn.st \in {"connecting", "established", "dropped"}
    BY <2>2, <2>5 DEF Early, ConnT
  <2>8. ASSUME NEW cn2 \in ConnT, cn2.st # "none", NEW dn2 \in Seq(Frames),
               LocalInv(k, cn2, d.up[k], dn2, Wire(d), t2, sock[k], job[k])
        PROVE  LET g == [d EXCEPT !.conn[k] = cn2, !.down[k] = dn2]
               IN  WInv(g, t2) /\ g.conn[k] = cn2
    <3> DEFINE g == [d EXCEPT !.conn[k] = cn2, !.down[k] = dn2]
    <3>1. [d.conn EXCEPT ![k] = cn2] \in [Streams -> ConnT] /\ [d.down EXCEPT ![k] = dn2] \in [Streams -> Seq(Frames)]
      BY <2>2, <2>8
    <3>2. g = [d EXCEPT !.conn = [d.conn EXCEPT ![k] = cn2], !.down = [d.down EXCEPT ![k] = dn2]]
      BY <2>2 DEF DT
    <3> HIDE DEF g
    <3>3. g \in DT
      BY <2>2, <3>1, <3>2 DEF DT
    <3>4. d.up = [d.up EXCEPT ![k] = d.up[k]]
      BY <2>2
    <3>5. Puts(d, g, k, cn2, d.up[k], dn2)
      BY <2>2, <3>2, <3>3, <3>4 DEF DT, Puts
    <3>6. WInv(g, t2)
      BY <2>1, <2>7, <2>8, <3>5, PutsStep
    <3>7. g.conn[k] = cn2
      BY <2>1, <2>2, <3>5, SMTT(40) DEF Puts
    <3>8. QED
      BY <3>6, <3>7 DEF g
  <2>9. ASSUME NEW cn2 \in ConnT, cn2.st # "none",
               LocalInv(k, cn2, d.up[k], d.down[k], Wire(d), t2, sock[k], job[k])
        PROVE  LET g == [d EXCEPT !.conn[k] = cn2] IN WInv(g, t2) /\ g.conn[k] = cn2
    <3>1. [d EXCEPT !.conn[k] = cn2, !.down[k] = d.down[k]] = [d EXCEPT !.conn[k] = cn2]
      BY <2>1, <2>2 DEF DT
    <3>2. QED
      BY <2>2, <2>8, <2>9, <3>1, ZenonT(40)
  <2>10. CASE cn.st = "dropped"
    <3>1. e = d
      BY <2>3, <2>10 DEF handle_guest_packet, send_control, Live, Drop
    <3>2. LocalInv(k, cn, d.up[k], d.down[k], Wire(d), t2, sock[k], job[k])
      BY <2>2, <2>10, Ignored
    <3>3. [d EXCEPT !.conn[k] = cn] = d
      BY <2>1, <2>2 DEF DT
    <3>4. WInv(d, t2)
      BY <2>2, <2>7, <2>9, <3>2, <3>3
    <3>5. QED
      BY <3>1, <3>4
  <2>11. CASE cn.st = "connecting" /\ p.op = "RESPONSE"
    <3> DEFINE cn2 == [update_peer(cn, p) EXCEPT !.st = "established"]
               dn2 == IF hung[k] THEN d.down[k] ELSE Append(d.down[k], Ok)
    <3>1. LocalInv(k, cn2, d.up[k], dn2, Wire(d), t2, sock[k], job[k])
      BY <2>2, <2>11, Responded
    <3>2. cn2 \in ConnT /\ cn2.st = "established"
      BY <1>1, <2>2 DEF update_peer, ConnT, TxPackets
    <3>3. dn2 \in Seq(Frames)
      <4>1. Ok \in Frames
        BY AssumeTypes DEF Ok, Frames, Codes
      <4>2. QED
        BY <2>2, <4>1, AppendProperties
    <3>4. e = [d EXCEPT !.conn[k] = cn2, !.down[k] = dn2]
      BY <2>1, <2>2, <2>11 DEF handle_guest_packet, Live, DT
    <3> HIDE DEF cn2, dn2, e
    <3>5. WInv(e, t2)
      BY <2>8, <3>1, <3>2, <3>3, <3>4
    <3>6. QED
      BY <3>5 DEF e
  <2>12. CASE cn.st = "connecting" /\ p.op = "RST"
    <3> DEFINE cn2 == [NoConn EXCEPT !.st = "dropped"]
    <3>1. LocalInv(k, cn2, d.up[k], d.down[k], Wire(d), t2, sock[k], job[k])
      BY <2>2, <2>12, Refused
    <3>2. cn2 \in ConnT /\ cn2.st = "dropped"
      BY DroppedType
    <3>3. e = [d EXCEPT !.conn[k] = cn2]
      BY <2>1, <2>12 DEF handle_guest_packet, Live, Drop
    <3> HIDE DEF cn2, e
    <3>4. WInv(e, t2)
      BY <2>9, <3>1, <3>2, <3>3
    <3>5. QED
      BY <3>4 DEF e
  <2>13. CASE cn.st = "established" /\ p.op = "CREDIT_UPDATE"
    <3> DEFINE cn2 == update_peer(cn, p)
    <3>1. LocalInv(k, cn2, d.up[k], d.down[k], Wire(d), t2, sock[k], job[k])
      BY <2>2, <2>13, Updated
    <3>2. cn2 \in ConnT /\ cn2.st = "established"
      BY <1>1, <2>2, <2>13 DEF update_peer, ConnT, TxPackets
    <3>3. e = [d EXCEPT !.conn[k] = cn2]
      BY <2>1, <2>13 DEF handle_guest_packet, Live
    <3> HIDE DEF cn2, e
    <3>4. WInv(e, t2)
      BY <2>9, <3>1, <3>2, <3>3
    <3>5. QED
      BY <3>4 DEF e
  <2>14. CASE cn.st = "established" /\ p.op = "CREDIT_REQUEST"
    <3>1. LocalInv(k, cn, d.up[k], d.down[k], Wire(d), t2, sock[k], job[k])
      BY <2>2, <2>14, Updated
    <3>2. [d EXCEPT !.conn[k] = cn] = d
      BY <2>1, <2>2 DEF DT
    <3>3. WInv(d, t2)
      BY <2>2, <2>7, <2>9, <3>1, <3>2
    <3>4. WInv(send_control(d, k, "CREDIT_UPDATE"), t2)
      BY <1>1, <2>1, <2>14, <3>3, UpdateSent
    <3>5. QED
      BY <2>14, <3>4 DEF handle_guest_packet
  <2>15. CASE cn.st = "established" /\ p.op = "RW"
    <3> DEFINE cn2 == [update_peer(cn, p) EXCEPT !.buf = @ \o p.body]
               g == [d EXCEPT !.conn[k] = cn2]
    <3>1. \A c \in Clients : Len(got[c]) \in Nat
      BY ZenonT(40) DEF Around
    <3>2. LocalInv(k, cn2, d.up[k], d.down[k], Wire(d), t2, sock[k], job[k])
      BY <2>2, <2>15, <3>1, Received, ZenonT(40)
    <3>3. cn2 \in ConnT /\ cn2.st = "established"
      <4> DEFINE b == cn.buf
                 f == p.body
      <4>1. b \in Seq(Frames) /\ f \in Seq(Frames) /\ p.fwd \in 0..(Modulus - 1)
        BY <1>1, <2>2 DEF ConnT, TxPackets
      <4> HIDE DEF b, f
      <4>2. b \o f \in Seq(Frames)
        BY <4>1, ConcatProperties
      <4>3. cn2 = [cn EXCEPT !.alloc = GuestBuf, !.fwd = p.fwd, !.buf = b \o f]
        BY <2>2 DEF update_peer, ConnT, b, f
      <4>4. QED
        BY <2>2, <2>15, <4>1, <4>2, <4>3, ZenonT(40) DEF ConnT
    <3>4. e = flush_to_uds(g, k)
      BY <2>1, <2>15 DEF handle_guest_packet, Live
    <3> HIDE DEF cn2
    <3>5. WInv(g, t2) /\ g.conn[k] = cn2
      BY <2>9, <3>2, <3>3
    <3> HIDE DEF g
    <3>6. WInv(flush_to_uds(g, k), t2)
      BY <1>1, <2>1, <3>3, <3>5, FlushKeeps
    <3>7. QED
      BY <3>4, <3>6
  <2>16. QED
    BY <2>3, <2>6, <2>7, <2>10, <2>11, <2>12, <2>13, <2>14, <2>15
<1>4. QED
  BY <1>2, <1>3

-------------------------------------------------------------------------------
(* The worker's steps. *)

LEMMA TypeParts ==
    ASSUME TypeOK
    PROVE  /\ scene \in Scenes /\ scene.backlog \in Nat \ {0} /\ scene.out \in 0..MaxOut
           /\ scene.streams \in Streams /\ scene.calm \in BOOLEAN
           /\ client \in [Clients -> [pc : {"idle", "dial", "handshake", "command", "done"},
                                      k : 0..MaxStreams]]
           /\ told \in [Clients -> Codes \union {"none", "error", "notready"}]
           /\ got \in [Clients -> Seq(1..MaxOut)] /\ dialled \in 0..MaxStreams
           /\ hung \in [Streams -> BOOLEAN]
           /\ up \in [Streams -> LineT] /\ down \in [Streams -> Seq(Frames)]
           /\ conn \in [Streams -> ConnT]
           /\ sock \in [Streams -> SockT] /\ job \in [Streams -> JobT]
           /\ Now \in DT /\ tx \in Seq(TxPackets)
<1>1. scene \in Scenes
  BY DEF TypeOK
<1>2. /\ scene.backlog \in Nat \ {0} /\ scene.out \in 0..MaxOut /\ scene.streams \in Streams
      /\ scene.calm \in BOOLEAN
  BY <1>1, GuestExecAssumption
<1>3. /\ conn \in [Streams -> ConnT] /\ sock \in [Streams -> SockT] /\ job \in [Streams -> JobT]
      /\ up \in [Streams -> LineT] /\ down \in [Streams -> Seq(Frames)]
      /\ backlog \in Seq(RxPackets) /\ rx \in Seq(RxPackets) /\ room \in 0..RxBufs
  BY DEF TypeOK, ConnT, SockT, JobT, LineT
<1>4. Now \in DT
  BY <1>3 DEF Now, DT
<1>5. QED
  BY <1>1, <1>2, <1>3, <1>4 DEF TypeOK

LEMMA NowIs ==
    /\ Now.conn = conn /\ Now.up = up /\ Now.down = down /\ Now.backlog = backlog
    /\ Now.rx = rx /\ Now.room = room /\ Now.dirty = FALSE /\ Wire(Now) = rx \o backlog
BY DEF Now, Wire

LEMMA IInvAround == ASSUME IInv PROVE Around
<1>1. TypeOK
  BY DEF IInv
<1>2. /\ scene.backlog \in Nat \ {0} /\ got \in [Clients -> Seq(1..MaxOut)]
      /\ sock \in [Streams -> SockT] /\ job \in [Streams -> JobT] /\ hung \in [Streams -> BOOLEAN]
  BY <1>1, TypeParts
<1>3. \A c \in Clients : Len(got[c]) \in Nat
  BY <1>2, LenProperties
<1>4. \A c \in Clients : client[c].pc \in {"handshake", "command"} => ~hung[client[c].k]
  BY DEF IInv, ClientInv
<1>5. QED
  BY <1>2, <1>3, <1>4 DEF Around

LEMMA IInvNow == ASSUME IInv, alive PROVE WInv(Now, tx) /\ tx \in Seq(TxPackets)
<1>1. TypeOK /\ AliveInv(Now, tx) /\ QueueInv
  BY DEF IInv
<1>2. Now \in DT /\ tx \in Seq(TxPackets)
  BY <1>1, TypeParts
<1>3. WType(Now)
  BY <1>1, <1>2, NowIs DEF TypeOK, WType, QueueInv
<1>4. QED
  BY <1>1, <1>2, <1>3, NowIs DEF WInv

(* What the worker leaves keeps the invariant. *)
LEMMA WorkerKeeps ==
    ASSUME IInv, alive, NEW e, WInv(e, tx'),
           conn' = e.conn, up' = e.up, down' = e.down,
           backlog' = e.backlog, rx' = e.rx, room' = e.room,
           irq' \in BOOLEAN, ready' \in BOOLEAN,
           tx' \in Seq(TxPackets), \A i \in 1..Len(tx') : TxShape(tx'[i]),
           UNCHANGED <<scene, host, guest, sock, agent, alive>>
    PROVE  IInv'
<1>1. e \in DT /\ WType(e)
  BY DEF WInv, WType
<1>2. /\ e.rx \in Seq(RxPackets) /\ e.backlog \in Seq(RxPackets)
      /\ e.conn \in [Streams -> ConnT] /\ e.up \in [Streams -> LineT]
      /\ e.down \in [Streams -> Seq(Frames)] /\ e.room \in 0..RxBufs
  BY <1>1, WireType DEF DT
<1>3. TypeOK'
  <2>1. Len(e.backlog) <= scene.backlog /\ Len(e.rx) + e.room = RxBufs
    BY <1>1 DEF WType
  <2>2. conn' \in [Streams ->
          [st : {"none", "listen", "pending", "connecting", "established", "dropped"},
           alloc : {0, GuestBuf}, fwd : 0..(Modulus - 1), tx : 0..(Modulus - 1),
           rxfwd : 0..(Modulus - 1), last : 0..(Modulus - 1), buf : Seq(Frames)]]
    BY <1>2 DEF ConnT
  <2>3. up' \in [Streams -> Seq({"connect", "exec"})] /\ down' \in [Streams -> Seq(Frames)]
    BY <1>2 DEF LineT
  <2>4. QED
    BY <1>2, <2>1, <2>2, <2>3 DEF IInv, TypeOK, host, agent
<1>4. /\ \A k \in Streams : ThreadInv(job[k])' /\ ChildInv(job[k])'
      /\ ReaperInv'
  BY DEF IInv, ReaperInv, agent
<1>5. QueueInv'
  BY <1>1 DEF QueueInv, WType, Wire
<1>6. \A k \in Streams : conn'[k].st = "none" <=> conn[k].st = "none"
  BY DEF WInv
<1>7. DialInv'
  BY <1>6 DEF IInv, DialInv, host
<1>8. ASSUME NEW c \in Clients PROVE ClientInv(c, client[c].k)'
  <2>1. ClientInv(c, client[c].k)
    BY DEF IInv
  <2>2. client' = client /\ told' = told /\ got' = got /\ dialled' = dialled /\ hung' = hung
        /\ job' = job /\ alive' = alive
    BY DEF host, agent
  <2>3. Outcome(c, client[c].k) => Outcome(c, client[c].k)'
    BY <2>2 DEF Outcome
  <2>4. client[c].pc \in {"handshake", "command"} => client[c].k \in Streams
    <3>1. client[c].k \in 0..MaxStreams
      BY DEF IInv, TypeOK
    <3>2. QED
      BY <2>1, <3>1, AssumeTypes DEF ClientInv, Streams
  <2>5. QED
    BY <1>6, <2>1, <2>2, <2>3, <2>4 DEF ClientInv
<1>9. AliveInv(Now, tx)'
  <2>1. /\ Now.conn' = e.conn /\ Now.up' = e.up /\ Now.down' = e.down /\ Wire(Now)' = Wire(e)
    BY DEF Now, Wire
  <2>2. ASSUME NEW k \in Streams
        PROVE  LocalInv(k, Now.conn[k], Now.up[k], Now.down[k], Wire(Now), tx, sock[k], job[k])'
    <3>1. LocalInv(k, e.conn[k], e.up[k], e.down[k], Wire(e), tx', sock[k], job[k])
      BY DEF WInv, AliveInv
    <3>2. client' = client /\ got' = got /\ job' = job /\ sock' = sock
      BY DEF host, agent
    <3>3. QED
      BY <2>1, <3>1, <3>2 DEF LocalInv, OwnerInv
  <2>3. QED
    BY <2>2 DEF AliveInv
<1>10. QED
  BY <1>3, <1>4, <1>5, <1>7, <1>8, <1>9 DEF IInv, agent

LEMMA ProcessTxKeeps == ASSUME IInv, process_tx PROVE IInv'
<1> DEFINE e == handle_guest_packet(Now, Head(tx))
<1>1. alive /\ tx # <<>> /\ tx' = Tail(tx) /\ Become(e) /\ ready' = mark_ready(Head(tx))
  BY DEF process_tx
<1>2. WInv(Now, tx) /\ tx \in Seq(TxPackets) /\ Around
  BY <1>1, IInvNow, IInvAround
<1>3. Head(tx) = tx[1] /\ Tail(tx) = Without(tx, 1) /\ 1 \in 1..Len(tx)
  BY <1>1, <1>2, TailIsWithout
<1>4. \A i \in 1..Len(tx) : TxShape(tx[i])
  BY DEF IInv, QueueInv
<1>5. WInv(e, tx')
  BY <1>1, <1>2, <1>3, <1>4, PacketKeeps
<1>6. tx' \in Seq(TxPackets) /\ \A i \in 1..Len(tx') : TxShape(tx'[i])
  <2>1. /\ Without(tx, 1) \in Seq(TxPackets) /\ Len(Without(tx, 1)) = Len(tx) - 1
        /\ \A i \in 1..(Len(tx) - 1) : Without(tx, 1)[i] = tx[i + 1] /\ i + 1 \in 1..Len(tx)
    BY <1>1, <1>2, FirstFacts
  <2>2. QED
    BY <1>1, <1>3, <1>4, <2>1
<1>7. ready' \in BOOLEAN /\ irq' \in BOOLEAN
  <2>1. ready \in BOOLEAN /\ irq \in BOOLEAN
    BY DEF IInv, TypeOK
  <2>2. QED
    BY <1>1, <2>1 DEF mark_ready, Become
<1> HIDE DEF e
<1>8. UNCHANGED <<scene, host, guest, sock, agent, alive>>
  BY DEF process_tx
<1>9. QED
  BY <1>1, <1>5, <1>6, <1>7, <1>8, WorkerKeeps DEF Become

(* What is left of the queue is the same. *)
LEMMA DrainKeeps == ASSUME IInv, drain_rx_backlog PROVE IInv'
<1> DEFINE n == Least(room, Len(backlog))
           b1 == SubSeq(backlog, 1, n)
           b2 == SubSeq(backlog, n + 1, Len(backlog))
           e == [Now EXCEPT !.rx = rx \o b1, !.backlog = b2, !.room = room - n]
<1>1. /\ alive /\ n > 0 /\ rx' = rx \o b1 /\ room' = room - n /\ backlog' = b2 /\ irq' = TRUE
      /\ UNCHANGED <<scene, host, uds, conn, tx, ready, guest, sock, agent, alive>>
  BY DEF drain_rx_backlog
<1>2. WInv(Now, tx) /\ tx \in Seq(TxPackets) /\ Now \in DT /\ WType(Now)
  BY <1>1, IInvNow DEF WInv, WType
<1>3. /\ rx \in Seq(RxPackets) /\ backlog \in Seq(RxPackets) /\ room \in Nat /\ room <= RxBufs
      /\ Len(rx) \in Nat /\ Len(backlog) \in Nat /\ Len(backlog) <= scene.backlog
      /\ Len(rx) + room = RxBufs
  BY AssumeTypes, LenProperties DEF IInv, TypeOK
<1>4. n \in Nat /\ n <= room /\ n <= Len(backlog)
  BY <1>3 DEF Least
<1> HIDE DEF n
<1>5. /\ b1 \in Seq(RxPackets) /\ Len(b1) = n /\ b2 \in Seq(RxPackets)
      /\ Len(b2) = Len(backlog) - n /\ backlog = b1 \o b2
  <2>1. b1 \in Seq(RxPackets) /\ Len(b1) = n /\ \A i \in 1..n : b1[i] = backlog[i]
    <3>1. /\ b1 \in Seq(RxPackets) /\ Len(b1) = IF 1 <= n THEN n - 1 + 1 ELSE 0
          /\ \A i \in 1..(n - 1 + 1) : b1[i] = backlog[1 + i - 1]
      BY <1>3, <1>4, SubSeqProperties
    <3>2. n - 1 + 1 = n /\ \A i \in 1..n : 1 + i - 1 = i
      BY <1>4
    <3> HIDE DEF b1
    <3>3. QED
      BY <3>1, <3>2, <1>4
  <2> DEFINE m == Len(backlog)
  <2>2. /\ b2 \in Seq(RxPackets) /\ Len(b2) = IF n + 1 <= m THEN m - (n + 1) + 1 ELSE 0
        /\ \A i \in 1..(m - (n + 1) + 1) : b2[i] = backlog[(n + 1) + i - 1]
    BY <1>3, <1>4, SubSeqProperties
  <2> HIDE DEF b1, b2, m
  <2>3. m \in Nat /\ n <= m /\ n \in Nat
    BY <1>3, <1>4 DEF m
  <2>4. Len(b2) = m - n
    BY <2>2, <2>3
  <2>5. /\ b1 \o b2 \in Seq(RxPackets) /\ Len(b1 \o b2) = Len(b1) + Len(b2)
        /\ \A i \in 1..(Len(b1) + Len(b2)) : (b1 \o b2)[i] = IF i <= Len(b1) THEN b1[i] ELSE b2[i - Len(b1)]
    BY <2>1, <2>2, ConcatProperties
  <2>6. Len(b1) + Len(b2) = m
    BY <2>1, <2>3, <2>4
  <2>7. ASSUME NEW i \in 1..m PROVE (b1 \o b2)[i] = backlog[i]
    <3>1. CASE i <= n
      BY <2>1, <2>3, <2>5, <2>6, <3>1
    <3>2. CASE ~(i <= n)
      <4>1. i - n \in 1..(m - (n + 1) + 1) /\ (n + 1) + (i - n) - 1 = i
        BY <2>3, <3>2
      <4>2. (b1 \o b2)[i] = b2[i - n]
        BY <2>1, <2>5, <2>6, <3>2
      <4>3. QED
        BY <2>2, <4>1, <4>2
    <3>3. QED
      BY <3>1, <3>2
  <2>8. Len(b1 \o b2) = Len(backlog)
    BY <2>5, <2>6 DEF m
  <2>9. b1 \o b2 = backlog
    BY <1>3, <2>5, <2>6, <2>7, <2>8, SeqEqual DEF m
  <2>10. QED
    BY <2>1, <2>2, <2>4, <2>9 DEF m
<1> HIDE DEF b1, b2
<1>6. rx \o b1 \in Seq(RxPackets) /\ Len(rx \o b1) = Len(rx) + n /\ (rx \o b1) \o b2 = rx \o backlog
  <2>1. (rx \o b1) \o b2 = rx \o (b1 \o b2)
    BY <1>3, <1>5, ConcatAssociative, SMTT(40)
  <2>2. QED
    BY <1>3, <1>5, <2>1, ConcatProperties
<1>7. /\ e \in DT /\ e.conn = conn /\ e.up = up /\ e.down = down /\ e.rx = rx \o b1
      /\ e.backlog = b2 /\ e.room = room - n
  <2>1. room - n \in 0..RxBufs
    BY <1>3, <1>4, AssumeTypes
  <2> DEFINE r == rx \o b1
  <2>2. r \in Seq(RxPackets)
    BY <1>6
  <2> HIDE DEF r
  <2>3. [Now EXCEPT !.rx = r, !.backlog = b2, !.room = room - n] \in DT
    BY <1>2, <1>5, <2>1, <2>2 DEF DT
  <2>4. e \in DT
    BY <2>3 DEF r
  <2>5. QED
    BY <2>4 DEF Now
<1>8. Wire(e) = Wire(Now)
  BY <1>6, <1>7, NowIs DEF Wire
<1> HIDE DEF e
<1>9. WType(e)
  <2>1. Len(e.backlog) <= scene.backlog
    <3>1. scene.backlog \in Nat
      BY IInvAround DEF Around
    <3>2. QED
      BY <1>3, <1>4, <1>5, <1>7, <3>1
  <2>2. Len(e.rx) + e.room = RxBufs
    <3> DEFINE x == Len(rx)
               y == Len(e.rx)
    <3>1. y = x + n /\ x + room = RxBufs /\ x \in Nat /\ room \in Nat /\ n \in Nat /\ e.room = room - n
      BY <1>3, <1>4, <1>6, <1>7
    <3> HIDE DEF x, y
    <3>2. y + (room - n) = RxBufs
      BY <3>1
    <3>3. QED
      BY <3>1, <3>2 DEF y
  <2>3. QED
    BY <1>2, <1>7, <1>8, <2>1, <2>2 DEF WType
<1>10. WInv(e, tx')
  BY <1>1, <1>2, <1>7, <1>8, <1>9, NowIs DEF WInv, AliveInv
<1>11. tx' \in Seq(TxPackets) /\ \A i \in 1..Len(tx') : TxShape(tx'[i])
  BY <1>1, <1>2 DEF IInv, QueueInv
<1>12. ready' \in BOOLEAN /\ irq' \in BOOLEAN /\ UNCHANGED <<scene, host, guest, sock, agent, alive>>
  BY <1>1 DEF IInv, TypeOK
<1>13. QED
  BY <1>1, <1>7, <1>10, <1>11, <1>12, WorkerKeeps DEF uds

LEMMA AcceptUdsKeeps == ASSUME IInv, accept_uds PROVE IInv'
<1> DEFINE cs == [k \in Streams |-> IF conn[k].st = "listen" THEN [conn[k] EXCEPT !.st = "pending"]
                                    ELSE conn[k]]
           e == [Now EXCEPT !.conn = cs]
<1>1. /\ alive /\ conn' = cs
      /\ UNCHANGED <<scene, host, uds, rings, tx, ready, guest, sock, agent, alive>>
  BY DEF accept_uds
<1>2. WInv(Now, tx) /\ tx \in Seq(TxPackets) /\ Now \in DT /\ WType(Now) /\ Around
  BY <1>1, IInvNow, IInvAround DEF WInv, WType
<1>3. conn \in [Streams -> ConnT]
  BY <1>2, NowIs, WireType
<1>4. cs \in [Streams -> ConnT]
  BY <1>3 DEF ConnT
<1>5. \A k \in Streams : cs[k].st = "none" <=> conn[k].st = "none"
  BY <1>3 DEF ConnT
<1>6. ASSUME NEW k \in Streams
      PROVE  LocalInv(k, cs[k], up[k], down[k], Wire(Now), tx, sock[k], job[k])
  <2>1. /\ Typed(conn[k], up[k], down[k], Wire(Now), tx, sock[k], job[k])
        /\ LocalInv(k, conn[k], up[k], down[k], Wire(Now), tx, sock[k], job[k])
    BY <1>2, NowIs, WInvAt
  <2>2. QED
    BY <2>1, Accepted
<1> HIDE DEF cs
<1>7. /\ e \in DT /\ e.conn = cs /\ e.up = up /\ e.down = down /\ e.rx = rx
      /\ e.backlog = backlog /\ e.room = room
  BY <1>2, <1>4, NowIs DEF DT
<1> HIDE DEF e
<1>8. Wire(e) = Wire(Now)
  BY <1>7, NowIs DEF Wire
<1>9. WType(e)
  BY <1>2, <1>7, <1>8, NowIs DEF WType
<1>10. WInv(e, tx')
  BY <1>1, <1>5, <1>6, <1>7, <1>8, <1>9 DEF WInv, AliveInv
<1>11. tx' \in Seq(TxPackets) /\ \A i \in 1..Len(tx') : TxShape(tx'[i])
  BY <1>1, <1>2 DEF IInv, QueueInv
<1>12. ready' \in BOOLEAN /\ irq' \in BOOLEAN /\ UNCHANGED <<scene, host, guest, sock, agent, alive>>
  BY <1>1 DEF IInv, TypeOK, rings
<1>13. QED
  BY <1>1, <1>7, <1>10, <1>11, <1>12, WorkerKeeps DEF uds, rings

LEMMA BecomeKeeps ==
    ASSUME IInv, alive, NEW e, WInv(e, tx), Become(e), e.dirty \in BOOLEAN,
           UNCHANGED <<scene, host, tx, ready, guest, sock, agent, alive>>
    PROVE  IInv'
<1>1. tx' \in Seq(TxPackets) /\ \A i \in 1..Len(tx') : TxShape(tx'[i])
  BY IInvNow DEF IInv, QueueInv
<1>2. ready' \in BOOLEAN /\ irq' \in BOOLEAN /\ UNCHANGED <<scene, host, guest, sock, agent, alive>>
  BY DEF IInv, TypeOK, Become
<1>3. WInv(e, tx')
  OBVIOUS
<1>4. QED
  BY <1>1, <1>2, <1>3, WorkerKeeps DEF Become

LEMMA PollPendingKeeps == ASSUME IInv, NEW k \in Streams, poll_pending(k) PROVE IInv'
<1> DEFINE cn2 == [conn[k] EXCEPT !.st = "connecting"]
           u2 == Tail(up[k])
           e == [Now EXCEPT !.up[k] = Tail(@), !.conn[k].st = "connecting"]
           p == header(e, k, "REQUEST", 0)
<1>1. /\ alive /\ conn[k].st = "pending" /\ parse_connect(up[k])
      /\ Become(send_control(e, k, "REQUEST"))
      /\ UNCHANGED <<scene, host, tx, ready, guest, sock, agent, alive>>
  BY DEF poll_pending
<1>2. WInv(Now, tx) /\ tx \in Seq(TxPackets) /\ Around
  BY <1>1, IInvNow, IInvAround
<1>3. /\ Typed(conn[k], up[k], down[k], Wire(Now), tx, sock[k], job[k])
      /\ LocalInv(k, conn[k], up[k], down[k], Wire(Now), tx, sock[k], job[k])
      /\ Now \in DT /\ conn[k] \in ConnT /\ up[k] \in LineT
      /\ conn \in [Streams -> ConnT] /\ up \in [Streams -> LineT]
      /\ down \in [Streams -> Seq(Frames)]
  BY <1>2, NowIs, WInvAt
<1>4. cn2 \in ConnT /\ cn2.st = "connecting"
  BY <1>3 DEF ConnT
<1>5. u2 \in LineT
  BY <1>1, <1>3, HeadTailProperties DEF LineT, parse_connect
<1>6. e = [Now EXCEPT !.up = [up EXCEPT ![k] = u2], !.conn = [conn EXCEPT ![k] = cn2]]
  BY <1>3, NowIs DEF DT
<1> HIDE DEF cn2, u2, e
<1>7. Puts(Now, e, k, cn2, u2, down[k])
  <2>1. [conn EXCEPT ![k] = cn2] \in [Streams -> ConnT] /\ [up EXCEPT ![k] = u2] \in [Streams -> LineT]
    BY <1>3, <1>4, <1>5
  <2>2. e \in DT
    BY <1>3, <1>6, <2>1 DEF DT
  <2>3. down = [down EXCEPT ![k] = down[k]]
    BY <1>3
  <2>4. QED
    BY <1>3, <1>6, <2>2, <2>3, NowIs DEF DT, Puts
<1>8. p \in RxPackets /\ p.op = "REQUEST" /\ p.port = k /\ p.n = 0
  <2>1. e \in DT /\ 0 \in 0..ExecLen /\ "REQUEST" \in Ops
    BY <1>7, AssumeTypes DEF Ops, Puts
  <2>2. QED
    BY <2>1, HeaderType
<1>9. e.conn[k] = cn2
  BY <1>3, <1>7, NowIs DEF Puts
<1>10. send_control(e, k, "REQUEST") = push_to_guest(e, p)
  BY <1>4, <1>9 DEF send_control, Live
<1> HIDE DEF p
<1>11. RxShape(p)
  BY <1>8, StreamsPort DEF RxShape
<1>12. ASSUME NEW v, Pushed(Wire(Now), v, p)
       PROVE  LocalInv(k, cn2, u2, down[k], v, tx, sock[k], job[k])
  BY <1>1, <1>3, <1>8, <1>12, Requested DEF cn2, u2
<1>13. WInv(push_to_guest(e, p), tx)
  BY <1>1, <1>2, <1>4, <1>7, <1>8, <1>11, <1>12, NowIs, PutsPush
<1>14. push_to_guest(e, p).dirty \in BOOLEAN
  BY <1>13 DEF WInv, WType, DT
<1>15. QED
  BY <1>1, <1>10, <1>13, <1>14, BecomeKeeps

LEMMA ConnEventKeeps == ASSUME IInv, NEW k \in Streams, ConnEvent(k) PROVE IInv'
<1> DEFINE in  == conn[k].st = "established" /\ available(conn[k]) > 0 /\ (up[k] # <<>> \/ hung[k])
           out == conn[k].buf # <<>> /\ (hung[k] \/ Len(down[k]) < UdsCap)
           d1  == IF out THEN flush_to_uds(Now, k) ELSE Now
           d2  == IF in THEN pump_to_guest(d1, k) ELSE d1
           d3  == IF hung[k] THEN [close_conn(d2, k) EXCEPT !.dirty = TRUE] ELSE d2
<1>1. /\ alive /\ (in \/ out) /\ Become(d3)
      /\ UNCHANGED <<scene, host, tx, ready, guest, sock, agent, alive>>
  BY DEF ConnEvent
<1>2. WInv(Now, tx) /\ tx \in Seq(TxPackets) /\ Around
  BY <1>1, IInvNow, IInvAround
<1>3. conn[k].st = "established"
  <2>1. /\ LocalInv(k, conn[k], up[k], down[k], Wire(Now), tx, sock[k], job[k])
        /\ conn[k] \in ConnT
    BY <1>2, NowIs, WInvAt
  <2>2. CASE in
    BY <2>2
  <2>3. CASE conn[k].buf # <<>>
    BY <2>1, <2>3 DEF LocalInv, StreamInv, Unopened, Opening, Early, NoConn, ConnT
  <2>4. QED
    BY <1>1, <2>2, <2>3
<1> HIDE DEF in, out
<1>4. WInv(d1, tx) /\ d1.conn[k].st # "connecting"
  BY <1>2, <1>3, NowIs, FlushKeeps
<1> HIDE DEF d1
<1>5. WInv(d2, tx) /\ d2.conn[k].st # "connecting"
  BY <1>2, <1>4, PumpKeeps
<1> HIDE DEF d2
<1>6. WInv(d3, tx)
  <2>1. CASE hung[k]
    BY <1>2, <1>5, <2>1, CloseKeeps, DirtyFree
  <2>2. CASE ~hung[k]
    BY <1>5, <2>2
  <2>3. QED
    BY <2>1, <2>2
<1> HIDE DEF d3
<1>7. d3.dirty \in BOOLEAN
  BY <1>6 DEF WInv, WType, DT
<1>8. QED
  BY <1>1, <1>6, <1>7, BecomeKeeps

-------------------------------------------------------------------------------
(* The guest. *)

LEMMA ConcatFirst ==
    ASSUME NEW S, NEW s \in Seq(S), NEW b \in Seq(S), s # <<>>
    PROVE  /\ s \o b \in Seq(S) /\ 1 \in 1..Len(s \o b) /\ (s \o b)[1] = s[1]
           /\ Tail(s) \o b = Without(s \o b, 1)
<1> DEFINE w == s \o b
           v == Tail(s) \o b
           n == Len(s)
           m == Len(b)
<1>1. n \in Nat /\ m \in Nat /\ n > 0
  BY EmptySeq, LenProperties
<1>2. Tail(s) \in Seq(S) /\ Len(Tail(s)) = n - 1 /\ \A i \in 1..(n - 1) : Tail(s)[i] = s[i + 1]
  BY HeadTailProperties
<1>3. /\ w \in Seq(S) /\ Len(w) = n + m
      /\ \A i \in 1..(n + m) : w[i] = IF i <= n THEN s[i] ELSE b[i - n]
  BY ConcatProperties
<1>4. /\ v \in Seq(S) /\ Len(v) = (n - 1) + m
      /\ \A i \in 1..((n - 1) + m) : v[i] = IF i <= n - 1 THEN Tail(s)[i] ELSE b[i - (n - 1)]
  BY <1>2, ConcatProperties
<1> HIDE DEF w, v, n, m
<1>5. 1 \in 1..Len(w) /\ w[1] = s[1]
  BY <1>1, <1>3
<1>6. /\ Without(w, 1) \in Seq(S) /\ Len(Without(w, 1)) = Len(w) - 1
      /\ \A i \in 1..(Len(w) - 1) : Without(w, 1)[i] = IF i < 1 THEN w[i] ELSE w[i + 1]
  BY <1>3, <1>5, WithoutProperties
<1>7. Len(v) = Len(Without(w, 1))
  BY <1>1, <1>3, <1>4, <1>6
<1>8. ASSUME NEW i \in 1..Len(v) PROVE v[i] = Without(w, 1)[i]
  <2>1. i \in 1..((n - 1) + m) /\ i \in 1..(Len(w) - 1) /\ ~(i < 1) /\ i + 1 \in 1..(n + m)
    BY <1>1, <1>3, <1>4
  <2>2. Without(w, 1)[i] = w[i + 1]
    BY <1>6, <2>1
  <2>3. CASE i <= n - 1
    <3>1. i \in 1..(n - 1) /\ i + 1 <= n
      BY <1>1, <2>1, <2>3
    <3>2. QED
      BY <1>2, <1>3, <1>4, <2>1, <2>2, <2>3, <3>1
  <2>4. CASE ~(i <= n - 1)
    <3>1. ~(i + 1 <= n) /\ (i + 1) - n = i - (n - 1)
      BY <1>1, <2>1, <2>4
    <3>2. QED
      BY <1>3, <1>4, <2>1, <2>2, <2>4, <3>1
  <2>5. QED
    BY <2>3, <2>4
<1>9. v = Without(w, 1)
  BY <1>4, <1>6, <1>7, <1>8, SeqEqual
<1>10. QED
  BY <1>3, <1>5, <1>9 DEF w, v

LEMMA RoomBack ==
    ASSUME NEW x \in Nat, NEW r \in Int, NEW b \in Nat, x > 0, r >= 0, x + r = b
    PROVE  (x - 1) + (r + 1) = b /\ r + 1 \in 0..b
OBVIOUS

(* A job that has its code keeps it, and the number of its chunks. *)
Settled(j, j2) == j.code # "none" => j2.code = j.code /\ j2.wrote = j.wrote

(* A step of the guest changes one stream's socket and job, sends at most   *)
(* one packet and takes at most one.                                        *)
LEMMA GuestKeeps ==
    ASSUME IInv, alive, NEW k \in Streams, NEW sk \in SockT, NEW j \in JobT,
           sock' = [sock EXCEPT ![k] = sk], job' = [job EXCEPT ![k] = j],
           tx' = tx \/ \E p \in TxPackets : p.port \in {k, Boot} /\ TxShape(p) /\ tx' = Append(tx, p),
           \/ rx' = rx /\ room' = room
           \/ rx # <<>> /\ rx' = Tail(rx) /\ room' = room + 1,
           backlog' = backlog, irq' \in BOOLEAN, guest' \in {"boot", "pinged", "up", "listening"},
           owned' \subseteq Streams,
           reaper' \in [pc : {"idle", "peeked", "consume"}, k : 0..MaxStreams],
           ThreadInv(j), ChildInv(j), Settled(job[k], j), ReaperInv',
           LocalInv(k, conn[k], up[k], down[k], rx' \o backlog', tx', sk, j),
           UNCHANGED <<scene, host, uds, conn, ready, alive>>
    PROVE  IInv'
<1> DEFINE s == rx \o backlog
           s2 == rx' \o backlog'
<1>1. /\ conn \in [Streams -> ConnT] /\ up \in [Streams -> LineT] /\ down \in [Streams -> Seq(Frames)]
      /\ sock \in [Streams -> SockT] /\ job \in [Streams -> JobT] /\ tx \in Seq(TxPackets) /\ Now \in DT
  BY TypeParts DEF IInv
<1>2. rx \in Seq(RxPackets) /\ backlog \in Seq(RxPackets) /\ s \in Seq(RxPackets)
  BY ConcatProperties DEF IInv, TypeOK
<1>3. /\ s2 \in Seq(RxPackets) /\ rx' \in Seq(RxPackets)
      /\ \A m \in Streams : s2 = s \/ Fewer(s2, s, m)
      /\ \A i \in 1..Len(s2) : RxShape(s2[i])
      /\ Len(rx') + room' = RxBufs /\ room' \in 0..RxBufs
  <2>0. /\ \A i \in 1..Len(s) : RxShape(s[i])
        /\ Len(rx) + room = RxBufs /\ room \in 0..RxBufs
    BY DEF IInv, QueueInv, TypeOK
  <2>1. CASE rx' = rx /\ room' = room
    BY <1>2, <2>0, <2>1
  <2>2. CASE rx # <<>> /\ rx' = Tail(rx) /\ room' = room + 1
    <3>1. s2 = Without(s, 1) /\ 1 \in 1..Len(s)
      BY <1>2, <2>2, ConcatFirst
    <3> HIDE DEF s, s2
    <3>2. /\ s2 \in Seq(RxPackets) /\ Len(s2) = Len(s) - 1 /\ Len(s) \in Nat
          /\ \A i \in 1..(Len(s) - 1) : s2[i] = IF i < 1 THEN s[i] ELSE s[i + 1]
      BY <1>2, <3>1, WithoutProperties
    <3>3. \A m \in Streams : Fewer(s2, s, m)
      BY <1>2, <3>1, FewerWithout
    <3>4. /\ rx' \in Seq(RxPackets) /\ Len(rx') = Len(rx) - 1 /\ Len(rx) \in Nat /\ Len(rx) > 0
      BY <1>2, <2>2, HeadTailProperties, EmptySeq
    <3>5. \A i \in 1..Len(s2) : RxShape(s2[i])
      BY <2>0, <3>2, SMTT(40)
    <3>6. Len(rx') + room' = RxBufs /\ room' \in 0..RxBufs
      <4>1. room \in Int /\ room >= 0 /\ RxBufs \in Nat
        BY <2>0, AssumeTypes
      <4>2. (Len(rx) - 1) + (room + 1) = RxBufs /\ room + 1 \in 0..RxBufs
        BY <2>0, <3>4, <4>1, RoomBack
      <4>3. QED
        BY <2>2, <3>4, <4>2
    <3>7. QED
      BY <3>2, <3>3, <3>4, <3>5, <3>6
  <2>3. QED
    BY <2>1, <2>2
<1>4. /\ tx' \in Seq(TxPackets) /\ \A i \in 1..Len(tx') : TxShape(tx'[i])
      /\ \A m \in Streams : m # k => tx' = tx \/ Alike(tx', tx, m)
  <2>1. \A i \in 1..Len(tx) : TxShape(tx[i])
    BY DEF IInv, QueueInv
  <2>2. CASE tx' = tx
    BY <1>1, <2>1, <2>2
  <2>3. ASSUME NEW p \in TxPackets, p.port \in {k, Boot}, TxShape(p), tx' = Append(tx, p)
        PROVE  /\ tx' \in Seq(TxPackets) /\ \A i \in 1..Len(tx') : TxShape(tx'[i])
               /\ \A m \in Streams : m # k => Alike(tx', tx, m)
    <3>1. tx' \in Seq(TxPackets) /\ \A i \in 1..Len(tx') : TxShape(tx'[i])
      BY <1>1, <2>1, <2>3, AppendFacts
    <3>2. \A m \in Streams : m # k => Alike(tx', tx, m)
      BY <1>1, <2>3, StreamsPort, AlikeAppend
    <3>3. QED
      BY <3>1, <3>2
  <2>4. QED
    BY <2>2, <2>3
<1>5. sock' \in [Streams -> SockT] /\ job' \in [Streams -> JobT] /\ sock'[k] = sk /\ job'[k] = j
      /\ \A m \in Streams : m # k => sock'[m] = sock[m] /\ job'[m] = job[m]
  BY <1>1
<1>6. TypeOK'
  <2>1. sock' \in [Streams -> [st : {"none", "queued", "open", "reset", "closed"}, rbuf : 0..GuestBuf,
                             fwd : 0..(Modulus - 1), tx : 0..(Modulus - 1), pfwd : 0..(Modulus - 1),
                             asked : BOOLEAN]]
    BY <1>5 DEF SockT
  <2>2. job' \in [Streams ->
          [pc : {"none", "read", "exec", "spawned", "wait", "join", "exit", "closed"},
           in : 0..ExecLen, code : Codes \union {"none"}, pipe : 0..PipeCap, wrote : 0..MaxOut,
           reader : {"none", "run", "ended"},
           child : {"none", "running", "zombie", "taken", "reaped"},
           fate : {"none", "exit", "signal", "killed"}, early : BOOLEAN]]
    BY <1>5 DEF JobT
  <2>3. QED
    BY <1>3, <1>4, <2>1, <2>2 DEF IInv, TypeOK, host, uds
<1>7. \A m \in Streams : ThreadInv(job'[m]) /\ ChildInv(job'[m])
  BY <1>5 DEF IInv
<1>8. QueueInv'
  BY <1>3, <1>4 DEF QueueInv
<1>9. DialInv'
  BY DEF IInv, DialInv, host
<1>10. ASSUME NEW c \in Clients PROVE ClientInv(c, client[c].k)'
  <2>1. ClientInv(c, client[c].k)
    BY DEF IInv
  <2>2. client' = client /\ told' = told /\ got' = got /\ dialled' = dialled /\ hung' = hung
        /\ conn' = conn /\ alive' = alive
    BY DEF host
  <2>3. Outcome(c, client[c].k) => Outcome(c, client[c].k)'
    <3>1. ASSUME told[c] \in Codes, client[c].k \in Streams, told[c] = job[client[c].k].code
          PROVE  job'[client[c].k].code = told[c] /\ job'[client[c].k].wrote = job[client[c].k].wrote
      <4>1. told[c] # "none"
        BY <3>1 DEF Codes
      <4>2. QED
        BY <1>5, <3>1, <4>1 DEF Settled
    <3>2. QED
      BY <2>2, <3>1 DEF Outcome
  <2>4. QED
    BY <2>1, <2>2, <2>3 DEF ClientInv
<1>11. ASSUME NEW m \in Streams
       PROVE  LocalInv(m, conn[m], up[m], down[m], s2, tx', sock'[m], job'[m])
  <2>1. CASE m = k
    BY <1>5, <2>1
  <2>2. CASE m # k
    <3>1. LocalInv(m, conn[m], up[m], down[m], s, tx, sock[m], job[m])
      BY NowIs DEF IInv, AliveInv
    <3>2. conn[m] \in ConnT /\ up[m] \in LineT /\ sock[m] \in SockT /\ job[m] \in JobT
      BY <1>1
    <3> HIDE DEF s, s2
    <3>3. LocalInv(m, conn[m], up[m], down[m], s2, tx, sock[m], job[m])
      BY <1>2, <1>3, <3>1, <3>2, LocalFewer
    <3>4. LocalInv(m, conn[m], up[m], down[m], s2, tx', sock[m], job[m])
      BY <1>4, <2>2, <3>3, LocalAlike
    <3>5. QED
      BY <1>5, <2>2, <3>4
  <2>3. QED
    BY <2>1, <2>2
<1>12. AliveInv(Now, tx)'
  <2>1. /\ Now.conn' = conn /\ Now.up' = up /\ Now.down' = down /\ Wire(Now)' = s2
    BY DEF Now, Wire, uds
  <2>2. ASSUME NEW m \in Streams
        PROVE  LocalInv(m, Now.conn[m], Now.up[m], Now.down[m], Wire(Now), tx, sock[m], job[m])'
    <3>1. LocalInv(m, conn[m], up[m], down[m], s2, tx', sock'[m], job'[m])
      BY <1>11
    <3>2. client' = client /\ got' = got
      BY DEF host
    <3> HIDE DEF s2
    <3>3. QED
      BY <2>1, <3>1, <3>2 DEF LocalInv, OwnerInv
  <2>3. QED
    BY <2>2 DEF AliveInv
<1>13. QED
  BY <1>6, <1>7, <1>8, <1>9, <1>10, <1>12 DEF IInv

(* What the guest does to one stream. *)

(* A job that has begun: its stream is established, or gone. *)
Busy(j) == ~(j = [NoJob EXCEPT !.pc = j.pc] /\ j.pc \in {"none", "read"})

LEMMA BusyStream ==
    ASSUME NEW k, NEW cn \in ConnT, NEW u, NEW dn, NEW s, NEW t, NEW sk, NEW j, Busy(j),
           LocalInv(k, cn, u, dn, s, t, sk, j)
    PROVE  /\ cn.st \in {"established", "dropped"} /\ Counted(k, u, s, sk, j)
           /\ sk.st \notin {"none", "queued"}
           /\ cn.st = "established" => Opened(k, cn, u, dn, s, t, sk, j)
           /\ \A c \in Clients : client[c].k = k /\ client[c].pc = "handshake" => cn.st # "established"
<1>1. j # NoJob
  <2>1. NoJob = [NoJob EXCEPT !.pc = NoJob.pc] /\ NoJob.pc = "none"
    BY DEF NoJob
  <2>2. QED
    BY <2>1 DEF Busy
<1>2. cn.st \in {"established", "dropped"}
  BY <1>1 DEF LocalInv, StreamInv, Unopened, Opening, Busy, Early, ConnT
<1>3. QED
  BY <1>1, <1>2 DEF LocalInv, StreamInv, Busy, Early, OwnerInv, Shaking

LEMMA NthKept ==
    ASSUME NEW j \in JobT, NEW j2 \in JobT, Settled(j, j2), j.wrote <= j2.wrote, NEW f, NEW m, Nth(j, f, m)
    PROVE  Nth(j2, f, m)
<1>1. j.wrote \in Nat /\ j2.wrote \in Nat
  BY JobInts
<1>2. CASE f.t = "out" /\ f.n = m /\ m \in 1..j.wrote
  BY <1>1, <1>2 DEF Nth
<1>3. CASE f.t = "exit" /\ m = j.wrote + 1 /\ f.code = j.code /\ j.code # "none"
  BY <1>3 DEF Nth, Settled
<1>4. QED
  BY <1>2, <1>3 DEF Nth

(* The frames in the tx queue keep their numbers. *)
LEMMA InTxKept ==
    ASSUME NEW j \in JobT, NEW j2 \in JobT, Settled(j, j2), j.wrote <= j2.wrote, Sent(j2) = Sent(j),
           NEW b \in Nat, NEW k, NEW t, InTx(b, k, t, j)
    PROVE  InTx(b, k, t, j2)
<1>0. Sent(j) \in Int
  BY JobInts
<1>1. ASSUME NEW i \in 1..Len(t), Carries(t[i], k)
      PROVE  \E m \in (b + 1)..Sent(j2) : Nth(j2, t[i].body[1], m)
  <2>1. PICK m \in (b + 1)..Sent(j) : Nth(j, t[i].body[1], m)
    BY <1>1 DEF InTx
  <2>2. Nth(j2, t[i].body[1], m)
    BY <2>1, NthKept
  <2>3. QED
    BY <2>1, <2>2
<1>2. ASSUME NEW i1 \in 1..Len(t), NEW i2 \in 1..Len(t), i1 < i2, Carries(t[i1], k), Carries(t[i2], k),
             NEW m1 \in Nat, NEW m2 \in Nat, Nth(j2, t[i1].body[1], m1), Nth(j2, t[i2].body[1], m2)
      PROVE  m1 < m2
  <2>1. PICK n1 \in (b + 1)..Sent(j) : Nth(j, t[i1].body[1], n1)
    BY <1>2 DEF InTx
  <2>2. PICK n2 \in (b + 1)..Sent(j) : Nth(j, t[i2].body[1], n2)
    BY <1>2 DEF InTx
  <2>3. n1 = m1 /\ n2 = m2
    <3>1. Nth(j2, t[i1].body[1], n1) /\ Nth(j2, t[i2].body[1], n2)
      BY <2>1, <2>2, NthKept
    <3>2. QED
      BY <1>2, <3>1, NthUnique
  <2>4. QED
    BY <1>2, <2>1, <2>2, <2>3 DEF InTx
<1>3. ASSUME NEW m \in (b + 1)..Sent(j2)
      PROVE  \E i \in 1..Len(t) : Carries(t[i], k) /\ Nth(j2, t[i].body[1], m)
  <2>1. PICK i \in 1..Len(t) : Carries(t[i], k) /\ Nth(j, t[i].body[1], m)
    BY DEF InTx
  <2>2. QED
    BY <2>1, NthKept
<1>4. QED
  BY <1>1, <1>2, <1>3 DEF InTx

LEMMA CommandKept ==
    ASSUME NEW j \in JobT, NEW j2 \in JobT, Settled(j, j2), j.wrote <= j2.wrote, Sent(j2) = Sent(j),
           NEW a \in Nat, NEW k, NEW cn \in ConnT, NEW dn \in Seq(Frames), NEW t, Commanding(a, k, cn, dn, t, j)
    PROVE  Commanding(a, k, cn, dn, t, j2)
<1>1. Len(dn) \in Nat /\ Len(cn.buf) \in Nat
  BY ConnInts, LenProperties
<1>2. a + Len(dn) + Len(cn.buf) \in Nat
  <2> DEFINE x == Len(dn)
             y == Len(cn.buf)
  <2>1. x \in Nat /\ y \in Nat
    BY <1>1
  <2> HIDE DEF x, y
  <2>2. a + x + y \in Nat
    BY <2>1
  <2>3. QED
    BY <2>2 DEF x, y
<1>3. InTx(a + Len(dn) + Len(cn.buf), k, t, j2)
  BY <1>2, InTxKept DEF Commanding
<1>4. Delivering(a, dn, j2)
  BY NthKept DEF Commanding, Delivering
<1>5. \A i \in 1..Len(cn.buf) : Nth(j2, cn.buf[i], a + Len(dn) + i)
  BY NthKept DEF Commanding
<1>6. QED
  BY <1>3, <1>4, <1>5 DEF Commanding

(* A step of a job that begins with a frame to execute and sends nothing. *)
LEMMA JobMoves ==
    ASSUME NEW k, NEW cn, NEW u, NEW dn, NEW s, NEW t, NEW sk, NEW j, Typed(cn, u, dn, s, t, sk, j),
           LocalInv(k, cn, u, dn, s, t, sk, j), Busy(j), NEW j2 \in JobT,
           Settled(j, j2), j.wrote <= j2.wrote, Spent(j2) <= Spent(j),
           Sent(j2) = Sent(j) \/ sk.st = "reset",
           \A c \in Clients : Len(got[c]) \in Nat
    PROVE  LocalInv(k, cn, u, dn, s, t, sk, j2)
<1>1. /\ cn \in ConnT /\ u \in LineT /\ s \in Seq(RxPackets) /\ sk \in SockT /\ j \in JobT
      /\ t \in Seq(TxPackets) /\ dn \in Seq(Frames)
  BY DEF Typed
<1>2. /\ cn.st \in {"established", "dropped"} /\ Counted(k, u, s, sk, j)
      /\ sk.st \notin {"none", "queued"}
      /\ cn.st = "established" => Opened(k, cn, u, dn, s, t, sk, j)
      /\ \A c \in Clients : client[c].k = k /\ client[c].pc = "handshake" => cn.st # "established"
  BY <1>1, BusyStream
<1>3. Counted(k, u, s, sk, j2)
  <2> DEFINE x == Len(u) + InFlight(s, k) + sk.rbuf
  <2>1. x \in Nat /\ Spent(j) \in Nat /\ Spent(j2) \in Nat /\ ExecLen \in Nat
    BY <1>1, SockInts, JobInts, InFlightType, AssumeTypes DEF LineT
  <2>2. x + Spent(j) <= ExecLen
    BY <1>2 DEF Counted
  <2> HIDE DEF x
  <2>3. x + Spent(j2) <= ExecLen
    BY <2>1, <2>2
  <2>4. QED
    BY <1>2, <2>3 DEF Counted, x
<1>4. StreamInv(k, cn, u, dn, s, t, sk, j2)
  <2>1. Opened(k, cn, u, dn, s, t, sk, j) => Opened(k, cn, u, dn, s, t, sk, j2)
    BY DEF Opened
  <2>2. QED
    BY <1>2, <1>3, <2>1 DEF LocalInv, StreamInv, Early
<1>5. ASSUME NEW c \in Clients, client[c].k = k PROVE OwnerInv(c, k, cn, u, dn, s, t, sk, j2)
  <2>1. OwnerInv(c, k, cn, u, dn, s, t, sk, j)
    BY <1>5 DEF LocalInv
  <2>2. client[c].pc = "handshake" => Shaking(k, cn, u, dn, s, t, sk, j2)
    BY <1>2, <1>5, <2>1 DEF OwnerInv, Shaking
  <2>3. ASSUME client[c].pc = "command" PROVE Commanding(Len(got[c]), k, cn, dn, t, j2)
    <3>1. Commanding(Len(got[c]), k, cn, dn, t, j)
      BY <2>1, <2>3 DEF OwnerInv
    <3>2. sk.st # "reset"
      BY <1>2, <3>1 DEF Commanding, Opened
    <3>3. QED
      BY <1>1, <3>1, <3>2, CommandKept
  <2>4. QED
    BY <2>2, <2>3 DEF OwnerInv
<1>6. QED
  BY <1>4, <1>5 DEF LocalInv

(* serve accepts the connection. *)
LEMMA SockAccepted ==
    ASSUME NEW k, NEW cn, NEW u, NEW dn, NEW s, NEW t, NEW sk, NEW j, Typed(cn, u, dn, s, t, sk, j),
           LocalInv(k, cn, u, dn, s, t, sk, j), sk.st = "queued",
           \A c \in Clients : Len(got[c]) \in Nat
    PROVE  LocalInv(k, cn, u, dn, s, t, [sk EXCEPT !.st = "open"], [j EXCEPT !.pc = "read"])
<1> DEFINE sk2 == [sk EXCEPT !.st = "open"]
           j2 == [j EXCEPT !.pc = "read"]
<1>1. /\ cn \in ConnT /\ u \in LineT /\ s \in Seq(RxPackets) /\ sk \in SockT /\ j \in JobT
      /\ t \in Seq(TxPackets) /\ dn \in Seq(Frames)
  BY DEF Typed
<1>2. j = NoJob /\ j2 = [NoJob EXCEPT !.pc = j2.pc] /\ j2.pc = "read"
  <2>1. j = NoJob
    BY DEF LocalInv, StreamInv
  <2>2. QED
    BY <2>1 DEF NoJob
<1>3. j2 \in JobT /\ Settled(j, j2) /\ j2.wrote = j.wrote /\ Sent(j2) = 0 /\ Sent(j) = 0
      /\ Spent(j2) = Spent(j)
  <2>1. j2 \in JobT /\ j.code = "none"
    BY <1>1, <1>2 DEF JobT, NoJob
  <2>2. QED
    BY <1>2, <2>1 DEF NoJob, Sent, Spent, Executed, Settled
<1>4. /\ sk2.st = "open" /\ sk2.rbuf = sk.rbuf /\ sk2.fwd = sk.fwd /\ sk2.tx = sk.tx
      /\ sk2.pfwd = sk.pfwd /\ sk2 = [sk EXCEPT !.st = sk2.st]
  BY <1>1 DEF SockT
<1>5. sk = [NoSock EXCEPT !.st = sk.st] => sk2 = [NoSock EXCEPT !.st = sk2.st]
  BY DEF NoSock
<1> HIDE DEF sk2, j2
<1>6. sk # NoSock
  BY DEF NoSock
<1>7. Opening(k, cn, u, dn, s, t, sk, j) => Opening(k, cn, u, dn, s, t, sk2, j2)
  BY <1>2, <1>4, <1>5 DEF Opening
<1>8. Opened(k, cn, u, dn, s, t, sk, j) => Opened(k, cn, u, dn, s, t, sk2, j2)
  BY <1>4 DEF Opened, GuestCredit, HostCredit
<1>9. StreamInv(k, cn, u, dn, s, t, sk2, j2)
  BY <1>3, <1>4, <1>6, <1>7, <1>8 DEF LocalInv, StreamInv, Unopened, Counted
<1>10. ASSUME NEW c \in Clients, client[c].k = k PROVE OwnerInv(c, k, cn, u, dn, s, t, sk2, j2)
  <2>1. OwnerInv(c, k, cn, u, dn, s, t, sk, j)
    BY <1>10 DEF LocalInv
  <2>2. client[c].pc = "handshake" => Shaking(k, cn, u, dn, s, t, sk2, j2)
    BY <1>2, <1>4, <2>1 DEF OwnerInv, Shaking
  <2>3. client[c].pc = "command" => Commanding(Len(got[c]), k, cn, dn, t, j2)
    <3>1. j.wrote <= j2.wrote /\ Sent(j2) = Sent(j)
      BY <1>1, <1>3, JobInts
    <3>2. QED
      BY <1>1, <1>3, <2>1, <3>1, CommandKept DEF OwnerInv
  <2>4. QED
    BY <2>2, <2>3 DEF OwnerInv
<1>11. QED
  BY <1>9, <1>10 DEF LocalInv, sk2, j2

(* A packet that is not RW behind the others. *)
LEMMA InTxQuiet ==
    ASSUME NEW j, NEW b, NEW k, NEW t \in Seq(TxPackets), NEW p \in TxPackets, p.op # "RW", InTx(b, k, t, j)
    PROVE  InTx(b, k, Append(t, p), j)
<1> DEFINE v == Append(t, p)
<1>1. /\ Len(t) \in Nat /\ Len(v) = Len(t) + 1 /\ v[Len(t) + 1] = p
      /\ \A i \in 1..Len(t) : v[i] = t[i] /\ i \in 1..Len(v)
      /\ \A i \in 1..Len(v) : i \in 1..Len(t) \/ i = Len(t) + 1
  BY AppendFacts
<1> HIDE DEF v
<1>2. \A i \in 1..Len(v) : Carries(v[i], k) => i \in 1..Len(t) /\ Carries(t[i], k) /\ v[i] = t[i]
  BY <1>1 DEF Carries
<1>3. ASSUME NEW i \in 1..Len(v), Carries(v[i], k)
      PROVE  \E m \in (b + 1)..Sent(j) : Nth(j, v[i].body[1], m)
  BY <1>2, <1>3 DEF InTx
<1>4. ASSUME NEW i1 \in 1..Len(v), NEW i2 \in 1..Len(v), i1 < i2, Carries(v[i1], k), Carries(v[i2], k),
             NEW m1 \in Nat, NEW m2 \in Nat, Nth(j, v[i1].body[1], m1), Nth(j, v[i2].body[1], m2)
      PROVE  m1 < m2
  <2>1. /\ i1 \in 1..Len(t) /\ i2 \in 1..Len(t) /\ Carries(t[i1], k) /\ Carries(t[i2], k)
        /\ v[i1] = t[i1] /\ v[i2] = t[i2]
    BY <1>2, <1>4
  <2>2. QED
    BY <1>4, <2>1 DEF InTx
<1>5. ASSUME NEW m \in (b + 1)..Sent(j)
      PROVE  \E i \in 1..Len(v) : Carries(v[i], k) /\ Nth(j, v[i].body[1], m)
  <2>1. PICK i \in 1..Len(t) : Carries(t[i], k) /\ Nth(j, t[i].body[1], m)
    BY DEF InTx
  <2>2. QED
    BY <1>1, <2>1
<1>6. QED
  BY <1>3, <1>4, <1>5 DEF InTx, v

(* CREDIT_UPDATE or CREDIT_REQUEST goes out, n units having been read.      *)
LEMMA CreditGiven ==
    ASSUME NEW k, NEW cn, NEW u, NEW dn, NEW s, NEW t, NEW sk, NEW j, Typed(cn, u, dn, s, t, sk, j),
           Opened(k, cn, u, dn, s, t, sk, j), NEW sk2 \in SockT, NEW n \in 0..sk.rbuf,
           sk2.st = sk.st, sk2.rbuf = sk.rbuf - n, sk2.fwd = Wrap(sk.fwd + n),
           sk2.tx = sk.tx, sk2.pfwd = sk.pfwd,
           NEW p \in TxPackets, p.port = k, p.op \in {"CREDIT_UPDATE", "CREDIT_REQUEST"}, p.fwd = sk2.fwd,
           NEW j2
    PROVE  Opened(k, cn, u, dn, s, Append(t, p), sk2, j2)
<1> DEFINE v == Append(t, p)
           x == Behind(sk.fwd, cn.tx)
           y == InFlight(s, k)
<1>1. /\ cn \in ConnT /\ s \in Seq(RxPackets) /\ sk \in SockT /\ t \in Seq(TxPackets)
  BY DEF Typed
<1>2. /\ cn.fwd \in Int /\ cn.tx \in Int /\ sk.fwd \in Int /\ sk.rbuf \in Nat /\ sk2.fwd \in Int
      /\ n \in Nat /\ n <= sk.rbuf /\ y \in Nat
  BY <1>1, ConnInts, SockInts, InFlightType
<1>3. /\ Counts(t, k, cn.tx, cn.fwd, sk.fwd) /\ x <= Behind(cn.fwd, cn.tx)
      /\ Behind(cn.fwd, cn.tx) <= GuestBuf /\ sk.rbuf + y <= x
  BY DEF Opened, GuestCredit
<1>4. x \in Int /\ Behind(cn.fwd, cn.tx) \in Int
  BY <1>2, BehindInt
<1>5. n <= x /\ (sk.rbuf - n) + y <= x - n /\ x - n <= x /\ x - n <= Behind(cn.fwd, cn.tx)
  <2> HIDE DEF x, y
  <2> QED BY <1>2, <1>3, <1>4
<1>6. Behind(sk2.fwd, cn.tx) = x - n
  BY <1>2, <1>5, BehindLess
<1>7. Counts(t, k, cn.tx, cn.fwd, sk2.fwd)
  BY <1>2, <1>3, <1>5, <1>6, CountsCloser
<1>8. Counts(v, k, cn.tx, cn.fwd, sk2.fwd)
  BY <1>1, <1>2, <1>5, <1>6, <1>7, CountsAppend
<1>9. GuestCredit(k, cn, s, v, sk2)
  <2> HIDE DEF v
  <2> QED BY <1>3, <1>5, <1>6, <1>8 DEF Opened, GuestCredit
<1>10. InReturn(v, k) = InReturn(t, k)
  <2>1. LoadFrom(p, k) = 0 /\ InReturn(t, k) \in Nat
    BY <1>1, InReturnType DEF LoadFrom, Carries
  <2>2. QED
    BY <1>1, <2>1, InReturnAppend
<1>11. HostCredit(k, cn, s, v, sk2)
  BY <1>10 DEF Opened, HostCredit
<1>12. \A i \in 1..Len(v) : v[i].port = k => v[i].op \in {"RW", "CREDIT_UPDATE", "CREDIT_REQUEST"}
  BY <1>1, AppendFacts DEF Opened
<1>13. QED
  BY <1>9, <1>11, <1>12 DEF Opened

(* handle_connection reads. *)
ReadSock(sk) == [sk EXCEPT !.rbuf = 0, !.fwd = Wrap(@ + sk.rbuf)]
ReadJob(j, n) == [j EXCEPT !.in = j.in + n, !.pc = IF j.in + n = ExecLen THEN "exec" ELSE "read"]
ReadTx(t, sk, p) == IF sk.st = "open" THEN Append(t, p) ELSE t

LEMMA FrameRead ==
    ASSUME NEW k, NEW cn, NEW u, NEW dn, NEW s, NEW t, NEW sk, NEW j, Typed(cn, u, dn, s, t, sk, j),
           LocalInv(k, cn, u, dn, s, t, sk, j), ThreadInv(j), sk.rbuf > 0, j.pc = "read",
           NEW p \in TxPackets, p.port = k, p.op = "CREDIT_UPDATE", p.fwd = Wrap(sk.fwd + sk.rbuf),
           \A c \in Clients : Len(got[c]) \in Nat
    PROVE  /\ ReadJob(j, sk.rbuf) \in JobT /\ ReadSock(sk) \in SockT
           /\ ThreadInv(ReadJob(j, sk.rbuf)) /\ Settled(j, ReadJob(j, sk.rbuf))
           /\ LocalInv(k, cn, u, dn, s, ReadTx(t, sk, p), ReadSock(sk), ReadJob(j, sk.rbuf))
<1> DEFINE v == ReadTx(t, sk, p)
           sk2 == ReadSock(sk)
           j2 == ReadJob(j, sk.rbuf)
<1> HIDE DEF v, sk2, j2
<1>1. /\ cn \in ConnT /\ u \in LineT /\ s \in Seq(RxPackets) /\ sk \in SockT /\ j \in JobT
      /\ t \in Seq(TxPackets) /\ dn \in Seq(Frames)
  BY DEF Typed
<1>2. sk.rbuf \in Nat /\ sk.fwd \in Int /\ j.in \in Nat /\ Len(u) \in Nat /\ InFlight(s, k) \in Nat
      /\ ExecLen \in Nat \ {0}
  BY <1>1, SockInts, JobInts, InFlightType, AssumeTypes DEF LineT
<1>3. cn.st \in {"established", "dropped"} /\ Counted(k, u, s, sk, j)
  <2>1. ~Unopened(k, cn, u, dn, s, t, sk, j) /\ ~Opening(k, cn, u, dn, s, t, sk, j)
    BY <1>1, <1>2 DEF Unopened, Opening, NoSock
  <2>2. QED
    BY <1>1, <2>1 DEF LocalInv, StreamInv, Early, ConnT
<1>4. ~Executed(j) /\ j.in + sk.rbuf \in 0..ExecLen
      /\ Len(u) + InFlight(s, k) + 0 + (j.in + sk.rbuf) <= ExecLen
  <2> DEFINE x == Len(u)
             y == InFlight(s, k)
  <2>1. x + y + sk.rbuf + Spent(j) <= ExecLen /\ x \in Nat /\ y \in Nat
    BY <1>2, <1>3 DEF Counted
  <2> HIDE DEF x, y
  <2>2. ~Executed(j)
    BY <1>2, <2>1 DEF Spent
  <2>3. Spent(j) = j.in
    BY <2>2 DEF Spent
  <2>4. j.in + sk.rbuf \in 0..ExecLen /\ x + y + 0 + (j.in + sk.rbuf) <= ExecLen
    BY <1>2, <2>1, <2>3
  <2>5. QED
    BY <2>2, <2>4 DEF x, y
<1>5. /\ j2 \in JobT /\ j2.in = j.in + sk.rbuf /\ j2.code = j.code /\ j2.pipe = j.pipe
      /\ j2.wrote = j.wrote /\ j2.reader = j.reader /\ j2.child = j.child /\ j2.fate = j.fate
      /\ j2.pc = IF j.in + sk.rbuf = ExecLen THEN "exec" ELSE "read"
  BY <1>1, <1>4 DEF JobT, j2, ReadJob
<1>6. /\ sk2 \in SockT /\ sk2.st = sk.st /\ sk2.rbuf = 0 /\ sk2.fwd = Wrap(sk.fwd + sk.rbuf)
      /\ sk2.tx = sk.tx /\ sk2.pfwd = sk.pfwd
  <2>1. Wrap(sk.fwd + sk.rbuf) \in 0..(Modulus - 1)
    <3>1. sk.fwd + sk.rbuf \in Int
      BY <1>2
    <3>2. QED
      BY <3>1, WrapType
  <2>2. 0 \in 0..GuestBuf
    BY AssumeTypes
  <2>3. QED
    BY <1>1, <2>1, <2>2 DEF SockT, sk2, ReadSock
<1>7. /\ ~Executed(j2) /\ Settled(j, j2) /\ Sent(j2) = 0 /\ Sent(j) = 0 /\ Spent(j2) = j.in + sk.rbuf
  BY <1>4, <1>5 DEF Executed, Settled, Sent, Spent, ThreadInv
<1>8. ThreadInv(j2)
  BY <1>4, <1>5, <1>7 DEF ThreadInv, Executed
<1>9. j # NoJob
  BY DEF NoJob
<1>10. sk.st \notin {"none", "queued"}
  BY <1>9 DEF LocalInv, StreamInv
<1>11. ASSUME cn.st = "established" PROVE Opened(k, cn, u, dn, s, v, sk2, j2) /\ v = Append(t, p)
  <2>1. Opened(k, cn, u, dn, s, t, sk, j) /\ sk.st = "open"
    BY <1>10, <1>11 DEF LocalInv, StreamInv, Opened
  <2>2. sk.rbuf \in 0..sk.rbuf /\ sk2.rbuf = sk.rbuf - sk.rbuf
    BY <1>2, <1>6
  <2>3. v = Append(t, p)
    BY <2>1 DEF v, ReadTx
  <2>4. QED
    BY <1>6, <2>1, <2>2, <2>3, CreditGiven
<1>12. StreamInv(k, cn, u, dn, s, v, sk2, j2)
  <2>1. Counted(k, u, s, sk2, j2)
    BY <1>3, <1>4, <1>6, <1>7 DEF Counted
  <2>2. sk2.rbuf + InFlight(s, k) <= GuestBuf
    BY <1>2, <1>6, AssumeTypes DEF LocalInv, StreamInv
  <2>3. QED
    BY <1>3, <1>6, <1>10, <1>11, <2>1, <2>2 DEF LocalInv, StreamInv, Early
<1>13. ASSUME NEW c \in Clients, client[c].k = k PROVE OwnerInv(c, k, cn, u, dn, s, v, sk2, j2)
  <2>1. OwnerInv(c, k, cn, u, dn, s, t, sk, j)
    BY <1>13 DEF LocalInv
  <2>2. Shaking(k, cn, u, dn, s, t, sk, j) => cn.st # "established"
    BY <1>2 DEF Shaking
  <2>3. client[c].pc = "handshake" => Shaking(k, cn, u, dn, s, v, sk2, j2)
    BY <2>1, <2>2 DEF OwnerInv, Shaking
  <2>4. ASSUME client[c].pc = "command" PROVE Commanding(Len(got[c]), k, cn, dn, v, j2)
    <3>1. Commanding(Len(got[c]), k, cn, dn, t, j) /\ v = Append(t, p)
      BY <1>11, <2>1, <2>4 DEF OwnerInv, Commanding
    <3>2. Commanding(Len(got[c]), k, cn, dn, v, j)
      BY <1>1, <3>1, InTxQuiet DEF Commanding
    <3>3. j.wrote <= j2.wrote /\ Sent(j2) = Sent(j)
      BY <1>1, <1>5, <1>7, JobInts
    <3>4. QED
      BY <1>1, <1>5, <1>7, <3>2, <3>3, CommandKept
  <2>5. QED
    BY <2>3, <2>4 DEF OwnerInv
<1>14. QED
  BY <1>5, <1>6, <1>7, <1>8, <1>12, <1>13 DEF LocalInv, v, sk2, j2

(* A kernel asks for credit. *)
LEMMA CreditAsked ==
    ASSUME NEW k, NEW cn, NEW u, NEW dn, NEW s, NEW t, NEW sk, NEW j, Typed(cn, u, dn, s, t, sk, j),
           LocalInv(k, cn, u, dn, s, t, sk, j), Busy(j),
           NEW p \in TxPackets, p.port = k, p.op = "CREDIT_REQUEST", p.fwd = sk.fwd
    PROVE  LocalInv(k, cn, u, dn, s, Append(t, p), [sk EXCEPT !.asked = TRUE], j)
<1> DEFINE sk2 == [sk EXCEPT !.asked = TRUE]
           v == Append(t, p)
<1>1. /\ cn \in ConnT /\ sk \in SockT /\ t \in Seq(TxPackets)
  BY DEF Typed
<1>2. /\ sk2 \in SockT /\ sk2.st = sk.st /\ sk2.rbuf = sk.rbuf /\ sk2.fwd = sk.fwd
      /\ sk2.tx = sk.tx /\ sk2.pfwd = sk.pfwd
  BY <1>1 DEF SockT
<1>3. /\ cn.st \in {"established", "dropped"} /\ Counted(k, u, s, sk, j)
      /\ sk.st \notin {"none", "queued"}
      /\ cn.st = "established" => Opened(k, cn, u, dn, s, t, sk, j)
      /\ \A c \in Clients : client[c].k = k /\ client[c].pc = "handshake" => cn.st # "established"
  BY <1>1, BusyStream
<1> HIDE DEF sk2, v
<1>4. Opened(k, cn, u, dn, s, t, sk, j) => Opened(k, cn, u, dn, s, v, sk2, j)
  <2>1. sk.rbuf \in Nat /\ sk.fwd \in 0..(Modulus - 1) /\ sk.fwd \in Int
    BY <1>1, SockInts DEF SockT
  <2>2. 0 \in 0..sk.rbuf /\ sk2.rbuf = sk.rbuf - 0 /\ sk.fwd + 0 = sk.fwd
    BY <1>2, <2>1
  <2>3. Wrap(sk.fwd) = sk.fwd
    <3>1. sk.fwd = Modulus * 0 + sk.fwd
      BY <2>1, AssumeTypes
    <3>2. QED
      BY <2>1, <3>1, WrapIs
  <2>4. QED
    BY <1>2, <2>2, <2>3, CreditGiven DEF v
<1>5. StreamInv(k, cn, u, dn, s, v, sk2, j)
  BY <1>2, <1>3, <1>4 DEF LocalInv, StreamInv, Early, Counted
<1>6. ASSUME NEW c \in Clients, client[c].k = k PROVE OwnerInv(c, k, cn, u, dn, s, v, sk2, j)
  <2>1. OwnerInv(c, k, cn, u, dn, s, t, sk, j)
    BY <1>6 DEF LocalInv
  <2>2. client[c].pc = "handshake" => Shaking(k, cn, u, dn, s, v, sk2, j)
    BY <1>3, <1>6, <2>1 DEF OwnerInv, Shaking
  <2>3. client[c].pc = "command" => Commanding(Len(got[c]), k, cn, dn, v, j)
    BY <1>1, <2>1, InTxQuiet DEF OwnerInv, Commanding, v
  <2>4. QED
    BY <2>2, <2>3 DEF OwnerInv
<1>7. QED
  BY <1>5, <1>6 DEF LocalInv, sk2, v

(* The next frame goes behind the others. *)
LEMMA InTxNext ==
    ASSUME NEW j \in JobT, NEW j2 \in JobT, Settled(j, j2), j.wrote <= j2.wrote, Sent(j2) = Sent(j) + 1,
           NEW b \in Nat, NEW k, NEW t \in Seq(TxPackets), InTx(b, k, t, j),
           NEW p \in TxPackets, Carries(p, k), Nth(j2, p.body[1], Sent(j2))
    PROVE  InTx(b, k, Append(t, p), j2)
<1> DEFINE v == Append(t, p)
           n == Len(t)
<1>1. /\ n \in Nat /\ Len(v) = n + 1 /\ v[n + 1] = p /\ n + 1 \in 1..Len(v)
      /\ \A i \in 1..n : v[i] = t[i] /\ i \in 1..Len(v)
      /\ \A i \in 1..Len(v) : i \in 1..n \/ i = n + 1
  BY AppendFacts
<1>2. Sent(j) \in Int /\ b <= Sent(j)
  BY JobInts DEF InTx
<1> HIDE DEF v, n
<1>3. ASSUME NEW i \in 1..n, Carries(t[i], k)
      PROVE  \E m \in (b + 1)..Sent(j) : Nth(j2, t[i].body[1], m)
  <2>1. PICK m \in (b + 1)..Sent(j) : Nth(j, t[i].body[1], m)
    BY <1>3 DEF InTx, n
  <2>2. QED
    BY <2>1, NthKept
<1>4. ASSUME NEW i \in 1..Len(v), Carries(v[i], k)
      PROVE  \E m \in (b + 1)..Sent(j2) : Nth(j2, v[i].body[1], m)
  <2>1. CASE i = n + 1
    <3>1. Sent(j2) \in (b + 1)..Sent(j2)
      BY <1>2
    <3>2. QED
      BY <1>1, <2>1, <3>1
  <2>2. CASE i \in 1..n
    <3>1. PICK m \in (b + 1)..Sent(j) : Nth(j2, t[i].body[1], m)
      BY <1>1, <1>3, <1>4, <2>2
    <3>2. m \in (b + 1)..Sent(j2)
      BY <1>2
    <3>3. QED
      BY <1>1, <2>2, <3>1, <3>2
  <2>3. QED
    BY <1>1, <2>1, <2>2
<1>5. ASSUME NEW i1 \in 1..Len(v), NEW i2 \in 1..Len(v), i1 < i2, Carries(v[i1], k), Carries(v[i2], k),
             NEW m1 \in Nat, NEW m2 \in Nat, Nth(j2, v[i1].body[1], m1), Nth(j2, v[i2].body[1], m2)
      PROVE  m1 < m2
  <2>1. i1 \in 1..n
    BY <1>1, <1>5
  <2>2. v[i1] = t[i1] /\ Carries(t[i1], k)
    BY <1>1, <1>5, <2>1
  <2>3. PICK n1 \in (b + 1)..Sent(j) : Nth(j, t[i1].body[1], n1)
    BY <2>1, <2>2 DEF InTx, n
  <2>4. n1 = m1
    BY <1>5, <2>2, <2>3, NthKept, NthUnique
  <2>5. CASE i2 = n + 1
    <3>1. m2 = Sent(j2)
      BY <1>1, <1>5, <2>5, NthUnique
    <3>2. QED
      BY <1>2, <2>3, <2>4, <3>1
  <2>6. CASE i2 \in 1..n
    <3>1. v[i2] = t[i2] /\ Carries(t[i2], k)
      BY <1>1, <1>5, <2>6
    <3>2. PICK n2 \in (b + 1)..Sent(j) : Nth(j, t[i2].body[1], n2)
      BY <2>6, <3>1 DEF InTx, n
    <3>3. n2 = m2
      BY <1>5, <3>1, <3>2, NthKept, NthUnique
    <3>4. QED
      BY <1>5, <2>1, <2>2, <2>3, <2>4, <2>6, <3>1, <3>2, <3>3 DEF InTx, n
  <2>7. QED
    BY <1>1, <2>5, <2>6
<1>6. ASSUME NEW m \in (b + 1)..Sent(j2)
      PROVE  \E i \in 1..Len(v) : Carries(v[i], k) /\ Nth(j2, v[i].body[1], m)
  <2>1. CASE m = Sent(j2)
    BY <1>1, <2>1
  <2>2. CASE m # Sent(j2)
    <3>1. m \in (b + 1)..Sent(j)
      BY <1>2, <2>2
    <3>2. PICK i \in 1..n : Carries(t[i], k) /\ Nth(j, t[i].body[1], m)
      BY <3>1 DEF InTx, n
    <3>3. QED
      BY <1>1, <3>2, NthKept
  <2>3. QED
    BY <2>1, <2>2
<1>7. b <= Sent(j2)
  BY <1>2
<1>8. QED
  BY <1>4, <1>5, <1>6, <1>7 DEF InTx, v

LEMMA CountsNext ==
    ASSUME NEW s \in Seq(RxPackets), NEW k, NEW y \in Int, NEW lo \in Int, NEW hi \in Int,
           Behind(lo, y) + 1 < Modulus, Behind(hi, y) <= Behind(lo, y), Counts(s, k, y, lo, hi)
    PROVE  Counts(s, k, Wrap(y + 1), lo, hi)
<1> DEFINE n == 1
<1>1. n \in Nat /\ Behind(lo, y) + n < Modulus
  OBVIOUS
<1>2. \A i \in 1..Len(s) : s[i].fwd \in Int
  <2>1. \A q \in RxPackets : q.fwd \in Int
    BY AssumeTypes DEF RxPackets
  <2>2. QED
    BY <2>1, ElementOfSeq
<1> HIDE DEF n
<1>3. Counts(s, k, Wrap(y + n), lo, hi)
  BY <1>1, <1>2, CountsAhead
<1>4. QED
  BY <1>3 DEF n

(* A job that has not spent more leaves the account of its units right. *)
LEMMA CountedLess ==
    ASSUME NEW k, NEW u \in LineT, NEW s \in Seq(RxPackets), NEW sk \in SockT, NEW sk2,
           sk2.rbuf = sk.rbuf, NEW j \in JobT, NEW j2 \in JobT, Spent(j2) <= Spent(j), Counted(k, u, s, sk, j)
    PROVE  Counted(k, u, s, sk2, j2)
<1> DEFINE x == Len(u) + InFlight(s, k) + sk.rbuf
<1>1. Len(u) \in Nat /\ InFlight(s, k) \in Nat /\ sk.rbuf \in Nat
  BY SockInts, InFlightType, LenProperties DEF LineT
<1>2. x \in Nat
  <2> DEFINE a == Len(u)
             b == InFlight(s, k)
             d == sk.rbuf
  <2>1. a \in Nat /\ b \in Nat /\ d \in Nat
    BY <1>1
  <2> HIDE DEF a, b, d
  <2>2. a + b + d \in Nat
    BY <2>1
  <2>3. QED
    BY <2>2 DEF a, b, d
<1>3. Spent(j) \in Nat /\ Spent(j2) \in Nat /\ ExecLen \in Nat
  BY JobInts, AssumeTypes
<1>4. x + Spent(j) <= ExecLen
  BY DEF Counted
<1> HIDE DEF x
<1>5. x + Spent(j2) <= ExecLen
  BY <1>2, <1>3, <1>4
<1>6. QED
  BY <1>5 DEF Counted, x

(* write_all of a frame. *)
LEMMA FrameSent ==
    ASSUME NEW k, NEW cn, NEW u, NEW dn, NEW s, NEW t, NEW sk, NEW j, Typed(cn, u, dn, s, t, sk, j),
           LocalInv(k, cn, u, dn, s, t, sk, j), Busy(j), sk.st = "open",
           HostBuf - Wrap(sk.tx - sk.pfwd) > 0,
           NEW p \in TxPackets, p.port = k, p.op = "RW", p.fwd = sk.fwd, Len(p.body) = 1,
           NEW sk2, sk2 = [sk EXCEPT !.tx = Wrap(@ + 1)],
           NEW j2 \in JobT, Settled(j, j2), j.wrote <= j2.wrote, Spent(j2) <= Spent(j),
           Sent(j2) = Sent(j) + 1, Nth(j2, p.body[1], Sent(j2)),
           \A c \in Clients : Len(got[c]) \in Nat
    PROVE  sk2 \in SockT /\ LocalInv(k, cn, u, dn, s, Append(t, p), sk2, j2)
<1> DEFINE v == Append(t, p)
<1>1. /\ cn \in ConnT /\ u \in LineT /\ s \in Seq(RxPackets) /\ sk \in SockT /\ j \in JobT
      /\ t \in Seq(TxPackets) /\ dn \in Seq(Frames)
  BY DEF Typed
<1>2. /\ cn.rxfwd \in Int /\ sk.tx \in Int /\ sk.pfwd \in Int /\ sk.fwd \in Int /\ cn.fwd \in Int
      /\ cn.tx \in Int /\ sk.rbuf \in Nat
  BY <1>1, ConnInts, SockInts
<1>3. /\ sk2 \in SockT /\ sk2.st = "open" /\ sk2.rbuf = sk.rbuf /\ sk2.fwd = sk.fwd
      /\ sk2.tx = Wrap(sk.tx + 1) /\ sk2.pfwd = sk.pfwd
  <2>1. Wrap(sk.tx + 1) \in 0..(Modulus - 1)
    <3>1. sk.tx + 1 \in Int
      BY <1>2
    <3>2. QED
      BY <3>1, WrapType
  <2>2. QED
    BY <1>1, <2>1 DEF SockT
<1>4. /\ cn.st \in {"established", "dropped"} /\ Counted(k, u, s, sk, j)
      /\ cn.st = "established" => Opened(k, cn, u, dn, s, t, sk, j)
      /\ \A c \in Clients : client[c].k = k /\ client[c].pc = "handshake" => cn.st # "established"
  BY <1>1, BusyStream
<1> HIDE DEF v
<1>5. Carries(p, k)
  BY DEF Carries
<1>6. ASSUME Opened(k, cn, u, dn, s, t, sk, j) PROVE Opened(k, cn, u, dn, s, v, sk2, j2)
  <2>1. InReturn(v, k) = InReturn(t, k) + 1 /\ InReturn(t, k) \in Nat
    <3>1. LoadFrom(p, k) = 1
      BY <1>5 DEF LoadFrom
    <3>2. QED
      BY <1>1, <3>1, InReturnAppend, InReturnType DEF v
  <2>2. Counts(v, k, cn.tx, cn.fwd, sk.fwd)
    BY <1>1, <1>2, <1>6, CountsAppend DEF Opened, GuestCredit, v
  <2>3. GuestCredit(k, cn, s, v, sk2)
    BY <1>3, <1>6, <2>2 DEF Opened, GuestCredit
  <2>4. HostCredit(k, cn, s, v, sk2)
    <3> DEFINE x == Behind(sk.pfwd, sk.tx)
               y == Behind(cn.rxfwd, sk.tx)
               r == InReturn(t, k)
               l == Len(cn.buf)
    <3>1. /\ x \in Int /\ y \in Int /\ y <= x /\ l + r = y /\ l \in Nat /\ r \in Nat
          /\ Counts(s, k, sk.tx, sk.pfwd, cn.rxfwd)
      BY <1>1, <1>2, <1>6, <2>1, BehindInt, ConnInts DEF Opened, HostCredit
    <3>2. HostBuf - x > 0
      BY DEF Behind
    <3>3. x + 1 <= HostBuf /\ x + 1 < Modulus /\ y + 1 < Modulus /\ y + 1 <= x + 1
          /\ l + (r + 1) = y + 1 /\ 1 \in Nat
      <4> HIDE DEF x, y, r, l
      <4> QED BY <3>1, <3>2, AssumeTypes, SMTT(40)
    <3>4. Counts(s, k, Wrap(sk.tx + 1), sk.pfwd, cn.rxfwd)
      BY <1>1, <1>2, <3>1, <3>3, CountsNext
    <3>5. Counts(s, k, sk2.tx, sk.pfwd, cn.rxfwd)
      BY <1>3, <3>4
    <3>6. Behind(sk.pfwd, sk2.tx) = x + 1 /\ Behind(cn.rxfwd, sk2.tx) = y + 1
      BY <1>2, <1>3, <3>3, BehindMore
    <3> HIDE DEF x, y
    <3>7. QED
      BY <1>3, <2>1, <3>3, <3>5, <3>6 DEF HostCredit
  <2>5. \A i \in 1..Len(v) : v[i].port = k => v[i].op \in {"RW", "CREDIT_UPDATE", "CREDIT_REQUEST"}
    BY <1>1, <1>6, AppendFacts DEF Opened, v
  <2>6. QED
    BY <1>3, <1>6, <2>3, <2>4, <2>5 DEF Opened
<1>7. Counted(k, u, s, sk2, j2)
  BY <1>1, <1>3, <1>4, CountedLess
<1>8. StreamInv(k, cn, u, dn, s, v, sk2, j2)
  BY <1>3, <1>4, <1>6, <1>7 DEF LocalInv, StreamInv, Early
<1>9. ASSUME NEW c \in Clients, client[c].k = k PROVE OwnerInv(c, k, cn, u, dn, s, v, sk2, j2)
  <2>1. OwnerInv(c, k, cn, u, dn, s, t, sk, j)
    BY <1>9 DEF LocalInv
  <2>2. client[c].pc = "handshake" => Shaking(k, cn, u, dn, s, v, sk2, j2)
    BY <1>4, <1>9, <2>1 DEF OwnerInv, Shaking
  <2>3. ASSUME client[c].pc = "command" PROVE Commanding(Len(got[c]), k, cn, dn, v, j2)
    <3> DEFINE a == Len(got[c])
               b == a + Len(dn) + Len(cn.buf)
    <3>1. Commanding(a, k, cn, dn, t, j)
      BY <2>1, <2>3 DEF OwnerInv
    <3>2. b \in Nat
      <4> DEFINE x == Len(dn)
                 y == Len(cn.buf)
      <4>1. x \in Nat /\ y \in Nat /\ a \in Nat
        BY <1>1, ConnInts, LenProperties
      <4> HIDE DEF x, y, a
      <4>2. a + x + y \in Nat
        BY <4>1
      <4>3. QED
        BY <4>2 DEF x, y
    <3>3. InTx(b, k, v, j2)
      BY <1>1, <1>5, <3>1, <3>2, InTxNext DEF Commanding, v
    <3>4. Delivering(a, dn, j2)
      BY <1>1, <3>1, NthKept DEF Commanding, Delivering
    <3>5. \A i \in 1..Len(cn.buf) : Nth(j2, cn.buf[i], a + Len(dn) + i)
      BY <1>1, <3>1, NthKept DEF Commanding
    <3>6. QED
      BY <3>1, <3>3, <3>4, <3>5 DEF Commanding
  <2>4. QED
    BY <2>2, <2>3 DEF OwnerInv
<1>10. QED
  BY <1>3, <1>8, <1>9 DEF LocalInv, v

(* The thread ends and closes its socket. *)
LEMMA ThreadEnds ==
    ASSUME NEW k, NEW cn \in ConnT, NEW u, NEW dn, NEW s, NEW t, NEW sk \in SockT, NEW j \in JobT,
           LocalInv(k, cn, u, dn, s, t, sk, j), sk.st = "reset"
    PROVE  LocalInv(k, cn, u, dn, s, t, [sk EXCEPT !.st = "closed"], [j EXCEPT !.pc = "closed"])
<1> DEFINE sk2 == [sk EXCEPT !.st = "closed"]
           j2 == [j EXCEPT !.pc = "closed"]
<1>1. cn.st = "dropped"
  BY DEF LocalInv, StreamInv, Unopened, Opening, Opened, Early, NoSock, ConnT
<1>2. sk2.st = "closed" /\ sk2.rbuf = sk.rbuf
  BY DEF SockT
<1>3. Spent(j2) = Spent(j)
  BY DEF JobT, Spent, Executed
<1> HIDE DEF sk2, j2
<1>4. StreamInv(k, cn, u, dn, s, t, sk2, j2)
  BY <1>1, <1>2, <1>3 DEF LocalInv, StreamInv, Early, Counted
<1>5. ASSUME NEW c \in Clients, client[c].k = k PROVE OwnerInv(c, k, cn, u, dn, s, t, sk2, j2)
  BY <1>1, <1>5 DEF LocalInv, OwnerInv, Shaking, Commanding
<1>6. QED
  BY <1>4, <1>5 DEF LocalInv, sk2, j2

(* The guest's kernel takes the first packet of the wire. *)
LEMMA WireFirst ==
    ASSUME NEW s \in Seq(RxPackets), s # <<>>
    PROVE  /\ 1 \in 1..Len(s) /\ Len(s) \in Nat /\ s[1] \in RxPackets
           /\ Without(s, 1) \in Seq(RxPackets) /\ Len(Without(s, 1)) = Len(s) - 1
           /\ \A i \in 1..(Len(s) - 1) :
                 Without(s, 1)[i] = s[i + 1] /\ i + 1 \in 1..Len(s) /\ i + 1 # 1
<1>1. 1 \in 1..Len(s) /\ Len(s) \in Nat
  <2>1. Len(s) \in Nat /\ Len(s) > 0
    BY EmptySeq, LenProperties
  <2>2. QED
    BY <2>1
<1>2. s[1] \in RxPackets
  BY <1>1, ElementOfSeq
<1>3. /\ Without(s, 1) \in Seq(RxPackets) /\ Len(Without(s, 1)) = Len(s) - 1
      /\ \A i \in 1..(Len(s) - 1) : Without(s, 1)[i] = IF i < 1 THEN s[i] ELSE s[i + 1]
  BY <1>1, WithoutProperties
<1>4. ASSUME NEW i \in 1..(Len(s) - 1) PROVE ~(i < 1) /\ i + 1 \in 1..Len(s) /\ i + 1 # 1
  BY <1>1
<1>5. QED
  BY <1>1, <1>2, <1>3, <1>4

(* A REQUEST is answered, and only one was sent. *)
LEMMA RequestTaken ==
    ASSUME NEW k, NEW cn, NEW u, NEW dn, NEW s, NEW t, NEW sk, NEW j, Typed(cn, u, dn, s, t, sk, j),
           LocalInv(k, cn, u, dn, s, t, sk, j), s # <<>>, s[1].port = k, s[1].op = "REQUEST",
           NEW p \in TxPackets, p.port = k, p.fwd = 0, NEW sk2,
           \/ p.op = "RESPONSE" /\ sk2 = [sk EXCEPT !.st = "queued"]
           \/ p.op = "RST" /\ sk2 = sk
    PROVE  sk2 \in SockT /\ LocalInv(k, cn, u, dn, Without(s, 1), Append(t, p), sk2, j)
<1> DEFINE v == Without(s, 1)
           w == Append(t, p)
           n == Len(t)
<1>1. /\ cn \in ConnT /\ u \in LineT /\ s \in Seq(RxPackets) /\ sk \in SockT /\ j \in JobT
      /\ t \in Seq(TxPackets) /\ dn \in Seq(Frames)
  BY DEF Typed
<1>2. /\ 1 \in 1..Len(s) /\ Len(v) = Len(s) - 1 /\ v \in Seq(RxPackets)
      /\ \A i \in 1..(Len(s) - 1) : v[i] = s[i + 1] /\ i + 1 \in 1..Len(s) /\ i + 1 # 1
  BY <1>1, WireFirst
<1>3. /\ n \in Nat /\ Len(w) = n + 1 /\ w[n + 1] = p
      /\ \A i \in 1..n : w[i] = t[i]
      /\ \A i \in 1..Len(w) : i \in 1..n \/ i = n + 1
  BY <1>1, AppendFacts
<1>4. InFlight(v, k) = InFlight(s, k)
  <2>1. LoadTo(s[1], k) = 0 /\ InFlight(s, k) \in Nat
    BY <1>1, InFlightType DEF LoadTo, Carries
  <2>2. InFlight(v, k) = InFlight(s, k) - LoadTo(s[1], k)
    BY <1>1, <1>2, InFlightWithout
  <2>3. QED
    BY <2>1, <2>2
<1>5. cn.st = "connecting" /\ Opening(k, cn, u, dn, s, t, sk, j)
  BY <1>1, <1>2 DEF LocalInv, StreamInv, Unopened, Silent, Opened, Dropped, Early, ConnT
<1>6. sk = NoSock /\ Silent(t, k) /\ sk.st = "none"
  <2>1. sk.st = "none" /\ Silent(t, k) /\ sk = [NoSock EXCEPT !.st = sk.st]
    BY <1>2, <1>5 DEF Opening
  <2>2. QED
    BY <2>1 DEF NoSock
<1>7. j = NoJob
  BY <1>6 DEF LocalInv, StreamInv
<1>8. sk2 = [NoSock EXCEPT !.st = sk2.st] /\ sk2 \in SockT /\ sk2.rbuf = sk.rbuf
      /\ sk2.st = IF p.op = "RESPONSE" THEN "queued" ELSE "none"
  BY <1>1, <1>6 DEF NoSock, SockT
<1> HIDE DEF v, w, n
<1>9. Silent(v, k)
  <2>1. \A i1, i2 \in 1..Len(s) : s[i1].port = k /\ s[i2].port = k => i1 = i2
    BY <1>5 DEF Opening
  <2>2. ASSUME NEW i \in 1..Len(v), v[i].port = k PROVE FALSE
    BY <1>2, <2>1, <2>2
  <2>3. QED
    BY <2>2 DEF Silent
<1>10. \A i \in 1..Len(w) : w[i].port = k => i = n + 1
  BY <1>3, <1>6 DEF Silent, n
<1>11. Opening(k, cn, u, dn, v, w, sk2, j)
  <2>1. \A i \in 1..Len(w) : w[i].port = k =>
           /\ w[i].op \in {"RESPONSE", "RST"} /\ w[i].fwd = 0
           /\ w[i].op = "RESPONSE" <=> sk2.st # "none"
    BY <1>3, <1>8, <1>10
  <2>2. QED
    BY <1>5, <1>8, <1>9, <1>10, <2>1 DEF Opening, Silent
<1>12. StreamInv(k, cn, u, dn, v, w, sk2, j)
  BY <1>4, <1>5, <1>7, <1>8, <1>11 DEF LocalInv, StreamInv, Early, Counted
<1>13. ASSUME NEW c \in Clients, client[c].k = k PROVE OwnerInv(c, k, cn, u, dn, v, w, sk2, j)
  BY <1>5, <1>13 DEF LocalInv, OwnerInv, Shaking, Commanding
<1>14. QED
  BY <1>8, <1>12, <1>13 DEF LocalInv, v, w

(* RST comes from a worker that has removed the connection. *)
LEMMA ResetTaken ==
    ASSUME NEW k, NEW cn, NEW u, NEW dn, NEW s, NEW t, NEW sk, NEW j, Typed(cn, u, dn, s, t, sk, j),
           LocalInv(k, cn, u, dn, s, t, sk, j), s # <<>>, s[1].port = k, s[1].op = "RST",
           NEW sk2, sk2 = [sk EXCEPT !.st = IF sk.st \in {"queued", "open"} THEN "reset" ELSE @]
    PROVE  sk2 \in SockT /\ LocalInv(k, cn, u, dn, Without(s, 1), t, sk2, j)
<1> DEFINE v == Without(s, 1)
<1>1. /\ cn \in ConnT /\ u \in LineT /\ s \in Seq(RxPackets) /\ sk \in SockT /\ j \in JobT
      /\ t \in Seq(TxPackets) /\ dn \in Seq(Frames)
  BY DEF Typed
<1>2. /\ 1 \in 1..Len(s) /\ Len(v) = Len(s) - 1 /\ v \in Seq(RxPackets)
      /\ \A i \in 1..(Len(s) - 1) : v[i] = s[i + 1] /\ i + 1 \in 1..Len(s) /\ i + 1 # 1
  BY <1>1, WireFirst
<1>3. InFlight(v, k) = InFlight(s, k)
  <2>1. LoadTo(s[1], k) = 0 /\ InFlight(s, k) \in Nat
    BY <1>1, InFlightType DEF LoadTo, Carries
  <2>2. InFlight(v, k) = InFlight(s, k) - LoadTo(s[1], k)
    BY <1>1, <1>2, InFlightWithout
  <2>3. QED
    BY <2>1, <2>2
<1>4. cn.st = "dropped" /\ Dropped(k, s) /\ cn.buf = <<>>
  BY <1>1, <1>2 DEF LocalInv, StreamInv, Unopened, Silent, Opening, Opened, Early, ConnT
<1>5. /\ sk2 \in SockT /\ sk2.rbuf = sk.rbuf
      /\ sk2.st = IF sk.st \in {"queued", "open"} THEN "reset" ELSE sk.st
  BY <1>1 DEF SockT
<1> HIDE DEF v
<1>6. Dropped(k, v)
  BY <1>2, <1>4 DEF Dropped
<1>7. StreamInv(k, cn, u, dn, v, t, sk2, j)
  BY <1>3, <1>4, <1>5, <1>6 DEF LocalInv, StreamInv, Early, Counted
<1>8. ASSUME NEW c \in Clients, client[c].k = k PROVE OwnerInv(c, k, cn, u, dn, v, t, sk2, j)
  BY <1>4, <1>8 DEF LocalInv, OwnerInv, Shaking, Commanding
<1>9. QED
  BY <1>5, <1>7, <1>8 DEF LocalInv, v

LEMMA Moved ==
    ASSUME NEW r \in Nat, NEW f \in Nat, NEW n \in Nat, NEW g \in Nat, NEW f2 \in Nat, f2 = f - n, r + f <= g
    PROVE  (r + n) + f2 = r + f /\ r + n \in 0..g
OBVIOUS

(* RW, CREDIT_UPDATE and SHUTDOWN: the units are in the socket's buffer     *)
(* now, and the count that came with them is taken over.                    *)
DataSock(sk, p) == [sk EXCEPT !.rbuf = @ + p.n, !.pfwd = p.fwd]

LEMMA DataTaken ==
    ASSUME NEW k, NEW cn, NEW u, NEW dn, NEW s, NEW t, NEW sk, NEW j, Typed(cn, u, dn, s, t, sk, j),
           LocalInv(k, cn, u, dn, s, t, sk, j), s # <<>>, s[1].port = k, RxShape(s[1]),
           s[1].op \in {"RW", "CREDIT_UPDATE", "SHUTDOWN"}, sk.st \in {"queued", "open"}
    PROVE  /\ DataSock(sk, s[1]) \in SockT
           /\ LocalInv(k, cn, u, dn, Without(s, 1), t, DataSock(sk, s[1]), j)
<1> DEFINE sk2 == DataSock(sk, s[1])
<1> HIDE DEF sk2
<1> DEFINE v == Without(s, 1)
           p == s[1]
           n == p.n
           f == InFlight(s, k)
           r == sk.rbuf
<1>1. /\ cn \in ConnT /\ u \in LineT /\ s \in Seq(RxPackets) /\ sk \in SockT /\ j \in JobT
      /\ t \in Seq(TxPackets) /\ dn \in Seq(Frames)
  BY DEF Typed
<1>2. /\ 1 \in 1..Len(s) /\ Len(v) = Len(s) - 1 /\ v \in Seq(RxPackets) /\ p \in RxPackets
      /\ \A i \in 1..(Len(s) - 1) : v[i] = s[i + 1] /\ i + 1 \in 1..Len(s) /\ i + 1 # 1
  BY <1>1, WireFirst
<1>3. n \in Nat /\ p.fwd \in 0..(Modulus - 1) /\ p.fwd \in Int /\ f \in Nat /\ r \in Nat
      /\ InFlight(v, k) \in Nat /\ cn.rxfwd \in Int /\ sk.tx \in Int /\ sk.pfwd \in Int
  <2>1. n \in Nat /\ p.fwd \in 0..(Modulus - 1) /\ p.fwd \in Int
    <3> HIDE DEF p
    <3> QED BY <1>2, AssumeTypes DEF RxPackets
  <2>2. f \in Nat /\ InFlight(v, k) \in Nat
    BY <1>1, <1>2, InFlightType
  <2>3. QED
    BY <1>1, <2>1, <2>2, SockInts, ConnInts
<1>4. InFlight(v, k) = f - n
  <2>1. LoadTo(p, k) = n
    BY DEF LoadTo, Carries, RxShape
  <2>2. QED
    BY <1>1, <1>2, <2>1, InFlightWithout, ZenonT(40)
<1>5. (r + n) + InFlight(v, k) = r + f /\ r + n \in 0..GuestBuf
  <2>1. r + f <= GuestBuf
    BY DEF LocalInv, StreamInv
  <2>2. GuestBuf \in Nat
    BY AssumeTypes
  <2>3. QED
    BY <1>3, <1>4, <2>1, <2>2, Moved
<1>6. /\ sk2 \in SockT /\ sk2.st = sk.st /\ sk2.rbuf = r + n /\ sk2.fwd = sk.fwd /\ sk2.tx = sk.tx
      /\ sk2.pfwd = p.fwd
  BY <1>1, <1>3, <1>5 DEF SockT, sk2, DataSock
<1>7. cn.st \in {"established", "dropped"}
  BY <1>1, <1>2 DEF LocalInv, StreamInv, Unopened, Silent, Opening, Early, ConnT
<1>8. sk2.rbuf + InFlight(v, k) = sk.rbuf + InFlight(s, k)
  BY <1>5, <1>6
<1> HIDE DEF v, f, r, n
<1>9. ASSUME Opened(k, cn, u, dn, s, t, sk, j) PROVE Opened(k, cn, u, dn, v, t, sk2, j)
  <2>1. GuestCredit(k, cn, v, t, sk2)
    BY <1>6, <1>8, <1>9 DEF Opened, GuestCredit
  <2>2. Counts(s, k, sk.tx, sk.pfwd, cn.rxfwd)
    BY <1>9 DEF Opened, HostCredit
  <2>3. Counts(v, k, sk.tx, p.fwd, cn.rxfwd)
    BY <1>1, <1>3, <2>2, CountsTaken DEF v
  <2>4. Behind(p.fwd, sk.tx) \in Behind(cn.rxfwd, sk.tx)..Behind(sk.pfwd, sk.tx)
    BY <1>2, <2>2 DEF Counts
  <2> HIDE DEF p
  <2>5. /\ Behind(cn.rxfwd, sk.tx) <= Behind(p.fwd, sk.tx)
        /\ Behind(p.fwd, sk.tx) <= HostBuf
    <3>1. /\ Behind(cn.rxfwd, sk.tx) \in Int /\ Behind(sk.pfwd, sk.tx) \in Int
          /\ Behind(p.fwd, sk.tx) \in Int /\ HostBuf \in Int
      <4>1. Behind(cn.rxfwd, sk.tx) \in Int
        BY <1>3, BehindInt
      <4>2. Behind(sk.pfwd, sk.tx) \in Int
        BY <1>3, BehindInt
      <4>3. Behind(p.fwd, sk.tx) \in Int
        BY <1>3, BehindInt
      <4>4. HostBuf \in Int
        BY AssumeTypes
      <4>5. QED
        BY <4>1, <4>2, <4>3, <4>4
    <3>2. Behind(sk.pfwd, sk.tx) <= HostBuf
      BY <1>9 DEF Opened, HostCredit
    <3>3. QED
      BY <2>4, <3>1, <3>2
  <2>6. HostCredit(k, cn, v, t, sk2)
    BY <1>6, <1>9, <2>3, <2>5 DEF Opened, HostCredit
  <2>7. \A i \in 1..Len(v) : v[i].port = k => v[i].op \in {"RW", "CREDIT_UPDATE"}
    BY <1>2, <1>9 DEF Opened
  <2>8. QED
    BY <1>6, <1>9, <2>1, <2>6, <2>7 DEF Opened
<1>10. Counted(k, u, v, sk2, j)
  <2> DEFINE x == Len(u)
             y == Spent(j)
             a == sk2.rbuf
             b == InFlight(v, k)
  <2>1. x \in Nat /\ y \in Nat /\ a \in Nat /\ b \in Nat /\ ExecLen \in Nat
    BY <1>1, <1>3, <1>6, SockInts, JobInts, AssumeTypes, LenProperties DEF LineT
  <2>2. x + f + r + y <= ExecLen /\ \A i \in 1..Len(u) : u[i] = "exec"
    BY <1>7 DEF LocalInv, StreamInv, Early, Counted, f, r
  <2>3. a + b = r + f
    BY <1>8 DEF r, f
  <2> HIDE DEF x, y, a, b
  <2>4. x + b + a + y <= ExecLen
    BY <1>3, <2>1, <2>2, <2>3
  <2>5. QED
    BY <2>2, <2>4 DEF Counted, x, y, a, b
<1>11. Dropped(k, s) => Dropped(k, v)
  BY <1>2 DEF Dropped
<1>12. StreamInv(k, cn, u, dn, v, t, sk2, j)
  BY <1>6, <1>7, <1>8, <1>9, <1>10, <1>11 DEF LocalInv, StreamInv, Early
<1>13. ASSUME NEW c \in Clients, client[c].k = k PROVE OwnerInv(c, k, cn, u, dn, v, t, sk2, j)
  BY <1>7, <1>8, <1>13 DEF LocalInv, OwnerInv, Shaking
<1>14. QED
  BY <1>6, <1>12, <1>13 DEF LocalInv, v, sk2

-------------------------------------------------------------------------------
(* The jobs. *)

LEMMA BusyJob ==
    ASSUME NEW j, j.pc \notin {"none", "read"} \/ j.child # "none" PROVE Busy(j)
<1>1. [NoJob EXCEPT !.pc = j.pc].child = "none"
  BY DEF NoJob
<1>2. QED
  BY <1>1 DEF Busy

(* What a step of a thread, a reader, a child or the reaper may do to a job. *)
Fated(j, j2) ==
    j.fate # "none" => /\ j2.fate # "none"
                       /\ j2.child = "zombie" => j.child = "zombie" /\ j2.early = j.early
Moves(j, j2) ==
    /\ j2 \in JobT /\ Busy(j) /\ Settled(j, j2) /\ j.wrote <= j2.wrote /\ Spent(j2) <= Spent(j)
    /\ ThreadInv(j2) /\ ChildInv(j2) /\ Fated(j, j2)

LEMMA Spawned ==
    ASSUME NEW j \in JobT, ThreadInv(j), ChildInv(j), j.pc = "exec",
           NEW j2 \in {[j EXCEPT !.pc = "spawned", !.child = "running"],
                       [j EXCEPT !.pc = "exit", !.code = "127"]}
    PROVE  Moves(j, j2) /\ Sent(j2) = Sent(j) /\ j2.child # "zombie"
<1>1. /\ j2 \in JobT /\ j2.in = j.in /\ j2.pipe = j.pipe /\ j2.wrote = j.wrote
      /\ j2.reader = j.reader /\ j2.fate = j.fate /\ j2.early = j.early
      /\ \/ j2.pc = "spawned" /\ j2.child = "running" /\ j2.code = j.code
         \/ j2.pc = "exit" /\ j2.child = j.child /\ j2.code = "127"
  BY DEF JobT, Codes
<1>2. /\ j.in = ExecLen /\ j.child = "none" /\ j.code = "none" /\ j.reader = "none"
      /\ j.pipe = 0 /\ j.wrote = 0 /\ j.fate = "none"
  BY DEF ThreadInv, ChildInv, Executed
<1>3. Busy(j)
  BY BusyJob
<1>4. Spent(j2) <= Spent(j) /\ Sent(j2) = Sent(j)
  <2>1. Spent(j) = ExecLen /\ Spent(j2) = ExecLen /\ ExecLen \in Nat
    BY <1>1, <1>2, AssumeTypes DEF Spent, Executed
  <2>2. Sent(j) = 0 /\ Sent(j2) = 0
    BY <1>1, <1>2 DEF Sent
  <2>3. QED
    BY <2>1, <2>2
<1>5. ThreadInv(j2)
  BY <1>1, <1>2 DEF ThreadInv, Executed
<1>6. ChildInv(j2)
  BY <1>1, <1>2 DEF ChildInv
<1>7. QED
  BY <1>1, <1>2, <1>3, <1>4, <1>5, <1>6 DEF Moves, Settled, Fated

LEMMA Claimed ==
    ASSUME NEW j \in JobT, ThreadInv(j), ChildInv(j), j.pc = "spawned",
           NEW j2, j2 = [j EXCEPT !.pc = "wait", !.reader = "run"]
    PROVE  Moves(j, j2) /\ Sent(j2) = Sent(j)
<1>1. /\ j2 \in JobT /\ j2.in = j.in /\ j2.pipe = j.pipe /\ j2.wrote = j.wrote
      /\ j2.reader = "run" /\ j2.fate = j.fate /\ j2.early = j.early
      /\ j2.pc = "wait" /\ j2.child = j.child /\ j2.code = j.code
  BY DEF JobT
<1>2. j.reader = "none" /\ j.pipe = j.wrote /\ j.code = "none" /\ j.child # "none" /\ j.in = ExecLen
  BY DEF ThreadInv
<1>3. Busy(j)
  BY BusyJob
<1>4. Spent(j2) <= Spent(j) /\ Sent(j2) = Sent(j)
  <2>1. Spent(j) = ExecLen /\ Spent(j2) = ExecLen /\ ExecLen \in Nat /\ j.wrote \in Nat
    BY <1>1, <1>2, AssumeTypes, JobInts DEF Spent, Executed
  <2>2. Sent(j) = 0 /\ Sent(j2) = 0
    BY <1>1, <1>2, <2>1 DEF Sent
  <2>3. QED
    BY <2>1, <2>2
<1>5. ThreadInv(j2)
  BY <1>1, <1>2 DEF ThreadInv, Executed
<1>6. ChildInv(j2)
  BY <1>1, <1>2 DEF ChildInv
<1>7. j.wrote \in Nat
  BY JobInts
<1>8. QED
  BY <1>7, <1>1, <1>2, <1>3, <1>4, <1>5, <1>6 DEF Moves, Settled, Fated

LEMMA Killed ==
    ASSUME NEW j \in JobT, ChildInv(j), j.child \in {"running", "zombie", "reaped"}
    PROVE  /\ Kill(j) \in JobT
           /\ Kill(j).pc = j.pc /\ Kill(j).in = j.in /\ Kill(j).pipe = j.pipe /\ Kill(j).wrote = j.wrote
           /\ Kill(j).reader = j.reader /\ Kill(j).early = j.early /\ Kill(j).code = j.code
           /\ Kill(j).child = (IF j.child = "reaped" THEN "reaped" ELSE "taken")
           /\ Kill(j).fate = (IF j.child = "running" THEN "killed" ELSE j.fate)
           /\ Kill(j).fate # "none"
BY DEF Kill, JobT, ChildInv

LEMMA CloneFailed ==
    ASSUME NEW j \in JobT, ThreadInv(j), ChildInv(j), j.pc = "spawned",
           NEW j2, j2 = [Kill(j) EXCEPT !.pc = "read", !.in = 0, !.pipe = 0]
    PROVE  Moves(j, j2) /\ Sent(j2) = Sent(j) /\ j2.child # "zombie"
<1>1. j.reader = "none" /\ j.code = "none" /\ j.child \in {"running", "zombie", "reaped"}
  BY DEF ThreadInv
<1> DEFINE i == Kill(j)
<1>2. /\ i \in JobT /\ i.wrote = j.wrote /\ i.reader = j.reader /\ i.early = j.early /\ i.code = j.code
      /\ i.child = (IF j.child = "reaped" THEN "reaped" ELSE "taken")
      /\ i.fate = (IF j.child = "running" THEN "killed" ELSE j.fate) /\ i.fate # "none"
  BY <1>1, Killed
<1> HIDE DEF i
<1>3. /\ j2 \in JobT /\ j2.in = 0 /\ j2.pipe = 0 /\ j2.wrote = j.wrote
      /\ j2.reader = "none" /\ j2.early = j.early /\ j2.pc = "read" /\ j2.code = "none"
      /\ j2.child = (IF j.child = "reaped" THEN "reaped" ELSE "taken")
      /\ j2.fate = (IF j.child = "running" THEN "killed" ELSE j.fate) /\ j2.fate # "none"
  <2>1. j2 = [i EXCEPT !.pc = "read", !.in = 0, !.pipe = 0]
    BY DEF i
  <2>2. 0 \in 0..ExecLen /\ 0 \in 0..PipeCap
    BY AssumeTypes
  <2>3. /\ j2 \in JobT /\ j2.in = 0 /\ j2.pipe = 0 /\ j2.pc = "read" /\ j2.wrote = i.wrote
        /\ j2.reader = i.reader /\ j2.early = i.early /\ j2.code = i.code /\ j2.child = i.child
        /\ j2.fate = i.fate
    <3>1. i \in JobT
      BY <1>2
    <3>2. QED
      BY <2>1, <2>2, <3>1 DEF JobT
  <2>4. QED
    BY <1>1, <1>2, <2>3
<1>4. Busy(j)
  BY BusyJob
<1>5. Spent(j2) <= Spent(j) /\ Sent(j2) = Sent(j)
  <2>1. Spent(j) = ExecLen /\ Spent(j2) = ExecLen /\ ExecLen \in Nat
    BY <1>1, <1>3, AssumeTypes DEF Spent, Executed
  <2>2. Sent(j) = 0 /\ Sent(j2) = 0
    BY <1>1, <1>3 DEF Sent
  <2>3. QED
    BY <2>1, <2>2
<1>6. j.wrote \in Nat
  BY JobInts
<1>7. ThreadInv(j2)
  BY <1>1, <1>3, <1>6 DEF ThreadInv, Executed
<1>8. ChildInv(j2)
  BY <1>1, <1>3 DEF ChildInv
<1>9. QED
  BY <1>1, <1>3, <1>4, <1>5, <1>6, <1>7, <1>8 DEF Moves, Settled, Fated

(* The thread stops waiting: code says why. *)
LEMMA Waited ==
    ASSUME NEW j \in JobT, ThreadInv(j), ChildInv(j), j.pc = "wait",
           NEW j2 \in JobT, j2.in = j.in, j2.pipe = j.pipe, j2.wrote = j.wrote, j2.reader = j.reader,
           j2.early = j.early, j2.pc = "join", j2.code \in {"zero", "124", "-1"},
           j2.fate # "none", j2.child \in {"taken", "reaped"},
           j2.child = "reaped" => j.child = "reaped" /\ j2.fate = j.fate,
           j2.code = "zero" => j2.fate = "exit",
           j2.code = "-1" => j2.fate = "signal" \/ j2.child = "reaped"
    PROVE  Moves(j, j2) /\ Sent(j2) = Sent(j) /\ j2.child # "zombie"
<1>1. j.reader # "none" /\ j.code = "none" /\ j.child # "none" /\ j.in = ExecLen
  BY DEF ThreadInv
<1>2. Busy(j)
  BY BusyJob
<1>3. Spent(j2) <= Spent(j) /\ Sent(j2) = Sent(j)
  <2>1. Spent(j) = ExecLen /\ Spent(j2) = ExecLen /\ ExecLen \in Nat
    BY <1>1, AssumeTypes DEF Spent, Executed
  <2>2. Sent(j2) = Sent(j)
    BY <1>1 DEF Sent
  <2>3. QED
    BY <2>1, <2>2
<1>4. ThreadInv(j2)
  BY <1>1 DEF ThreadInv, Executed
<1>5. ChildInv(j2)
  BY <1>1 DEF ChildInv
<1>6. j.wrote \in Nat
  BY JobInts
<1>7. QED
  BY <1>1, <1>2, <1>3, <1>4, <1>5, <1>6 DEF Moves, Settled, Fated

LEMMA WaitEnds ==
    ASSUME NEW j \in JobT, ThreadInv(j), ChildInv(j), j.pc = "wait", j.child \in {"zombie", "reaped"},
           NEW j2, j2 = [j EXCEPT !.pc = "join", !.child = IF @ = "zombie" THEN "taken" ELSE @,
                           !.code = IF j.child = "zombie" /\ j.fate = "exit" THEN "zero" ELSE "-1"]
    PROVE  Moves(j, j2) /\ Sent(j2) = Sent(j) /\ j2.child # "zombie"
<1>1. j.fate \in {"exit", "signal"}
  BY DEF ChildInv
<1>2. /\ j2 \in JobT /\ j2.in = j.in /\ j2.pipe = j.pipe /\ j2.wrote = j.wrote
      /\ j2.reader = j.reader /\ j2.early = j.early /\ j2.pc = "join" /\ j2.fate = j.fate
      /\ j2.child = (IF j.child = "zombie" THEN "taken" ELSE j.child)
      /\ j2.code = (IF j.child = "zombie" /\ j.fate = "exit" THEN "zero" ELSE "-1")
  BY DEF JobT, Codes
<1>3. /\ j2.child \in {"taken", "reaped"} /\ j2.code \in {"zero", "124", "-1"} /\ j2.fate # "none"
      /\ j2.child = "reaped" => j.child = "reaped" /\ j2.fate = j.fate
      /\ j2.code = "zero" => j2.fate = "exit"
      /\ j2.code = "-1" => j2.fate = "signal" \/ j2.child = "reaped"
  BY <1>1, <1>2
<1>4. QED
  BY <1>2, <1>3, Waited

LEMMA DeadlineEnds ==
    ASSUME NEW j \in JobT, ThreadInv(j), ChildInv(j), j.pc = "wait",
           NEW j2, j2 = [Kill(j) EXCEPT !.pc = "join", !.code = "124"]
    PROVE  Moves(j, j2) /\ Sent(j2) = Sent(j) /\ j2.child # "zombie"
<1> DEFINE i == Kill(j)
<1>1. j.child \in {"running", "zombie", "reaped"}
  BY DEF ThreadInv
<1>2. /\ i \in JobT /\ i.in = j.in /\ i.pipe = j.pipe /\ i.wrote = j.wrote /\ i.reader = j.reader
      /\ i.early = j.early /\ i.child = (IF j.child = "reaped" THEN "reaped" ELSE "taken")
      /\ i.fate = (IF j.child = "running" THEN "killed" ELSE j.fate) /\ i.fate # "none"
  BY <1>1, Killed
<1> HIDE DEF i
<1>3. /\ j2 \in JobT /\ j2.in = j.in /\ j2.pipe = j.pipe /\ j2.wrote = j.wrote
      /\ j2.reader = j.reader /\ j2.early = j.early /\ j2.pc = "join" /\ j2.code = "124"
      /\ j2.child = (IF j.child = "reaped" THEN "reaped" ELSE "taken")
      /\ j2.fate = (IF j.child = "running" THEN "killed" ELSE j.fate) /\ j2.fate # "none"
  <2>1. j2 = [i EXCEPT !.pc = "join", !.code = "124"]
    BY DEF i
  <2>2. i \in JobT
    BY <1>2
  <2>3. /\ j2 \in JobT /\ j2.in = i.in /\ j2.pipe = i.pipe /\ j2.pc = "join" /\ j2.wrote = i.wrote
        /\ j2.reader = i.reader /\ j2.early = i.early /\ j2.code = "124" /\ j2.child = i.child
        /\ j2.fate = i.fate
    BY <2>1, <2>2 DEF JobT, Codes
  <2>4. QED
    BY <1>2, <2>3
<1>4. /\ j2.child \in {"taken", "reaped"} /\ j2.code \in {"zero", "124", "-1"} /\ j2.fate # "none"
      /\ j2.child = "reaped" => j.child = "reaped" /\ j2.fate = j.fate
      /\ j2.code # "zero" /\ j2.code # "-1"
  BY <1>1, <1>3
<1>5. QED
  BY <1>3, <1>4, Waited

(* A reader's end; what is left in the pipe is lost with the socket. *)
LEMMA ReaderEnds ==
    ASSUME NEW j \in JobT, ThreadInv(j), ChildInv(j), j.reader = "run",
           NEW j2, j2 = [j EXCEPT !.pipe = 0, !.reader = "ended"]
    PROVE  /\ Moves(j, j2) /\ (j.pipe = 0 => Sent(j2) = Sent(j))
           /\ j2.child = j.child /\ j2.early = j.early
<1>1. /\ j2 \in JobT /\ j2.in = j.in /\ j2.pipe = 0 /\ j2.wrote = j.wrote
      /\ j2.reader = "ended" /\ j2.fate = j.fate /\ j2.early = j.early
      /\ j2.pc = j.pc /\ j2.child = j.child /\ j2.code = j.code
  <2>1. 0 \in 0..PipeCap
    BY AssumeTypes
  <2>2. QED
    BY <2>1 DEF JobT
<1>2. j.pc \in {"wait", "join"} /\ j.wrote \in Nat
  BY JobInts DEF ThreadInv
<1>3. Busy(j)
  BY <1>2, BusyJob
<1>4. Spent(j2) <= Spent(j)
  <2>1. Spent(j) \in Nat /\ Spent(j2) = Spent(j)
    BY <1>1, JobInts DEF Spent, Executed
  <2>2. QED
    BY <2>1
<1>5. j.pipe = 0 => Sent(j2) = Sent(j)
  BY <1>1 DEF Sent
<1>6. ThreadInv(j2)
  BY <1>1, <1>2 DEF ThreadInv, Executed
<1>7. ChildInv(j2)
  BY <1>1 DEF ChildInv
<1>8. QED
  BY <1>1, <1>2, <1>3, <1>4, <1>5, <1>6, <1>7 DEF Moves, Settled, Fated

LEMMA Joined ==
    ASSUME NEW j \in JobT, ThreadInv(j), ChildInv(j), j.pc = "join", j.reader = "ended",
           NEW j2, j2 = [j EXCEPT !.pc = "exit"]
    PROVE  Moves(j, j2) /\ Sent(j2) = Sent(j) /\ j2.child # "zombie"
<1>1. /\ j2 \in JobT /\ j2.in = j.in /\ j2.pipe = j.pipe /\ j2.wrote = j.wrote
      /\ j2.reader = "ended" /\ j2.fate = j.fate /\ j2.early = j.early
      /\ j2.pc = "exit" /\ j2.child = j.child /\ j2.code = j.code
  BY DEF JobT
<1>2. j.child # "zombie" /\ j.wrote \in Nat /\ j.code # "none"
  BY JobInts DEF ChildInv, ThreadInv
<1>3. Busy(j)
  BY <1>2, BusyJob
<1>4. Spent(j2) <= Spent(j)
  <2>1. Spent(j) \in Nat /\ Spent(j2) = Spent(j)
    BY <1>1, JobInts DEF Spent, Executed
  <2>2. QED
    BY <2>1
<1>5. Sent(j2) = Sent(j)
  BY <1>1 DEF Sent
<1>6. ThreadInv(j2)
  BY <1>1, <1>2 DEF ThreadInv, Executed
<1>7. ChildInv(j2)
  BY <1>1, <1>2 DEF ChildInv
<1>8. QED
  BY <1>1, <1>2, <1>3, <1>4, <1>5, <1>6, <1>7 DEF Moves, Settled, Fated

(* The Exit frame is the last. *)
LEMMA Exited ==
    ASSUME NEW j \in JobT, ThreadInv(j), ChildInv(j), j.pc = "exit",
           NEW j2, j2 = [j EXCEPT !.pc = "read", !.in = 0]
    PROVE  /\ Moves(j, j2) /\ Sent(j) = j.wrote /\ Sent(j2) = Sent(j) + 1
           /\ Nth(j2, Exit(j.code), Sent(j2)) /\ j2.child # "zombie"
<1>1. /\ j2 \in JobT /\ j2.in = 0 /\ j2.pipe = j.pipe /\ j2.wrote = j.wrote
      /\ j2.reader = j.reader /\ j2.fate = j.fate /\ j2.early = j.early
      /\ j2.pc = "read" /\ j2.child = j.child /\ j2.code = j.code
  <2>1. 0 \in 0..ExecLen
    BY AssumeTypes
  <2>2. QED
    BY <2>1 DEF JobT
<1>2. j.child # "zombie" /\ j.wrote \in Nat /\ j.code # "none" /\ j.pipe = 0
  BY JobInts DEF ChildInv, ThreadInv
<1>3. Busy(j)
  BY <1>2, BusyJob
<1>4. Spent(j2) <= Spent(j)
  <2>1. Spent(j) = ExecLen /\ Spent(j2) = ExecLen /\ ExecLen \in Nat
    BY <1>1, <1>2, AssumeTypes DEF Spent, Executed
  <2>2. QED
    BY <2>1
<1>5. Sent(j) = j.wrote /\ Sent(j2) = j.wrote + 1
  BY <1>1, <1>2 DEF Sent
<1>6. Nth(j2, Exit(j.code), Sent(j2))
  BY <1>1, <1>2, <1>5 DEF Nth, Exit
<1>7. ThreadInv(j2)
  BY <1>1, <1>2 DEF ThreadInv, Executed
<1>8. ChildInv(j2)
  BY <1>1, <1>2 DEF ChildInv
<1>9. QED
  BY <1>1, <1>2, <1>3, <1>4, <1>5, <1>6, <1>7, <1>8 DEF Moves, Settled, Fated

(* A chunk of the pipe becomes the next frame. *)
LEMMA Forwarded ==
    ASSUME NEW j \in JobT, ThreadInv(j), ChildInv(j), j.reader = "run", j.pipe > 0,
           NEW j2, j2 = [j EXCEPT !.pipe = @ - 1]
    PROVE  /\ Moves(j, j2) /\ Sent(j2) = Sent(j) + 1
           /\ Out(j.wrote - j.pipe + 1) \in Frames /\ Nth(j2, Out(j.wrote - j.pipe + 1), Sent(j2))
           /\ j2.child = j.child /\ j2.early = j.early
<1>1. j.wrote \in Nat /\ j.pipe \in Nat /\ j.pipe <= j.wrote /\ j.wrote <= MaxOut /\ MaxOut \in Nat
  BY JobInts, AssumeTypes DEF ThreadInv
<1>2. /\ j2 \in JobT /\ j2.in = j.in /\ j2.pipe = j.pipe - 1 /\ j2.wrote = j.wrote
      /\ j2.reader = "run" /\ j2.fate = j.fate /\ j2.early = j.early
      /\ j2.pc = j.pc /\ j2.child = j.child /\ j2.code = j.code
  <2>1. j.pipe \in 0..PipeCap
    BY DEF JobT
  <2>2. j.pipe - 1 \in 0..PipeCap
    BY <2>1, <1>1, AssumeTypes
  <2>3. QED
    BY <2>2 DEF JobT
<1>3. j.pc \in {"wait", "join"} /\ (j.code # "none" => j.pc = "join")
  BY DEF ThreadInv
<1>4. Busy(j)
  BY <1>3, BusyJob
<1>5. Spent(j2) <= Spent(j)
  <2>1. Spent(j) \in Nat /\ Spent(j2) = Spent(j)
    BY <1>2, JobInts DEF Spent, Executed
  <2>2. QED
    BY <2>1
<1>6. Sent(j) = j.wrote - j.pipe /\ Sent(j2) = j.wrote - (j.pipe - 1)
  <2>1. j.wrote - j.pipe \in Int /\ j.wrote - (j.pipe - 1) \in Int
    BY <1>1
  <2>2. Sent(j) = (j.wrote - j.pipe) + 0
    BY <1>3 DEF Sent
  <2>3. Sent(j2) = (j.wrote - (j.pipe - 1)) + 0
    BY <1>2, <1>3 DEF Sent
  <2>4. QED
    BY <2>1, <2>2, <2>3
<1> DEFINE m == j.wrote - j.pipe + 1
<1>7. m \in 1..j.wrote /\ m \in 0..MaxOut /\ j.wrote - (j.pipe - 1) = m /\ m = (j.wrote - j.pipe) + 1
      /\ j.pipe - 1 <= j.wrote
  BY <1>1
<1> HIDE DEF m
<1>8. Out(m) \in Frames /\ Nth(j2, Out(m), m)
  BY <1>2, <1>7 DEF Out, Frames, Nth
<1>9. ThreadInv(j2)
  BY <1>2, <1>3, <1>7 DEF ThreadInv, Executed
<1>10. ChildInv(j2)
  BY <1>2 DEF ChildInv
<1>11. j.wrote <= j2.wrote
  BY <1>1, <1>2
<1>12. Sent(j2) = m /\ Sent(j2) = Sent(j) + 1
  BY <1>6, <1>7
<1>13. Moves(j, j2)
  BY <1>2, <1>4, <1>5, <1>9, <1>10, <1>11 DEF Moves, Settled, Fated
<1>14. QED
  BY <1>2, <1>8, <1>12, <1>13 DEF m

LEMMA Wrote ==
    ASSUME NEW j \in JobT, ThreadInv(j), ChildInv(j), j.child = "running", j.wrote < MaxOut,
           j.pipe < PipeCap, j.reader # "ended", NEW j2, j2 = [j EXCEPT !.wrote = @ + 1, !.pipe = @ + 1]
    PROVE  Moves(j, j2) /\ Sent(j2) = Sent(j) /\ j2.child # "zombie"
<1>1. j.wrote \in Nat /\ j.pipe \in Nat /\ j.pipe <= j.wrote /\ MaxOut \in Nat /\ PipeCap \in Nat
  BY JobInts, AssumeTypes DEF ThreadInv
<1>2. /\ j2 \in JobT /\ j2.in = j.in /\ j2.pipe = j.pipe + 1 /\ j2.wrote = j.wrote + 1
      /\ j2.reader = j.reader /\ j2.fate = j.fate /\ j2.early = j.early
      /\ j2.pc = j.pc /\ j2.child = j.child /\ j2.code = j.code
  <2>1. j.wrote + 1 \in 0..MaxOut /\ j.pipe + 1 \in 0..PipeCap
    BY <1>1
  <2>2. QED
    BY <2>1 DEF JobT
<1>3. j.pc \in {"spawned", "wait"} /\ j.code = "none"
  BY DEF ThreadInv, ChildInv
<1>4. Busy(j)
  BY <1>3, BusyJob
<1>5. Spent(j2) <= Spent(j)
  <2>1. Spent(j) \in Nat /\ Spent(j2) = Spent(j)
    BY <1>2, JobInts DEF Spent, Executed
  <2>2. QED
    BY <2>1
<1>6. Sent(j2) = Sent(j)
  <2>1. (j.wrote + 1) - (j.pipe + 1) = j.wrote - j.pipe
    BY <1>1
  <2>2. QED
    BY <1>2, <2>1 DEF Sent
<1>7. j2.pipe <= j2.wrote /\ j.wrote <= j2.wrote /\ (j.pipe = j.wrote => j2.pipe = j2.wrote)
  BY <1>1, <1>2
<1>8. ThreadInv(j2)
  BY <1>2, <1>3, <1>7 DEF ThreadInv, Executed
<1>9. ChildInv(j2)
  BY <1>2 DEF ChildInv
<1>10. QED
  BY <1>2, <1>3, <1>4, <1>5, <1>6, <1>7, <1>8, <1>9 DEF Moves, Settled, Fated

(* The child ends, and the reaper may take it. *)
LEMMA Ended ==
    ASSUME NEW j \in JobT, ThreadInv(j), ChildInv(j), j.child = "running",
           NEW j2 \in JobT, j2.in = j.in, j2.pipe = j.pipe, j2.wrote = j.wrote, j2.reader = j.reader,
           j2.pc = j.pc, j2.code = j.code, j2.child = "zombie", j2.fate \in {"exit", "signal"}
    PROVE  Moves(j, j2) /\ Sent(j2) = Sent(j)
<1>1. j.pc \in {"spawned", "wait"} /\ j.code = "none" /\ j.fate = "none" /\ j.wrote \in Nat
  BY JobInts DEF ThreadInv, ChildInv
<1>2. Busy(j)
  BY <1>1, BusyJob
<1>3. Spent(j2) <= Spent(j)
  <2>1. Spent(j) \in Nat /\ Spent(j2) = Spent(j)
    BY JobInts DEF Spent, Executed
  <2>2. QED
    BY <2>1
<1>4. Sent(j2) = Sent(j)
  BY DEF Sent
<1>5. ThreadInv(j2)
  <2>1. Executed(j) /\ Executed(j2) /\ j2.pc \notin {"none", "exec", "read"}
    BY <1>1 DEF Executed
  <2>2. QED
    BY <1>1, <2>1 DEF ThreadInv
<1>6. ChildInv(j2)
  BY <1>1 DEF ChildInv
<1>7. QED
  BY <1>1, <1>2, <1>3, <1>4, <1>5, <1>6 DEF Moves, Settled, Fated

LEMMA Reaped ==
    ASSUME NEW j \in JobT, ThreadInv(j), ChildInv(j), j.fate # "none", j.child = "zombie" => j.early,
           NEW j2, j2 = [j EXCEPT !.child = IF @ = "zombie" THEN "reaped" ELSE @]
    PROVE  Moves(j, j2) /\ Sent(j2) = Sent(j) /\ j2.child # "zombie"
<1>1. /\ j2 \in JobT /\ j2.in = j.in /\ j2.pipe = j.pipe /\ j2.wrote = j.wrote
      /\ j2.reader = j.reader /\ j2.fate = j.fate /\ j2.early = j.early
      /\ j2.pc = j.pc /\ j2.child = (IF j.child = "zombie" THEN "reaped" ELSE j.child)
      /\ j2.code = j.code
  BY DEF JobT
<1>2. j.child \notin {"none", "running"} /\ j.wrote \in Nat
  BY JobInts DEF ChildInv
<1>3. Busy(j)
  BY <1>2, BusyJob
<1>4. Spent(j2) <= Spent(j)
  <2>1. Spent(j) \in Nat /\ Spent(j2) = Spent(j)
    BY <1>1, <1>2, JobInts DEF Spent, Executed
  <2>2. QED
    BY <2>1
<1>5. Sent(j2) = Sent(j)
  BY <1>1 DEF Sent
<1>6. ThreadInv(j2)
  <2>1. j.pc # "none"
    BY <1>2 DEF ThreadInv, NoJob
  <2>2. Executed(j) /\ Executed(j2)
    BY <1>1, <1>2 DEF Executed
  <2>3. QED
    BY <1>1, <1>2, <2>1, <2>2 DEF ThreadInv
<1>7. ChildInv(j2)
  BY <1>1, <1>2 DEF ChildInv
<1>8. QED
  BY <1>1, <1>2, <1>3, <1>4, <1>5, <1>6, <1>7 DEF Moves, Settled, Fated

-------------------------------------------------------------------------------
(* The guest's steps. *)

LEMMA GuestAt ==
    ASSUME IInv, alive, NEW k \in Streams
    PROVE  /\ Typed(conn[k], up[k], down[k], rx \o backlog, tx, sock[k], job[k])
           /\ LocalInv(k, conn[k], up[k], down[k], rx \o backlog, tx, sock[k], job[k])
           /\ ThreadInv(job[k]) /\ ChildInv(job[k]) /\ ReaperInv
           /\ sock \in [Streams -> SockT] /\ job \in [Streams -> JobT]
           /\ sock[k] \in SockT /\ job[k] \in JobT /\ tx \in Seq(TxPackets)
           /\ \A c \in Clients : Len(got[c]) \in Nat
           /\ irq \in BOOLEAN /\ guest \in {"boot", "pinged", "up", "listening"}
           /\ owned \subseteq Streams
           /\ reaper \in [pc : {"idle", "peeked", "consume"}, k : 0..MaxStreams]
<1>1. TypeOK /\ ThreadInv(job[k]) /\ ChildInv(job[k]) /\ ReaperInv
  BY DEF IInv
<1>2. WInv(Now, tx) /\ tx \in Seq(TxPackets) /\ Around
  BY IInvNow, IInvAround
<1>3. /\ Typed(Now.conn[k], Now.up[k], Now.down[k], Wire(Now), tx, sock[k], job[k])
      /\ LocalInv(k, Now.conn[k], Now.up[k], Now.down[k], Wire(Now), tx, sock[k], job[k])
  BY <1>2, WInvAt
<1>4. /\ Typed(conn[k], up[k], down[k], rx \o backlog, tx, sock[k], job[k])
      /\ LocalInv(k, conn[k], up[k], down[k], rx \o backlog, tx, sock[k], job[k])
  BY <1>3, NowIs
<1>5. sock \in [Streams -> SockT] /\ job \in [Streams -> JobT]
  BY <1>1, TypeParts
<1>6. \A c \in Clients : Len(got[c]) \in Nat
  BY <1>2 DEF Around
<1>7. /\ irq \in BOOLEAN /\ guest \in {"boot", "pinged", "up", "listening"} /\ owned \subseteq Streams
      /\ reaper \in [pc : {"idle", "peeked", "consume"}, k : 0..MaxStreams]
  BY <1>1 DEF TypeOK
<1>8. QED
  BY <1>1, <1>2, <1>4, <1>5, <1>6, <1>7

LEMMA ReaperKept ==
    ASSUME ReaperInv, job \in [Streams -> JobT], NEW k \in Streams, NEW j,
           job' = [job EXCEPT ![k] = j], Fated(job[k], j), reaper' = reaper \/ reaper'.pc = "idle",
           \A m \in Streams : m # k /\ m \in owned => m \in owned',
           j.child = "zombie" /\ ~j.early => k \in owned'
    PROVE  ReaperInv'
<1>1. job'[k] = j /\ \A m \in Streams : m # k => job'[m] = job[m]
  OBVIOUS
<1>2. \A m \in Streams : job'[m].child = "zombie" /\ ~job'[m].early => m \in owned'
  BY <1>1 DEF ReaperInv
<1>3. reaper'.pc # "idle" => reaper'.k \in Streams /\ job'[reaper'.k].fate # "none"
  BY <1>1 DEF ReaperInv, Fated
<1>4. reaper'.pc = "consume" /\ job'[reaper'.k].child = "zombie" => job'[reaper'.k].early
  <2>1. SUFFICES ASSUME reaper'.pc = "consume", job'[reaper'.k].child = "zombie"
                 PROVE  job'[reaper'.k].early
    OBVIOUS
  <2>2. reaper' = reaper /\ reaper.k \in Streams /\ job[reaper.k].fate # "none"
        /\ (job[reaper.k].child = "zombie" => job[reaper.k].early)
    BY <2>1 DEF ReaperInv
  <2>3. CASE reaper.k = k
    BY <1>1, <2>1, <2>2, <2>3 DEF Fated
  <2>4. CASE reaper.k # k
    BY <1>1, <2>1, <2>2, <2>4
  <2>5. QED
    BY <2>3, <2>4
<1>5. QED
  BY <1>2, <1>3, <1>4 DEF ReaperInv

(* A step that changes a job and sends nothing. *)
LEMMA JobKeeps ==
    ASSUME IInv, alive, NEW k \in Streams, NEW j,
           job' = [job EXCEPT ![k] = j], Moves(job[k], j), Sent(j) = Sent(job[k]) \/ sock[k].st = "reset",
           owned' \subseteq Streams, \A m \in Streams : m # k /\ m \in owned => m \in owned',
           j.child = "zombie" /\ ~j.early => k \in owned',
           reaper' = reaper \/ reaper' = [pc |-> "idle", k |-> 0],
           UNCHANGED <<scene, host, uds, conn, rings, tx, ready, guest, sock, alive>>
    PROVE  IInv'
<1>1. /\ Typed(conn[k], up[k], down[k], rx \o backlog, tx, sock[k], job[k])
      /\ LocalInv(k, conn[k], up[k], down[k], rx \o backlog, tx, sock[k], job[k]) /\ ReaperInv
      /\ sock \in [Streams -> SockT] /\ job \in [Streams -> JobT] /\ sock[k] \in SockT
      /\ irq \in BOOLEAN /\ guest \in {"boot", "pinged", "up", "listening"}
      /\ \A c \in Clients : Len(got[c]) \in Nat
      /\ reaper \in [pc : {"idle", "peeked", "consume"}, k : 0..MaxStreams]
  BY GuestAt
<1>2. /\ j \in JobT /\ Busy(job[k]) /\ Settled(job[k], j) /\ job[k].wrote <= j.wrote
      /\ Spent(j) <= Spent(job[k]) /\ ThreadInv(j) /\ ChildInv(j) /\ Fated(job[k], j)
  BY DEF Moves
<1>3. ReaperInv'
  <2>1. reaper' = reaper \/ reaper'.pc = "idle"
    OBVIOUS
  <2>2. QED
    BY <1>1, <1>2, <2>1, ReaperKept
<1>4. rx' = rx /\ room' = room /\ backlog' = backlog /\ irq' = irq /\ tx' = tx /\ guest' = guest
  BY DEF rings
<1>5. LocalInv(k, conn[k], up[k], down[k], rx' \o backlog', tx', sock[k], j)
  <2>1. LocalInv(k, conn[k], up[k], down[k], rx \o backlog, tx, sock[k], j)
    BY <1>1, <1>2, JobMoves
  <2>2. QED
    BY <1>4, <2>1
<1>6. sock' = [sock EXCEPT ![k] = sock[k]]
  BY <1>1
<1>7. reaper' \in [pc : {"idle", "peeked", "consume"}, k : 0..MaxStreams]
  BY <1>1, AssumeTypes
<1>8. QED
  BY <1>1, <1>2, <1>3, <1>4, <1>5, <1>6, <1>7, GuestKeeps

LEMMA SpawnKeeps == ASSUME IInv, NEW k \in Streams, Spawn(k) PROVE IInv'
<1>1. alive /\ job[k].pc = "exec"
  BY DEF Spawn
<1>2. job[k] \in JobT /\ ThreadInv(job[k]) /\ ChildInv(job[k]) /\ job \in [Streams -> JobT]
      /\ owned \subseteq Streams
  BY <1>1, GuestAt
<1>3. PICK j \in {[job[k] EXCEPT !.pc = "spawned", !.child = "running"],
                  [job[k] EXCEPT !.pc = "exit", !.code = "127"]} : job' = [job EXCEPT ![k] = j]
  BY <1>2 DEF Spawn
<1>4. Moves(job[k], j) /\ Sent(j) = Sent(job[k]) /\ j.child # "zombie"
  BY <1>1, <1>2, Spawned
<1>5. QED
  BY <1>1, <1>2, <1>3, <1>4, JobKeeps DEF Spawn

LEMMA ClaimKeeps == ASSUME IInv, NEW k \in Streams, Claim(k) PROVE IInv'
<1>1. alive /\ job[k].pc = "spawned"
  BY DEF Claim
<1>2. job[k] \in JobT /\ ThreadInv(job[k]) /\ ChildInv(job[k]) /\ job \in [Streams -> JobT]
      /\ owned \subseteq Streams
  BY <1>1, GuestAt
<1> DEFINE j == [job[k] EXCEPT !.pc = "wait", !.reader = "run"]
<1>3. job' = [job EXCEPT ![k] = j]
  BY <1>2 DEF Claim
<1>4. Moves(job[k], j) /\ Sent(j) = Sent(job[k])
  BY <1>1, <1>2, Claimed
<1> HIDE DEF j
<1>5. /\ owned' \subseteq Streams /\ k \in owned'
      /\ \A m \in Streams : m # k /\ m \in owned => m \in owned'
  BY <1>2 DEF Claim
<1>6. QED
  BY <1>1, <1>3, <1>4, <1>5, JobKeeps DEF Claim

LEMMA CloneFailsKeeps == ASSUME IInv, NEW k \in Streams, CloneFails(k) PROVE IInv'
<1>1. alive /\ job[k].pc = "spawned"
  BY DEF CloneFails
<1>2. job[k] \in JobT /\ ThreadInv(job[k]) /\ ChildInv(job[k]) /\ job \in [Streams -> JobT]
      /\ owned \subseteq Streams
  BY <1>1, GuestAt
<1> DEFINE j == [Kill(job[k]) EXCEPT !.pc = "read", !.in = 0, !.pipe = 0]
<1>3. job' = [job EXCEPT ![k] = j]
  BY <1>2 DEF CloneFails
<1>4. Moves(job[k], j) /\ Sent(j) = Sent(job[k]) /\ j.child # "zombie"
  BY <1>1, <1>2, CloneFailed
<1> HIDE DEF j
<1>5. QED
  BY <1>1, <1>2, <1>3, <1>4, JobKeeps DEF CloneFails

LEMMA TryWaitKeeps == ASSUME IInv, NEW k \in Streams, TryWait(k) PROVE IInv'
<1>1. alive /\ job[k].pc = "wait" /\ job[k].child \in {"zombie", "reaped"}
  BY DEF TryWait
<1>2. job[k] \in JobT /\ ThreadInv(job[k]) /\ ChildInv(job[k]) /\ job \in [Streams -> JobT]
      /\ owned \subseteq Streams
  BY <1>1, GuestAt
<1> DEFINE j == [job[k] EXCEPT !.pc = "join", !.child = IF @ = "zombie" THEN "taken" ELSE @,
                   !.code = IF job[k].child = "zombie" /\ job[k].fate = "exit" THEN "zero" ELSE "-1"]
<1>3. job' = [job EXCEPT ![k] = j]
  BY <1>2 DEF TryWait
<1>4. Moves(job[k], j) /\ Sent(j) = Sent(job[k]) /\ j.child # "zombie"
  BY <1>1, <1>2, WaitEnds
<1> HIDE DEF j
<1>5. QED
  BY <1>1, <1>2, <1>3, <1>4, JobKeeps DEF TryWait

LEMMA DeadlineKeeps == ASSUME IInv, NEW k \in Streams, Deadline(k) PROVE IInv'
<1>1. alive /\ job[k].pc = "wait"
  BY DEF Deadline
<1>2. job[k] \in JobT /\ ThreadInv(job[k]) /\ ChildInv(job[k]) /\ job \in [Streams -> JobT]
      /\ owned \subseteq Streams
  BY <1>1, GuestAt
<1> DEFINE j == [Kill(job[k]) EXCEPT !.pc = "join", !.code = "124"]
<1>3. job' = [job EXCEPT ![k] = j]
  BY <1>2 DEF Deadline
<1>4. Moves(job[k], j) /\ Sent(j) = Sent(job[k]) /\ j.child # "zombie"
  BY <1>1, <1>2, DeadlineEnds
<1> HIDE DEF j
<1>5. QED
  BY <1>1, <1>2, <1>3, <1>4, JobKeeps DEF Deadline

LEMMA JoinKeeps == ASSUME IInv, NEW k \in Streams, Join(k) PROVE IInv'
<1>1. alive /\ job[k].pc = "join" /\ job[k].reader = "ended"
  BY DEF Join
<1>2. job[k] \in JobT /\ ThreadInv(job[k]) /\ ChildInv(job[k]) /\ job \in [Streams -> JobT]
      /\ owned \subseteq Streams
  BY <1>1, GuestAt
<1> DEFINE j == [job[k] EXCEPT !.pc = "exit"]
<1>3. job' = [job EXCEPT ![k] = j]
  BY <1>2 DEF Join
<1>4. Moves(job[k], j) /\ Sent(j) = Sent(job[k]) /\ j.child # "zombie"
  BY <1>1, <1>2, Joined
<1> HIDE DEF j
<1>5. owned' \subseteq Streams /\ \A m \in Streams : m # k /\ m \in owned => m \in owned'
  BY <1>2 DEF Join
<1>6. QED
  BY <1>1, <1>3, <1>4, <1>5, JobKeeps DEF Join

LEMMA ChildWritesKeeps == ASSUME IInv, NEW k \in Streams, ChildWrites(k) PROVE IInv'
<1>1. /\ alive /\ job[k].child = "running" /\ job[k].wrote < scene.out /\ job[k].pipe < PipeCap
      /\ job[k].reader # "ended"
  BY DEF ChildWrites
<1>2. job[k] \in JobT /\ ThreadInv(job[k]) /\ ChildInv(job[k]) /\ job \in [Streams -> JobT]
      /\ owned \subseteq Streams
  BY <1>1, GuestAt
<1>3. job[k].wrote < MaxOut
  <2>1. scene.out \in 0..MaxOut /\ job[k].wrote \in Nat /\ MaxOut \in Nat
    BY <1>2, TypeParts, JobInts, AssumeTypes DEF IInv
  <2>2. QED
    BY <1>1, <2>1
<1> DEFINE j == [job[k] EXCEPT !.wrote = @ + 1, !.pipe = @ + 1]
<1>4. job' = [job EXCEPT ![k] = j]
  BY <1>2 DEF ChildWrites
<1>5. Moves(job[k], j) /\ Sent(j) = Sent(job[k]) /\ j.child # "zombie"
  BY <1>1, <1>2, <1>3, Wrote
<1> HIDE DEF j
<1>6. QED
  BY <1>1, <1>2, <1>4, <1>5, JobKeeps DEF ChildWrites

LEMMA ChildExitsKeeps == ASSUME IInv, NEW k \in Streams, ChildExits(k) PROVE IInv'
<1>1. alive /\ job[k].child = "running"
  BY DEF ChildExits
<1>2. job[k] \in JobT /\ ThreadInv(job[k]) /\ ChildInv(job[k]) /\ job \in [Streams -> JobT]
      /\ owned \subseteq Streams
  BY <1>1, GuestAt
<1>3. PICK fate \in {"exit", "signal"} :
         job' = [job EXCEPT ![k].child = "zombie", ![k].fate = fate, ![k].early = k \notin owned]
  BY DEF ChildExits
<1>4. PICK early \in BOOLEAN : early = (k \notin owned)
  OBVIOUS
<1> DEFINE j == [job[k] EXCEPT !.child = "zombie", !.fate = fate, !.early = early]
<1>5. job' = [job EXCEPT ![k] = j]
  BY <1>2, <1>3, <1>4
<1>6. /\ j \in JobT /\ j.in = job[k].in /\ j.pipe = job[k].pipe /\ j.wrote = job[k].wrote
      /\ j.reader = job[k].reader /\ j.pc = job[k].pc /\ j.code = job[k].code
      /\ j.child = "zombie" /\ j.fate = fate /\ j.early = early
  BY <1>2 DEF JobT
<1> HIDE DEF j
<1>7. Moves(job[k], j) /\ Sent(j) = Sent(job[k])
  BY <1>1, <1>2, <1>6, Ended
<1>8. ~j.early => k \in owned
  BY <1>4, <1>6
<1>9. QED
  BY <1>1, <1>2, <1>5, <1>7, <1>8, JobKeeps DEF ChildExits

LEMMA ConsumeKeeps == ASSUME IInv, Consume PROVE IInv'
<1>1. alive /\ reaper.pc = "consume" /\ reaper' = [pc |-> "idle", k |-> 0]
  BY DEF Consume
<1> DEFINE k == reaper.k
<1>2. /\ k \in Streams /\ job[k].fate # "none" /\ (job[k].child = "zombie" => job[k].early)
  BY <1>1 DEF IInv, ReaperInv
<1>3. job' = [job EXCEPT ![k].child = IF @ = "zombie" THEN "reaped" ELSE @]
  BY DEF Consume
<1> HIDE DEF k
<1>4. job[k] \in JobT /\ ThreadInv(job[k]) /\ ChildInv(job[k]) /\ job \in [Streams -> JobT]
      /\ owned \subseteq Streams
  BY <1>1, <1>2, GuestAt
<1> DEFINE j == [job[k] EXCEPT !.child = IF @ = "zombie" THEN "reaped" ELSE @]
<1>5. job' = [job EXCEPT ![k] = j]
  BY <1>3, <1>4
<1>6. Moves(job[k], j) /\ Sent(j) = Sent(job[k]) /\ j.child # "zombie"
  BY <1>2, <1>4, Reaped
<1> HIDE DEF j
<1>7. QED
  BY <1>1, <1>2, <1>4, <1>5, <1>6, JobKeeps DEF Consume

(* A frame is written on the socket. *)
LEMMA FrameOut ==
    ASSUME IInv, alive, NEW k \in Streams, NEW f \in Frames, f.t # "ok", SockWrite(k, f),
           NEW j, job' = [job EXCEPT ![k] = j], Moves(job[k], j), Sent(j) = Sent(job[k]) + 1,
           Nth(j, f, Sent(j)), j.child = job[k].child, j.early = job[k].early,
           UNCHANGED <<scene, host, uds, conn, rings, ready, guest, owned, reaper, alive>>
    PROVE  IInv'
<1>1. /\ Typed(conn[k], up[k], down[k], rx \o backlog, tx, sock[k], job[k])
      /\ LocalInv(k, conn[k], up[k], down[k], rx \o backlog, tx, sock[k], job[k]) /\ ReaperInv
      /\ sock \in [Streams -> SockT] /\ job \in [Streams -> JobT] /\ sock[k] \in SockT
      /\ irq \in BOOLEAN /\ guest \in {"boot", "pinged", "up", "listening"} /\ owned \subseteq Streams
      /\ \A c \in Clients : Len(got[c]) \in Nat
      /\ reaper \in [pc : {"idle", "peeked", "consume"}, k : 0..MaxStreams]
  BY GuestAt
<1>2. /\ j \in JobT /\ Busy(job[k]) /\ Settled(job[k], j) /\ job[k].wrote <= j.wrote
      /\ Spent(j) <= Spent(job[k]) /\ ThreadInv(j) /\ ChildInv(j) /\ Fated(job[k], j)
  BY DEF Moves
<1> DEFINE p == Packet(k, "RW", <<f>>)
           sk == [sock[k] EXCEPT !.tx = Wrap(@ + 1)]
<1>3. /\ p \in TxPackets /\ p.port = k /\ p.op = "RW" /\ p.fwd = sock[k].fwd /\ Len(p.body) = 1
      /\ p.body[1] = f
  <2>1. <<f>> \in Seq(Frames) /\ Len(<<f>>) = 1 /\ <<f>>[1] = f
    OBVIOUS
  <2>2. k \in 0..MaxStreams /\ sock[k].fwd \in 0..(Modulus - 1)
    BY <1>1, StreamsPort DEF SockT
  <2>3. QED
    BY <2>1, <2>2 DEF Packet, TxPackets, Ops
<1>4. TxShape(p)
  <2>1. k # Boot
    BY StreamsPort
  <2>2. QED
    BY <1>3, <2>1 DEF TxShape
<1>5. sock[k].st = "open" /\ HostBuf - Wrap(sock[k].tx - sock[k].pfwd) > 0 /\ tx' = Append(tx, p)
      /\ sock' = [sock EXCEPT ![k] = sk]
  BY <1>1 DEF SockWrite, Credit
<1> HIDE DEF p
<1>6. sk \in SockT /\ LocalInv(k, conn[k], up[k], down[k], rx \o backlog, Append(tx, p), sk, j)
  <2> HIDE DEF sk
  <2>1. sk = [sock[k] EXCEPT !.tx = Wrap(@ + 1)]
    BY DEF sk
  <2>2. QED
    BY <1>1, <1>2, <1>3, <1>5, <2>1, FrameSent
<1>7. ReaperInv'
  <2>1. j.child = "zombie" /\ ~j.early => k \in owned
    BY <1>1 DEF ReaperInv
  <2>2. QED
    BY <1>1, <1>2, <2>1, ReaperKept
<1>8. rx' = rx /\ room' = room /\ backlog' = backlog /\ irq' = irq
  BY DEF rings
<1> HIDE DEF sk
<1>9. LocalInv(k, conn[k], up[k], down[k], rx' \o backlog', tx', sk, j)
  BY <1>5, <1>6, <1>8
<1>10. \E q \in TxPackets : q.port \in {k, Boot} /\ TxShape(q) /\ tx' = Append(tx, q)
  BY <1>3, <1>4, <1>5
<1>11. QED
  BY <1>1, <1>2, <1>5, <1>6, <1>7, <1>8, <1>9, <1>10, GuestKeeps

LEMMA ForwardKeeps == ASSUME IInv, NEW k \in Streams, Forward(k) PROVE IInv'
<1>1. alive /\ job[k].reader = "run"
      /\ UNCHANGED <<scene, host, uds, conn, rings, ready, guest, owned, reaper, alive>>
  BY DEF Forward
<1>2. job[k] \in JobT /\ ThreadInv(job[k]) /\ ChildInv(job[k]) /\ job \in [Streams -> JobT]
      /\ owned \subseteq Streams /\ ReaperInv
  BY <1>1, GuestAt
<1>3. job[k].child = "zombie" /\ ~job[k].early => k \in owned
  BY <1>2 DEF ReaperInv
<1>4. CASE /\ job[k].pipe > 0 /\ SockWrite(k, Out(job[k].wrote - job[k].pipe + 1))
           /\ job' = [job EXCEPT ![k].pipe = @ - 1]
  <2> DEFINE f == Out(job[k].wrote - job[k].pipe + 1)
             j == [job[k] EXCEPT !.pipe = @ - 1]
  <2>1. job' = [job EXCEPT ![k] = j]
    BY <1>2, <1>4
  <2>2. /\ Moves(job[k], j) /\ Sent(j) = Sent(job[k]) + 1 /\ f \in Frames /\ Nth(j, f, Sent(j))
        /\ j.child = job[k].child /\ j.early = job[k].early
    BY <1>1, <1>2, <1>4, Forwarded
  <2>3. SockWrite(k, f) /\ f.t # "ok"
    BY <1>4 DEF Out
  <2> HIDE DEF f, j
  <2>4. QED
    BY <1>1, <2>1, <2>2, <2>3, FrameOut
<1>5. CASE /\ job[k].pipe > 0 /\ sock[k].st = "reset"
           /\ job' = [job EXCEPT ![k].pipe = 0, ![k].reader = "ended"]
           /\ UNCHANGED <<tx, sock>>
  <2> DEFINE j == [job[k] EXCEPT !.pipe = 0, !.reader = "ended"]
  <2>1. job' = [job EXCEPT ![k] = j]
    BY <1>2, <1>5
  <2>2. Moves(job[k], j) /\ j.child = job[k].child /\ j.early = job[k].early
    BY <1>1, <1>2, ReaderEnds
  <2> HIDE DEF j
  <2>3. QED
    BY <1>1, <1>2, <1>3, <1>5, <2>1, <2>2, JobKeeps
<1>6. CASE /\ job[k].pipe = 0 /\ job' = [job EXCEPT ![k].reader = "ended"]
           /\ UNCHANGED <<tx, sock>>
  <2> DEFINE j == [job[k] EXCEPT !.pipe = 0, !.reader = "ended"]
  <2>1. job' = [job EXCEPT ![k] = j]
    <3>1. [job[k] EXCEPT !.reader = "ended"] = j
      BY <1>2, <1>6 DEF JobT
    <3>2. QED
      BY <1>2, <1>6, <3>1
  <2>2. Moves(job[k], j) /\ Sent(j) = Sent(job[k]) /\ j.child = job[k].child /\ j.early = job[k].early
    BY <1>1, <1>2, <1>6, ReaderEnds
  <2> HIDE DEF j
  <2>3. QED
    BY <1>1, <1>2, <1>3, <1>6, <2>1, <2>2, JobKeeps
<1>7. QED
  BY <1>4, <1>5, <1>6 DEF Forward

LEMMA SendExitKeeps == ASSUME IInv, NEW k \in Streams, SendExit(k) PROVE IInv'
<1>1. alive /\ job[k].pc = "exit"
      /\ UNCHANGED <<scene, host, uds, conn, rings, ready, guest, owned, reaper, alive>>
  BY DEF SendExit
<1>2. job[k] \in JobT /\ ThreadInv(job[k]) /\ ChildInv(job[k]) /\ job \in [Streams -> JobT]
      /\ owned \subseteq Streams /\ ReaperInv
  BY <1>1, GuestAt
<1> DEFINE j == [job[k] EXCEPT !.pc = "read", !.in = 0]
           f == Exit(job[k].code)
<1>3. job' = [job EXCEPT ![k] = j]
  BY <1>2 DEF SendExit
<1>4. /\ Moves(job[k], j) /\ Sent(j) = Sent(job[k]) + 1 /\ Nth(j, f, Sent(j)) /\ j.child # "zombie"
  BY <1>1, <1>2, Exited
<1>5. j.child = job[k].child /\ j.early = job[k].early
  BY <1>2 DEF JobT
<1>6. f \in Frames /\ f.t # "ok"
  <2>1. job[k].code \in Codes \union {"none"} /\ 0 \in 0..MaxOut
    BY <1>2, AssumeTypes DEF JobT
  <2>2. QED
    BY <2>1 DEF Exit, Frames
<1>7. SockWrite(k, f) \/ (sock[k].st = "reset" /\ UNCHANGED <<tx, sock>>)
  BY DEF SendExit
<1> HIDE DEF j, f
<1>8. CASE SockWrite(k, f)
  BY <1>1, <1>3, <1>4, <1>5, <1>6, <1>8, FrameOut
<1>9. CASE sock[k].st = "reset" /\ UNCHANGED <<tx, sock>>
  BY <1>1, <1>2, <1>3, <1>4, <1>9, JobKeeps
<1>10. QED
  BY <1>7, <1>8, <1>9

LEMMA AcceptKeeps == ASSUME IInv, NEW k \in Streams, Accept(k) PROVE IInv'
<1>1. alive /\ sock[k].st = "queued"
      /\ UNCHANGED <<scene, host, uds, conn, rings, tx, ready, guest, owned, reaper, alive>>
  BY DEF Accept
<1>2. /\ Typed(conn[k], up[k], down[k], rx \o backlog, tx, sock[k], job[k])
      /\ LocalInv(k, conn[k], up[k], down[k], rx \o backlog, tx, sock[k], job[k]) /\ ReaperInv
      /\ sock \in [Streams -> SockT] /\ job \in [Streams -> JobT] /\ sock[k] \in SockT /\ job[k] \in JobT
      /\ irq \in BOOLEAN /\ guest \in {"boot", "pinged", "up", "listening"} /\ owned \subseteq Streams
      /\ \A c \in Clients : Len(got[c]) \in Nat
      /\ reaper \in [pc : {"idle", "peeked", "consume"}, k : 0..MaxStreams]
  BY <1>1, GuestAt
<1> DEFINE sk == [sock[k] EXCEPT !.st = "open"]
           j == [job[k] EXCEPT !.pc = "read"]
<1>3. sock' = [sock EXCEPT ![k] = sk] /\ job' = [job EXCEPT ![k] = j]
  BY <1>2 DEF Accept
<1>4. LocalInv(k, conn[k], up[k], down[k], rx \o backlog, tx, sk, j)
  BY <1>1, <1>2, SockAccepted
<1>5. job[k] = NoJob
  BY <1>1, <1>2 DEF LocalInv, StreamInv
<1>6. sk \in SockT /\ j \in JobT
  BY <1>2 DEF SockT, JobT
<1>7. /\ j.pc = "read" /\ j.in = 0 /\ j.code = "none" /\ j.pipe = 0 /\ j.wrote = 0 /\ j.reader = "none"
      /\ j.child = "none" /\ j.fate = "none"
  BY <1>5 DEF NoJob
<1>8. job[k].fate = "none" /\ job[k].code = "none"
  BY <1>5 DEF NoJob
<1> HIDE DEF sk, j
<1>9. ThreadInv(j) /\ ChildInv(j) /\ Settled(job[k], j) /\ Fated(job[k], j)
  <2>1. ThreadInv(j)
    BY <1>7 DEF ThreadInv, Executed
  <2>2. QED
    BY <1>7, <1>8, <2>1 DEF ChildInv, Settled, Fated
<1>10. ReaperInv'
  BY <1>1, <1>2, <1>3, <1>7, <1>9, ReaperKept
<1>11. rx' = rx /\ room' = room /\ backlog' = backlog /\ irq' = irq /\ tx' = tx
  BY <1>1 DEF rings
<1>12. LocalInv(k, conn[k], up[k], down[k], rx' \o backlog', tx', sk, j)
  BY <1>4, <1>11
<1>13. QED
  BY <1>1, <1>2, <1>3, <1>6, <1>9, <1>10, <1>11, <1>12, GuestKeeps

LEMMA ReadKeeps == ASSUME IInv, NEW k \in Streams, Read(k) PROVE IInv'
<1>1. alive /\ job[k].pc = "read" /\ sock[k].rbuf > 0
      /\ UNCHANGED <<scene, host, uds, conn, rings, ready, guest, owned, reaper, alive>>
  BY DEF Read
<1>2. /\ Typed(conn[k], up[k], down[k], rx \o backlog, tx, sock[k], job[k])
      /\ LocalInv(k, conn[k], up[k], down[k], rx \o backlog, tx, sock[k], job[k]) /\ ReaperInv
      /\ ThreadInv(job[k]) /\ ChildInv(job[k])
      /\ sock \in [Streams -> SockT] /\ job \in [Streams -> JobT] /\ sock[k] \in SockT /\ job[k] \in JobT
      /\ irq \in BOOLEAN /\ guest \in {"boot", "pinged", "up", "listening"} /\ owned \subseteq Streams
      /\ \A c \in Clients : Len(got[c]) \in Nat
      /\ reaper \in [pc : {"idle", "peeked", "consume"}, k : 0..MaxStreams]
  BY <1>1, GuestAt
<1> DEFINE p == [Packet(k, "CREDIT_UPDATE", <<>>) EXCEPT !.fwd = Wrap(sock[k].fwd + sock[k].rbuf)]
           sk == [sock[k] EXCEPT !.rbuf = 0, !.fwd = Wrap(@ + sock[k].rbuf)]
           j == [job[k] EXCEPT !.in = job[k].in + sock[k].rbuf,
                               !.pc = IF job[k].in + sock[k].rbuf = ExecLen THEN "exec" ELSE "read"]
           v == IF sock[k].st = "open" THEN Append(tx, p) ELSE tx
<1>3. sock' = [sock EXCEPT ![k] = sk] /\ job' = [job EXCEPT ![k] = j] /\ tx' = v
  BY <1>2 DEF Read
<1>4. p \in TxPackets /\ p.port = k /\ p.op = "CREDIT_UPDATE" /\ p.fwd = Wrap(sock[k].fwd + sock[k].rbuf)
  <2>1. Wrap(sock[k].fwd + sock[k].rbuf) \in 0..(Modulus - 1)
    <3>1. sock[k].fwd + sock[k].rbuf \in Int
      BY <1>2, SockInts
    <3>2. QED
      BY <3>1, WrapType
  <2>2. k \in 0..MaxStreams /\ <<>> \in Seq(Frames)
    BY StreamsPort
  <2>3. QED
    BY <2>1, <2>2 DEF Packet, TxPackets, Ops
<1>5. TxShape(p)
  BY <1>4, StreamsPort DEF TxShape
<1>6. /\ j.child = job[k].child /\ j.early = job[k].early /\ j.fate = job[k].fate
      /\ j.code = job[k].code /\ j.wrote = job[k].wrote
  BY <1>2 DEF JobT
<1> HIDE DEF p
<1>7. /\ j \in JobT /\ sk \in SockT /\ ThreadInv(j) /\ Settled(job[k], j)
      /\ LocalInv(k, conn[k], up[k], down[k], rx \o backlog, v, sk, j)
  <2>1. /\ ReadJob(job[k], sock[k].rbuf) \in JobT /\ ReadSock(sock[k]) \in SockT
        /\ ThreadInv(ReadJob(job[k], sock[k].rbuf)) /\ Settled(job[k], ReadJob(job[k], sock[k].rbuf))
        /\ LocalInv(k, conn[k], up[k], down[k], rx \o backlog, ReadTx(tx, sock[k], p), ReadSock(sock[k]),
                    ReadJob(job[k], sock[k].rbuf))
    BY <1>1, <1>2, <1>4, FrameRead
  <2>2. ReadSock(sock[k]) = sk /\ ReadJob(job[k], sock[k].rbuf) = j /\ ReadTx(tx, sock[k], p) = v
    BY DEF ReadSock, ReadJob, ReadTx
  <2> HIDE DEF sk, j, v
  <2>3. QED
    BY <2>1, <2>2
<1>8. ChildInv(j)
  <2> HIDE DEF j
  <2> QED BY <1>1, <1>2, <1>6 DEF ChildInv
<1>9. tx' = tx \/ \E q \in TxPackets : q.port \in {k, Boot} /\ TxShape(q) /\ tx' = Append(tx, q)
  BY <1>3, <1>4, <1>5
<1> HIDE DEF sk, j, v
<1>10. Fated(job[k], j)
  BY <1>6 DEF Fated
<1>11. ReaperInv'
  <2>1. j.child = "zombie" /\ ~j.early => k \in owned
    BY <1>2, <1>6 DEF ReaperInv
  <2>2. QED
    BY <1>1, <1>2, <1>3, <1>10, <2>1, ReaperKept
<1>12. rx' = rx /\ room' = room /\ backlog' = backlog /\ irq' = irq
  BY <1>1 DEF rings
<1>13. LocalInv(k, conn[k], up[k], down[k], rx' \o backlog', tx', sk, j)
  BY <1>3, <1>7, <1>12
<1>14. QED
  BY <1>1, <1>2, <1>3, <1>7, <1>8, <1>9, <1>11, <1>12, <1>13, GuestKeeps

LEMMA ReadEndsKeeps == ASSUME IInv, NEW k \in Streams, ReadEnds(k) PROVE IInv'
<1>1. alive /\ job[k].pc = "read" /\ sock[k].st = "reset"
      /\ UNCHANGED <<scene, host, uds, conn, rings, tx, ready, guest, owned, reaper, alive>>
  BY DEF ReadEnds
<1>2. /\ Typed(conn[k], up[k], down[k], rx \o backlog, tx, sock[k], job[k])
      /\ LocalInv(k, conn[k], up[k], down[k], rx \o backlog, tx, sock[k], job[k]) /\ ReaperInv
      /\ ThreadInv(job[k]) /\ ChildInv(job[k])
      /\ sock \in [Streams -> SockT] /\ job \in [Streams -> JobT] /\ sock[k] \in SockT /\ job[k] \in JobT
      /\ irq \in BOOLEAN /\ guest \in {"boot", "pinged", "up", "listening"} /\ owned \subseteq Streams
      /\ reaper \in [pc : {"idle", "peeked", "consume"}, k : 0..MaxStreams]
  BY <1>1, GuestAt
<1> DEFINE sk == [sock[k] EXCEPT !.st = "closed"]
           j == [job[k] EXCEPT !.pc = "closed"]
<1>3. sock' = [sock EXCEPT ![k] = sk] /\ job' = [job EXCEPT ![k] = j]
  BY <1>2 DEF ReadEnds
<1>4. LocalInv(k, conn[k], up[k], down[k], rx \o backlog, tx, sk, j)
  BY <1>1, <1>2, ThreadEnds DEF Typed
<1>5. sk \in SockT /\ j \in JobT
  BY <1>2 DEF SockT, JobT
<1>6. /\ j.pc = "closed" /\ j.in = job[k].in /\ j.code = job[k].code /\ j.pipe = job[k].pipe
      /\ j.wrote = job[k].wrote /\ j.reader = job[k].reader
      /\ j.child = job[k].child /\ j.early = job[k].early /\ j.fate = job[k].fate
  BY <1>2 DEF JobT
<1> HIDE DEF sk, j
<1>7. ThreadInv(j)
  BY <1>1, <1>2, <1>6 DEF ThreadInv, Executed
<1>8. ChildInv(j) /\ Settled(job[k], j) /\ Fated(job[k], j)
  BY <1>1, <1>2, <1>6 DEF ChildInv, Settled, Fated
<1>9. ReaperInv'
  <2>1. j.child = "zombie" /\ ~j.early => k \in owned
    BY <1>2, <1>6 DEF ReaperInv
  <2>2. QED
    BY <1>1, <1>2, <1>3, <1>8, <2>1, ReaperKept
<1>10. rx' = rx /\ room' = room /\ backlog' = backlog /\ irq' = irq /\ tx' = tx
  BY <1>1 DEF rings
<1>11. LocalInv(k, conn[k], up[k], down[k], rx' \o backlog', tx', sk, j)
  BY <1>4, <1>10
<1>12. QED
  BY <1>1, <1>2, <1>3, <1>5, <1>7, <1>8, <1>9, <1>10, <1>11, GuestKeeps

(* Steps that leave the jobs alone. *)
LEMMA ReaperSame ==
    ASSUME ReaperInv, UNCHANGED <<job, owned, reaper>> PROVE ReaperInv'
BY DEF ReaperInv

LEMMA SettledSame == ASSUME NEW j PROVE Settled(j, j)
BY DEF Settled

LEMMA AskCreditKeeps == ASSUME IInv, NEW k \in Streams, AskCredit(k) PROVE IInv'
<1>1. alive /\ (job[k].pipe > 0 \/ job[k].pc = "exit")
      /\ UNCHANGED <<scene, host, uds, conn, rings, ready, guest, agent, alive>>
  BY DEF AskCredit
<1>2. /\ Typed(conn[k], up[k], down[k], rx \o backlog, tx, sock[k], job[k])
      /\ LocalInv(k, conn[k], up[k], down[k], rx \o backlog, tx, sock[k], job[k]) /\ ReaperInv
      /\ ThreadInv(job[k]) /\ ChildInv(job[k])
      /\ sock \in [Streams -> SockT] /\ job \in [Streams -> JobT] /\ sock[k] \in SockT /\ job[k] \in JobT
      /\ irq \in BOOLEAN /\ guest \in {"boot", "pinged", "up", "listening"} /\ owned \subseteq Streams
      /\ reaper \in [pc : {"idle", "peeked", "consume"}, k : 0..MaxStreams]
  BY <1>1, GuestAt
<1> DEFINE p == Packet(k, "CREDIT_REQUEST", <<>>)
           sk == [sock[k] EXCEPT !.asked = TRUE]
<1>3. sock' = [sock EXCEPT ![k] = sk] /\ tx' = Append(tx, p)
  BY <1>2 DEF AskCredit
<1>4. p \in TxPackets /\ p.port = k /\ p.op = "CREDIT_REQUEST" /\ p.fwd = sock[k].fwd
  <2>1. k \in 0..MaxStreams /\ <<>> \in Seq(Frames) /\ sock[k].fwd \in 0..(Modulus - 1)
    BY <1>2, StreamsPort DEF SockT
  <2>2. QED
    BY <2>1 DEF Packet, TxPackets, Ops
<1>5. TxShape(p)
  BY <1>4, StreamsPort DEF TxShape
<1>6. Busy(job[k])
  <2>1. CASE job[k].pipe > 0
    <3>1. SUFFICES ASSUME job[k] = [NoJob EXCEPT !.pc = job[k].pc] PROVE FALSE
      BY DEF Busy
    <3>2. job[k].pipe = 0
      BY <3>1 DEF NoJob
    <3>3. QED
      BY <2>1, <3>2
  <2>2. CASE job[k].pc = "exit"
    BY <2>2, BusyJob
  <2>3. QED
    BY <1>1, <2>1, <2>2
<1> HIDE DEF p
<1>7. LocalInv(k, conn[k], up[k], down[k], rx \o backlog, Append(tx, p), sk, job[k])
  BY <1>2, <1>4, <1>6, CreditAsked
<1>8. sk \in SockT
  BY <1>2 DEF SockT
<1> HIDE DEF sk
<1>9. /\ rx' = rx /\ room' = room /\ backlog' = backlog /\ irq' = irq
      /\ job' = job /\ owned' = owned /\ reaper' = reaper
  BY <1>1 DEF rings, agent
<1>10. job' = [job EXCEPT ![k] = job[k]] /\ ReaperInv' /\ Settled(job[k], job[k])
  BY <1>2, <1>9, ReaperSame, SettledSame
<1>11. LocalInv(k, conn[k], up[k], down[k], rx' \o backlog', tx', sk, job[k])
  BY <1>3, <1>7, <1>9
<1>12. \E q \in TxPackets : q.port \in {k, Boot} /\ TxShape(q) /\ tx' = Append(tx, q)
  BY <1>3, <1>4, <1>5
<1>13. QED
  BY <1>1, <1>2, <1>3, <1>8, <1>9, <1>10, <1>11, <1>12, GuestKeeps

LEMMA QuietKeeps ==
    ASSUME IInv, alive, UNCHANGED <<scene, host, uds, conn, rings, ready, sock, job, owned, alive>>,
           tx' = tx \/ \E p \in TxPackets : p.port = Boot /\ TxShape(p) /\ tx' = Append(tx, p),
           guest' \in {"boot", "pinged", "up", "listening"},
           reaper' \in [pc : {"idle", "peeked", "consume"}, k : 0..MaxStreams], ReaperInv'
    PROVE  IInv'
<1> DEFINE k == 1
<1>1. k \in Streams
  BY AssumeTypes DEF Streams
<1> HIDE DEF k
<1>2. /\ Typed(conn[k], up[k], down[k], rx \o backlog, tx, sock[k], job[k])
      /\ LocalInv(k, conn[k], up[k], down[k], rx \o backlog, tx, sock[k], job[k])
      /\ ThreadInv(job[k]) /\ ChildInv(job[k])
      /\ sock \in [Streams -> SockT] /\ job \in [Streams -> JobT] /\ sock[k] \in SockT /\ job[k] \in JobT
      /\ irq \in BOOLEAN /\ owned \subseteq Streams /\ tx \in Seq(TxPackets)
  BY <1>1, GuestAt
<1>3. rx' = rx /\ room' = room /\ backlog' = backlog /\ irq' = irq
  BY DEF rings
<1>4. LocalInv(k, conn[k], up[k], down[k], rx \o backlog, tx', sock[k], job[k])
  <2>1. CASE tx' = tx
    BY <1>2, <2>1
  <2>2. ASSUME NEW p \in TxPackets, p.port = Boot, tx' = Append(tx, p)
        PROVE  LocalInv(k, conn[k], up[k], down[k], rx \o backlog, tx', sock[k], job[k])
    <3>1. Alike(tx', tx, k)
      BY <1>1, <1>2, <2>2, AlikeAppend, StreamsPort
    <3>2. QED
      BY <1>2, <3>1, LocalAlike
  <2>3. QED
    BY <2>1, <2>2
<1>5. LocalInv(k, conn[k], up[k], down[k], rx' \o backlog', tx', sock[k], job[k])
  BY <1>3, <1>4
<1>6. sock' = [sock EXCEPT ![k] = sock[k]] /\ job' = [job EXCEPT ![k] = job[k]]
  BY <1>2
<1>7. tx' = tx \/ \E p \in TxPackets : p.port \in {k, Boot} /\ TxShape(p) /\ tx' = Append(tx, p)
  OBVIOUS
<1>8. QED
  BY <1>1, <1>2, <1>3, <1>5, <1>6, <1>7, SettledSame, GuestKeeps

LEMMA PeekKeeps == ASSUME IInv, NEW k \in Streams, Peek(k) PROVE IInv'
<1>1. /\ alive /\ job[k].child = "zombie" /\ reaper' = [pc |-> "peeked", k |-> k]
      /\ UNCHANGED <<scene, host, uds, conn, rings, tx, ready, guest, sock, job, owned, alive>>
  BY DEF Peek
<1>2. ChildInv(job[k]) /\ ReaperInv /\ guest \in {"boot", "pinged", "up", "listening"}
  BY <1>1, GuestAt
<1>3. reaper' \in [pc : {"idle", "peeked", "consume"}, k : 0..MaxStreams]
  BY <1>1, StreamsPort
<1>4. reaper'.pc = "peeked" /\ reaper'.k = k
  BY <1>1
<1>5. ReaperInv'
  BY <1>1, <1>2, <1>4 DEF ReaperInv, ChildInv
<1>6. QED
  BY <1>1, <1>2, <1>3, <1>5, QuietKeeps

LEMMA AskOwnedKeeps == ASSUME IInv, AskOwned PROVE IInv'
<1>1. /\ alive /\ reaper.pc = "peeked"
      /\ UNCHANGED <<scene, host, uds, conn, rings, tx, ready, guest, sock, job, owned, alive>>
  BY DEF AskOwned
<1>2. ReaperInv /\ guest \in {"boot", "pinged", "up", "listening"}
      /\ reaper \in [pc : {"idle", "peeked", "consume"}, k : 0..MaxStreams]
  BY DEF IInv, TypeOK
<1>3. \/ reaper' = [pc |-> "idle", k |-> 0]
      \/ reaper.k \notin owned /\ reaper' = [reaper EXCEPT !.pc = "consume"]
  BY DEF AskOwned, is_owned
<1>4. reaper' \in [pc : {"idle", "peeked", "consume"}, k : 0..MaxStreams]
  BY <1>2, <1>3, AssumeTypes
<1>5. \/ reaper'.pc = "idle"
      \/ reaper'.pc = "consume" /\ reaper'.k = reaper.k /\ reaper.k \notin owned
  BY <1>2, <1>3
<1>6. ReaperInv'
  BY <1>1, <1>2, <1>5 DEF ReaperInv
<1>7. QED
  BY <1>1, <1>2, <1>4, <1>6, QuietKeeps

LEMMA PingKeeps == ASSUME IInv, Ping PROVE IInv'
<1> DEFINE p == [op |-> "REQUEST", port |-> Boot, body |-> <<>>, fwd |-> 0]
<1>1. /\ alive /\ guest' = "pinged" /\ tx' = Append(tx, p)
      /\ UNCHANGED <<scene, host, uds, conn, rings, ready, sock, agent, alive>>
  BY DEF Ping
<1>2. p \in TxPackets /\ p.port = Boot /\ TxShape(p)
  <2>1. 0 \in 0..MaxStreams /\ 0 \in 0..(Modulus - 1) /\ <<>> \in Seq(Frames)
    BY AssumeTypes, ModulusType
  <2>2. QED
    BY <2>1 DEF TxPackets, Ops, Boot, TxShape
<1>3. ReaperInv /\ reaper \in [pc : {"idle", "peeked", "consume"}, k : 0..MaxStreams]
  BY DEF IInv, TypeOK
<1>4. job' = job /\ owned' = owned /\ reaper' = reaper
  BY <1>1 DEF agent
<1>5. ReaperInv'
  BY <1>3, <1>4, ReaperSame
<1> HIDE DEF p
<1>6. QED
  BY <1>1, <1>2, <1>3, <1>4, <1>5, QuietKeeps

LEMMA ListenKeeps == ASSUME IInv, Listen PROVE IInv'
<1>1. /\ alive /\ guest' = "listening"
      /\ UNCHANGED <<scene, host, uds, conn, rings, tx, ready, sock, agent, alive>>
  BY DEF Listen
<1>2. ReaperInv /\ reaper \in [pc : {"idle", "peeked", "consume"}, k : 0..MaxStreams]
  BY DEF IInv, TypeOK
<1>3. job' = job /\ owned' = owned /\ reaper' = reaper
  BY <1>1 DEF agent
<1>4. ReaperInv'
  BY <1>2, <1>3, ReaperSame
<1>5. QED
  BY <1>1, <1>2, <1>3, <1>4, QuietKeeps

LEMMA TakenKeeps ==
    ASSUME IInv, alive, rx # <<>>, rx' = Tail(rx), room' = room + 1, irq' \in BOOLEAN,
           guest' \in {"boot", "pinged", "up", "listening"},
           NEW k \in Streams, NEW sk \in SockT, sock' = [sock EXCEPT ![k] = sk],
           tx' = tx \/ \E p \in TxPackets : p.port = k /\ TxShape(p) /\ tx' = Append(tx, p),
           LocalInv(k, conn[k], up[k], down[k], Without(rx \o backlog, 1), tx', sk, job[k]),
           UNCHANGED <<scene, host, uds, conn, backlog, ready, agent, alive>>
    PROVE  IInv'
<1>1. /\ ThreadInv(job[k]) /\ ChildInv(job[k]) /\ ReaperInv
      /\ job \in [Streams -> JobT] /\ job[k] \in JobT /\ owned \subseteq Streams
      /\ reaper \in [pc : {"idle", "peeked", "consume"}, k : 0..MaxStreams]
  BY GuestAt
<1>2. job' = job /\ owned' = owned /\ reaper' = reaper
  BY DEF agent
<1>3. job' = [job EXCEPT ![k] = job[k]] /\ ReaperInv' /\ Settled(job[k], job[k])
  BY <1>1, <1>2, ReaperSame, SettledSame
<1>4. rx' \o backlog' = Without(rx \o backlog, 1)
  <2>1. rx \in Seq(RxPackets) /\ backlog \in Seq(RxPackets)
    BY DEF IInv, TypeOK
  <2>2. Tail(rx) \o backlog = Without(rx \o backlog, 1)
    BY <2>1, ConcatFirst
  <2>3. QED
    BY <2>2
<1>5. LocalInv(k, conn[k], up[k], down[k], rx' \o backlog', tx', sk, job[k])
  BY <1>4
<1>6. tx' = tx \/ \E p \in TxPackets : p.port \in {k, Boot} /\ TxShape(p) /\ tx' = Append(tx, p)
  OBVIOUS
<1>7. QED
  BY <1>1, <1>2, <1>3, <1>5, <1>6, GuestKeeps

LEMMA GuestRxKeeps == ASSUME IInv, GuestRx PROVE IInv'
<1> DEFINE p == Head(rx)
           k == p.port
           s == rx \o backlog
           reply(op) == [op |-> op, port |-> k, body |-> <<>>, fwd |-> 0]
<1>1. /\ alive /\ rx # <<>> /\ rx' = Tail(rx) /\ room' = room + 1 /\ irq' = (Tail(rx) # <<>>)
      /\ UNCHANGED <<scene, host, uds, conn, backlog, ready, agent, alive>>
  BY DEF GuestRx
<1>2. irq' \in BOOLEAN
  BY <1>1
<1>3. rx \in Seq(RxPackets) /\ backlog \in Seq(RxPackets)
      /\ guest \in {"boot", "pinged", "up", "listening"} /\ sock \in [Streams -> SockT]
  BY <1>1, TypeParts DEF IInv, TypeOK
<1>4. s \in Seq(RxPackets) /\ 1 \in 1..Len(s) /\ s[1] = rx[1] /\ Without(s, 1) \in Seq(RxPackets)
  <2>1. s \in Seq(RxPackets) /\ 1 \in 1..Len(s) /\ s[1] = rx[1]
    BY <1>1, <1>3, ConcatFirst
  <2>2. QED
    BY <2>1, WithoutProperties
<1>5. p = s[1] /\ s # <<>> /\ p \in RxPackets /\ RxShape(p)
  <2>1. p = s[1]
    BY <1>1, <1>3, <1>4, HeadTailProperties
  <2>2. s # <<>>
    BY <1>4, EmptySeq
  <2>3. s[1] \in RxPackets
    BY <1>4, ElementOfSeq
  <2>4. RxShape(s[1])
    BY <1>4 DEF IInv, QueueInv
  <2>5. QED
    BY <2>1, <2>2, <2>3, <2>4
<1>6. k \in 0..MaxStreams
  BY <1>5 DEF RxPackets
<1>7. /\ k = Boot \/ k \in Streams
      /\ k = Boot => UNCHANGED <<tx, sock>> /\ guest' = (IF guest = "pinged" THEN "up" ELSE guest)
      /\ k # Boot => guest' = guest
  BY <1>6, AssumeTypes DEF GuestRx, Streams, Boot
<1>8. CASE k = Boot
  <2> DEFINE m == 1
  <2>1. m \in Streams
    BY AssumeTypes DEF Streams
  <2> HIDE DEF m, s
  <2>2. /\ LocalInv(m, conn[m], up[m], down[m], s, tx, sock[m], job[m])
        /\ Typed(conn[m], up[m], down[m], s, tx, sock[m], job[m])
    BY <1>1, <2>1, GuestAt DEF s
  <2>3. Fewer(Without(s, 1), s, m)
    BY <1>4, FewerWithout
  <2>4. LocalInv(m, conn[m], up[m], down[m], Without(s, 1), tx, sock[m], job[m])
    BY <1>4, <2>2, <2>3, LocalFewer DEF Typed
  <2>5. sock' = [sock EXCEPT ![m] = sock[m]] /\ sock[m] \in SockT /\ tx' = tx
    BY <1>3, <1>7, <1>8, <2>1
  <2>6. LocalInv(m, conn[m], up[m], down[m], Without(rx \o backlog, 1), tx', sock[m], job[m])
    BY <2>4, <2>5 DEF s
  <2>7. guest' \in {"boot", "pinged", "up", "listening"}
    BY <1>3, <1>7, <1>8
  <2>8. QED
    BY <1>1, <1>2, <2>1, <2>5, <2>6, <2>7, TakenKeeps
<1>9. CASE k # Boot
  <2>1. k \in Streams /\ guest' \in {"boot", "pinged", "up", "listening"}
    BY <1>3, <1>7, <1>9
  <2>2. /\ LocalInv(k, conn[k], up[k], down[k], s, tx, sock[k], job[k])
        /\ Typed(conn[k], up[k], down[k], s, tx, sock[k], job[k])
        /\ sock[k] \in SockT
    <3> HIDE DEF k
    <3> QED BY <1>1, <2>1, GuestAt
  <2>3. CASE p.op = "REQUEST"
    <3>1. PICK op \in {"RESPONSE", "RST"} :
             /\ tx' = Append(tx, reply(op))
             /\ \/ op = "RESPONSE" /\ sock' = [sock EXCEPT ![k] = [sock[k] EXCEPT !.st = "queued"]]
                \/ op = "RST" /\ sock' = sock
      BY <1>3, <1>9, <2>1, <2>3 DEF GuestRx
    <3> DEFINE q == reply(op)
    <3>2. /\ q \in TxPackets /\ q.port = k /\ q.fwd = 0 /\ q.op = op
      <4>1. 0 \in 0..(Modulus - 1) /\ <<>> \in Seq(Frames)
        BY ModulusType
      <4>2. QED
        BY <1>6, <4>1 DEF TxPackets, Ops
    <3>3. TxShape(q)
      BY <1>9, <3>2 DEF TxShape
    <3> DEFINE sk == IF op = "RESPONSE" THEN [sock[k] EXCEPT !.st = "queued"] ELSE sock[k]
    <3>4. sock' = [sock EXCEPT ![k] = sk]
      BY <1>3, <3>1
    <3>5. \/ q.op = "RESPONSE" /\ sk = [sock[k] EXCEPT !.st = "queued"]
          \/ q.op = "RST" /\ sk = sock[k]
      BY <3>2
    <3>6. tx' = Append(tx, q)
      BY <3>1
    <3>7. s[1].port = k /\ s[1].op = "REQUEST"
      BY <1>5, <2>3
    <3> HIDE DEF q, sk, k, s
    <3>8. sk \in SockT
          /\ LocalInv(k, conn[k], up[k], down[k], Without(s, 1), Append(tx, q), sk, job[k])
      BY <1>5, <2>2, <3>2, <3>5, <3>7, RequestTaken
    <3>9. LocalInv(k, conn[k], up[k], down[k], Without(rx \o backlog, 1), tx', sk, job[k])
      BY <3>6, <3>8 DEF s
    <3>10. QED
      BY <1>1, <1>2, <2>1, <3>2, <3>3, <3>4, <3>6, <3>8, <3>9, TakenKeeps
  <2>4. CASE p.op = "RST"
    <3> DEFINE sk == [sock[k] EXCEPT !.st = IF sock[k].st \in {"queued", "open"} THEN "reset" ELSE @]
    <3>1. sock' = [sock EXCEPT ![k] = sk] /\ tx' = tx
      BY <1>3, <1>9, <2>4 DEF GuestRx, Known
    <3>2. s[1].port = k /\ s[1].op = "RST"
      BY <1>5, <2>4
    <3> HIDE DEF k, s
    <3>3. sk \in SockT /\ LocalInv(k, conn[k], up[k], down[k], Without(s, 1), tx, sk, job[k])
      BY <1>5, <2>2, <3>2, ResetTaken
    <3> HIDE DEF sk
    <3>4. LocalInv(k, conn[k], up[k], down[k], Without(rx \o backlog, 1), tx', sk, job[k])
      BY <3>1, <3>3 DEF s
    <3>5. QED
      BY <1>1, <1>2, <2>1, <3>1, <3>3, <3>4, TakenKeeps
  <2>5. CASE p.op \in {"RW", "CREDIT_UPDATE", "SHUTDOWN"}
    <3> DEFINE sk == IF sock[k].st \in {"queued", "open"}
                     THEN DataSock(sock[k], p) ELSE sock[k]
    <3>1. sock' = [sock EXCEPT ![k] = sk] /\ tx' = tx
      <4>1. /\ tx' = tx
            /\ sock' = [sock EXCEPT ![k] = IF Known(k)
                                           THEN [sock[k] EXCEPT !.rbuf = @ + p.n, !.pfwd = p.fwd] ELSE @]
        BY <1>9, <2>5 DEF GuestRx
      <4>2. QED
        BY <4>1 DEF Known, DataSock
    <3>2. s[1].port = k /\ s[1].op \in {"RW", "CREDIT_UPDATE", "SHUTDOWN"} /\ RxShape(s[1])
      BY <1>5, <2>5
    <3>3. CASE sock[k].st \in {"queued", "open"}
      <4>1. sk = DataSock(sock[k], s[1])
        BY <1>5, <3>3
      <4> HIDE DEF k, s, sk
      <4>2. sk \in SockT /\ LocalInv(k, conn[k], up[k], down[k], Without(s, 1), tx, sk, job[k])
        BY <1>5, <2>2, <3>2, <3>3, <4>1, DataTaken
      <4>3. LocalInv(k, conn[k], up[k], down[k], Without(rx \o backlog, 1), tx', sk, job[k])
        BY <3>1, <4>2 DEF s
      <4>4. QED
        BY <1>1, <1>2, <2>1, <3>1, <4>2, <4>3, TakenKeeps
    <3>4. CASE sock[k].st \notin {"queued", "open"}
      <4>1. sk = sock[k]
        BY <3>4
      <4> HIDE DEF k, s, sk
      <4>2. Fewer(Without(s, 1), s, k)
        BY <1>4, FewerWithout
      <4>3. LocalInv(k, conn[k], up[k], down[k], Without(s, 1), tx, sk, job[k])
        BY <1>4, <2>2, <4>1, <4>2, LocalFewer DEF Typed
      <4>4. LocalInv(k, conn[k], up[k], down[k], Without(rx \o backlog, 1), tx', sk, job[k])
        BY <3>1, <4>3 DEF s
      <4>5. QED
        BY <1>1, <1>2, <2>1, <2>2, <3>1, <4>1, <4>4, TakenKeeps
    <3>5. QED
      BY <3>3, <3>4
  <2>6. QED
    BY <1>5, <2>3, <2>4, <2>5 DEF RxShape
<1>10. QED
  BY <1>7, <1>8, <1>9

-------------------------------------------------------------------------------
(* The clients' steps. *)

(* A client returns, or gives its stream up to dial again. *)
LEMMA LeaveKeeps ==
    ASSUME IInv, NEW c \in Clients, NEW x \in {"done", "dial"},
           NEW o \in Codes \union {"none", "error", "notready"},
           client' = [client EXCEPT ![c].pc = x], told' = [told EXCEPT ![c] = o],
           hung' = [m \in Streams |-> hung[m] \/ m = client[c].k],
           x = "done" => o \in {"error", "notready"} \/ (o = "-1" /\ ~alive),
           x = "dial" => o = "none" /\ got[c] = <<>>,
           UNCHANGED <<scene, got, dialled, uds, conn, rings, tx, ready, guest, sock, agent, alive>>
    PROVE  IInv'
<1>1. /\ client \in [Clients -> [pc : {"idle", "dial", "handshake", "command", "done"}, k : 0..MaxStreams]]
      /\ told \in [Clients -> Codes \union {"none", "error", "notready"}]
      /\ hung \in [Streams -> BOOLEAN] /\ client[c].k \in 0..MaxStreams /\ dialled \in 0..MaxStreams
  BY TypeParts DEF IInv
<1>2. /\ client' \in [Clients -> [pc : {"idle", "dial", "handshake", "command", "done"}, k : 0..MaxStreams]]
      /\ told' \in [Clients -> Codes \union {"none", "error", "notready"}]
      /\ hung' \in [Streams -> BOOLEAN]
  BY <1>1
<1>3. /\ client'[c].pc = x /\ client'[c].k = client[c].k /\ told'[c] = o
      /\ \A c2 \in Clients : c2 # c => client'[c2] = client[c2] /\ told'[c2] = told[c2]
      /\ \A c2 \in Clients : client'[c2].k = client[c2].k
  BY <1>1
<1>4. /\ got' = got /\ dialled' = dialled /\ up' = up /\ down' = down /\ conn' = conn /\ rx' = rx
      /\ backlog' = backlog /\ room' = room /\ irq' = irq /\ tx' = tx /\ sock' = sock /\ job' = job
      /\ owned' = owned /\ reaper' = reaper /\ alive' = alive /\ scene' = scene /\ ready' = ready
      /\ guest' = guest
  BY DEF uds, rings, agent
<1>5. TypeOK'
  BY <1>2, <1>4 DEF IInv, TypeOK
<1>6. \A k \in Streams : ThreadInv(job'[k]) /\ ChildInv(job'[k])
  BY <1>4 DEF IInv
<1>7. ReaperInv'
  BY <1>4, ReaperSame DEF IInv
<1>8. QueueInv'
  BY <1>4 DEF IInv, QueueInv
<1>9. DialInv'
  <2>1. /\ \A k \in Streams : k > dialled <=> conn[k].st = "none"
        /\ \A k \in Streams : conn[k].st = "none" => ~hung[k]
        /\ \A c1, c2 \in Clients : client[c1].k = client[c2].k /\ client[c1].k # 0 => c1 = c2
    BY DEF IInv, DialInv
  <2>2. client[c].k <= dialled
    BY DEF IInv, ClientInv
  <2>3. ASSUME NEW k \in Streams, conn[k].st = "none" PROVE ~hung'[k]
    <3>1. k # client[c].k
      BY <1>1, <2>1, <2>2, <2>3 DEF Streams
    <3>2. QED
      BY <2>1, <2>3, <3>1
  <2>4. QED
    BY <1>3, <1>4, <2>1, <2>3 DEF DialInv
<1>10. ASSUME NEW c2 \in Clients PROVE ClientInv(c2, client[c2].k)'
  <2>1. ClientInv(c2, client[c2].k)
    BY DEF IInv
  <2>2. CASE c2 = c
    <3>1. x = "done" => Outcome(c, client[c].k)'
      BY <1>3, <1>4 DEF Outcome
    <3>2. QED
      BY <1>3, <1>4, <2>1, <2>2, <3>1 DEF ClientInv
  <2>3. CASE c2 # c
    <3>1. client[c2].pc \in {"handshake", "command"} => ~hung'[client[c2].k]
      <4>1. SUFFICES ASSUME client[c2].pc \in {"handshake", "command"} PROVE ~hung'[client[c2].k]
        OBVIOUS
      <4>2. client[c2].k # 0 /\ ~hung[client[c2].k] /\ client[c2].k \in 0..MaxStreams
        BY <1>1, <2>1, <4>1 DEF ClientInv
      <4>3. client[c2].k # client[c].k
        BY <2>3, <4>2 DEF IInv, DialInv
      <4>4. client[c2].k \in Streams
        BY <4>2, AssumeTypes DEF Streams
      <4>5. QED
        BY <4>2, <4>3, <4>4
    <3>2. Outcome(c2, client[c2].k) => Outcome(c2, client[c2].k)'
      BY <1>3, <1>4, <2>3 DEF Outcome
    <3>3. QED
      BY <1>3, <1>4, <2>1, <2>3, <3>1, <3>2 DEF ClientInv
  <2>4. QED
    BY <2>2, <2>3
<1>11. alive => AliveInv(Now, tx)'
  <2>1. SUFFICES ASSUME alive PROVE AliveInv(Now, tx)'
    OBVIOUS
  <2>2. Now.conn' = Now.conn /\ Now.up' = Now.up /\ Now.down' = Now.down /\ Wire(Now)' = Wire(Now)
    BY <1>4 DEF Now, Wire
  <2>3. ASSUME NEW m \in Streams
        PROVE  LocalInv(m, Now.conn[m], Now.up[m], Now.down[m], Wire(Now), tx, sock[m], job[m])'
    <3>1. LocalInv(m, Now.conn[m], Now.up[m], Now.down[m], Wire(Now), tx, sock[m], job[m])
      BY <2>1 DEF IInv, AliveInv
    <3>2. QED
      BY <1>3, <1>4, <2>2, <3>1 DEF LocalInv, OwnerInv
  <2>4. QED
    BY <2>3 DEF AliveInv
<1>12. QED
  BY <1>4, <1>5, <1>6, <1>7, <1>8, <1>9, <1>10, <1>11 DEF IInv

LEMMA ReturnKeeps ==
    ASSUME IInv, NEW c \in Clients, NEW o \in {"error", "notready", "-1"}, Return(c, o), o = "-1" => ~alive,
           UNCHANGED <<scene, got, dialled, uds, conn, rings, tx, ready, guest, sock, agent, alive>>
    PROVE  IInv'
<1>1. o \in Codes \union {"none", "error", "notready"}
  BY DEF Codes
<1>2. QED
  BY <1>1, LeaveKeeps DEF Return

LEMMA DialFailsKeeps == ASSUME IInv, NEW c \in Clients, DialFails(c) PROVE IInv'
<1>1. /\ Return(c, "notready")
      /\ UNCHANGED <<scene, got, dialled, uds, conn, rings, tx, ready, guest, sock, agent, alive>>
  BY DEF DialFails
<1>2. QED
  BY <1>1, ReturnKeeps

LEMMA GiveUpKeeps == ASSUME IInv, NEW c \in Clients, GiveUp(c) PROVE IInv'
<1>1. /\ Return(c, "error")
      /\ UNCHANGED <<scene, got, dialled, uds, conn, rings, tx, ready, guest, sock, agent, alive>>
  BY DEF GiveUp
<1>2. QED
  BY <1>1, ReturnKeeps

(* Of a client that waits for something. *)
LEMMA WaitingAt ==
    ASSUME IInv, NEW c \in Clients, client[c].pc \in {"handshake", "command"}
    PROVE  /\ client[c].k \in Streams /\ ~hung[client[c].k] /\ conn[client[c].k].st # "none"
           /\ client[c].k <= dialled /\ told[c] = "none" /\ Counting(got[c])
           /\ client[c].pc = "handshake" => got[c] = <<>>
           /\ \A c2 \in Clients : c2 # c => client[c2].k # client[c].k
<1>1. ClientInv(c, client[c].k) /\ client[c].k \in 0..MaxStreams /\ MaxStreams \in Nat
  BY TypeParts, AssumeTypes DEF IInv
<1>2. client[c].k # 0 /\ ~hung[client[c].k] /\ conn[client[c].k].st # "none" /\ client[c].k <= dialled
      /\ told[c] = "none" /\ Counting(got[c]) /\ (client[c].pc = "handshake" => got[c] = <<>>)
  BY <1>1 DEF ClientInv
<1>3. client[c].k \in Streams
  BY <1>1, <1>2 DEF Streams
<1>4. \A c2 \in Clients : c2 # c => client[c2].k # client[c].k
  BY <1>2 DEF IInv, DialInv
<1>5. QED
  BY <1>2, <1>3, <1>4

LEMMA AttemptFailsKeeps == ASSUME IInv, NEW c \in Clients, AttemptFails(c) PROVE IInv'
<1>1. /\ client[c].pc = "handshake" /\ Retry(c)
      /\ UNCHANGED <<scene, got, dialled, uds, conn, rings, tx, ready, guest, sock, agent, alive>>
  BY DEF AttemptFails
<1>2. client[c].k \in Streams /\ told[c] = "none" /\ got[c] = <<>>
  BY <1>1, WaitingAt
<1>3. hung \in [Streams -> BOOLEAN] /\ told \in [Clients -> Codes \union {"none", "error", "notready"}]
  BY TypeParts DEF IInv
<1>4. CASE Return(c, "notready")
  BY <1>1, <1>4, ReturnKeeps
<1>5. CASE /\ client' = [client EXCEPT ![c].pc = "dial"]
           /\ hung' = [hung EXCEPT ![client[c].k] = TRUE] /\ UNCHANGED told
  <2>1. told' = [told EXCEPT ![c] = "none"]
    BY <1>2, <1>3, <1>5
  <2>2. hung' = [m \in Streams |-> hung[m] \/ m = client[c].k]
    <3>1. [hung EXCEPT ![client[c].k] = TRUE] \in [Streams -> BOOLEAN]
      BY <1>3
    <3>2. ASSUME NEW m \in Streams
          PROVE  [hung EXCEPT ![client[c].k] = TRUE][m] = (hung[m] \/ m = client[c].k)
      BY <1>2, <1>3
    <3>3. QED
      BY <1>5, <3>1, <3>2
  <2> DEFINE x == "dial"
             o == "none"
  <2>3. /\ x \in {"done", "dial"} /\ x # "done" /\ o = "none"
        /\ o \in Codes \union {"none", "error", "notready"}
    OBVIOUS
  <2>4. client' = [client EXCEPT ![c].pc = x] /\ told' = [told EXCEPT ![c] = o]
    BY <1>5, <2>1
  <2> HIDE DEF x, o
  <2>5. QED
    BY <1>1, <1>2, <2>2, <2>3, <2>4, LeaveKeeps
<1>6. QED
  BY <1>1, <1>4, <1>5 DEF Retry

LEMMA StreamEndsKeeps == ASSUME IInv, NEW c \in Clients, StreamEnds(c) PROVE IInv'
<1> DEFINE k == client[c].k
           o == IF up[k] = <<>> THEN "-1" ELSE "error"
<1>1. /\ client[c].pc = "command" /\ Eof(k) /\ Return(c, o)
      /\ UNCHANGED <<scene, got, dialled, uds, conn, rings, tx, ready, guest, sock, agent, alive>>
  BY DEF StreamEnds
<1>2. k \in Streams
  BY <1>1, WaitingAt
<1>3. ~alive
  <2>1. SUFFICES ASSUME alive PROVE FALSE
    OBVIOUS
  <2>2. LocalInv(k, conn[k], up[k], down[k], rx \o backlog, tx, sock[k], job[k])
    <3> HIDE DEF k
    <3> QED BY <1>2, <2>1, GuestAt
  <2>3. OwnerInv(c, k, conn[k], up[k], down[k], rx \o backlog, tx, sock[k], job[k])
    BY <2>2 DEF LocalInv
  <2>4. conn[k].st = "established"
    BY <1>1, <2>3 DEF OwnerInv, Commanding
  <2>5. QED
    BY <1>1, <2>4 DEF Eof
<1>4. o \in {"error", "notready", "-1"}
  OBVIOUS
<1> HIDE DEF o
<1>5. QED
  BY <1>1, <1>3, <1>4, ReturnKeeps

(* A client's step: it changes what there is of the client and of one       *)
(* stream, which is its own or a new one.                                   *)
LEMMA ClientKeeps ==
    ASSUME IInv, NEW c \in Clients, NEW k \in Streams,
           client' \in [Clients -> [pc : {"idle", "dial", "handshake", "command", "done"}, k : 0..MaxStreams]],
           told' \in [Clients -> Codes \union {"none", "error", "notready"}],
           got' \in [Clients -> Seq(1..MaxOut)],
           conn' \in [Streams -> ConnT], up' \in [Streams -> LineT], down' \in [Streams -> Seq(Frames)],
           hung' \in [Streams -> BOOLEAN], dialled' \in 0..MaxStreams,
           \A c2 \in Clients :
               c2 # c => client'[c2] = client[c2] /\ told'[c2] = told[c2] /\ got'[c2] = got[c2],
           \A m \in Streams :
               m # k => /\ conn'[m] = conn[m] /\ up'[m] = up[m] /\ down'[m] = down[m]
                        /\ hung'[m] <=> hung[m]
                        /\ m > dialled' <=> m > dialled,
           client'[c].k = k, conn'[k].st # "none", dialled <= dialled', k <= dialled',
           \A c2 \in Clients : c2 # c => client[c2].k # k,
           client'[c].pc \in {"handshake", "command"} => ~hung'[k],
           client'[c].pc \notin {"command", "done"} => got'[c] = <<>>,
           Counting(got'[c]),
           client'[c].pc = "command" /\ ~alive => Delivering(Len(got'[c]), down'[k], job[k]),
           client'[c].pc # "done" => told'[c] = "none",
           client'[c].pc = "done" =>
               \/ told'[c] \in {"error", "notready"} \/ (told'[c] = "-1" /\ ~alive)
               \/ told'[c] \in Codes /\ told'[c] = job[k].code /\ Len(got'[c]) = job[k].wrote,
           alive => StreamInv(k, conn'[k], up'[k], down'[k], rx \o backlog, tx, sock[k], job[k]),
           alive /\ client'[c].pc = "handshake" =>
               Shaking(k, conn'[k], up'[k], down'[k], rx \o backlog, tx, sock[k], job[k]),
           alive /\ client'[c].pc = "command" =>
               Commanding(Len(got'[c]), k, conn'[k], down'[k], tx, job[k]),
           ~alive => conn'[k].st = "dropped",
           UNCHANGED <<scene, rings, tx, ready, guest, sock, agent, alive>>
    PROVE  IInv'
<1>1. /\ client \in [Clients -> [pc : {"idle", "dial", "handshake", "command", "done"}, k : 0..MaxStreams]]
      /\ dialled \in 0..MaxStreams /\ MaxStreams \in Nat
  BY TypeParts, AssumeTypes DEF IInv
<1>2. /\ rx' = rx /\ backlog' = backlog /\ room' = room /\ irq' = irq /\ tx' = tx /\ sock' = sock
      /\ job' = job /\ owned' = owned /\ reaper' = reaper /\ alive' = alive /\ scene' = scene
      /\ ready' = ready /\ guest' = guest
  BY DEF rings, agent
<1>3. TypeOK'
  <2>1. conn' \in [Streams ->
          [st : {"none", "listen", "pending", "connecting", "established", "dropped"},
           alloc : {0, GuestBuf}, fwd : 0..(Modulus - 1), tx : 0..(Modulus - 1),
           rxfwd : 0..(Modulus - 1), last : 0..(Modulus - 1), buf : Seq(Frames)]]
    BY DEF ConnT
  <2>2. up' \in [Streams -> Seq({"connect", "exec"})]
    BY DEF LineT
  <2>3. TypeOK
    BY DEF IInv
  <2>4. /\ rx' \in Seq(RxPackets) /\ backlog' \in Seq(RxPackets) /\ tx' \in Seq(TxPackets)
        /\ scene' \in Scenes /\ Len(backlog') <= scene'.backlog
        /\ Len(rx') + room' = RxBufs /\ room' \in 0..RxBufs
        /\ irq' \in BOOLEAN /\ ready' \in BOOLEAN /\ alive' \in BOOLEAN
    BY <1>2, <2>3 DEF TypeOK
  <2>5. /\ guest' \in {"boot", "pinged", "up", "listening"} /\ owned' \subseteq Streams
        /\ reaper' \in [pc : {"idle", "peeked", "consume"}, k : 0..MaxStreams]
    BY <1>2, <2>3 DEF TypeOK
  <2>6. sock' \in [Streams -> [st : {"none", "queued", "open", "reset", "closed"}, rbuf : 0..GuestBuf,
                             fwd : 0..(Modulus - 1), tx : 0..(Modulus - 1), pfwd : 0..(Modulus - 1),
                             asked : BOOLEAN]]
    BY <1>2, <2>3 DEF TypeOK
  <2>7. job' \in [Streams ->
          [pc : {"none", "read", "exec", "spawned", "wait", "join", "exit", "closed"},
           in : 0..ExecLen, code : Codes \union {"none"}, pipe : 0..PipeCap, wrote : 0..MaxOut,
           reader : {"none", "run", "ended"},
           child : {"none", "running", "zombie", "taken", "reaped"},
           fate : {"none", "exit", "signal", "killed"}, early : BOOLEAN]]
    BY <1>2, <2>3 DEF TypeOK
  <2>8. QED
    BY <2>1, <2>2, <2>4, <2>5, <2>6, <2>7, Zenon DEF TypeOK
<1>4. \A m \in Streams : ThreadInv(job'[m]) /\ ChildInv(job'[m])
  BY <1>2 DEF IInv
<1>5. ReaperInv'
  BY <1>2, ReaperSame DEF IInv
<1>6. QueueInv'
  BY <1>2 DEF IInv, QueueInv
<1>7. DialInv'
  <2>1. /\ \A m \in Streams : m > dialled <=> conn[m].st = "none"
        /\ \A m \in Streams : conn[m].st = "none" => ~hung[m]
        /\ \A c1, c2 \in Clients : client[c1].k = client[c2].k /\ client[c1].k # 0 => c1 = c2
    BY DEF IInv, DialInv
  <2>2. \A m \in Streams : m > dialled' <=> conn'[m].st = "none"
    <3>1. ~(k > dialled')
      BY <1>1 DEF Streams
    <3>2. ASSUME NEW m \in Streams, m # k PROVE m > dialled' <=> conn'[m].st = "none"
      <4>1. conn'[m] = conn[m] /\ (m > dialled' <=> m > dialled)
        BY <3>2
      <4>2. QED
        BY <2>1, <4>1
    <3>3. QED
      BY <3>1, <3>2
  <2>3. \A m \in Streams : conn'[m].st = "none" => ~hung'[m]
    BY <2>1, ZenonT(60)
  <2>4. ASSUME NEW c1 \in Clients, NEW c2 \in Clients, client'[c1].k = client'[c2].k, client'[c1].k # 0
        PROVE  c1 = c2
    <3>1. \A c3 \in Clients : c3 # c => client'[c3].k = client[c3].k /\ client[c3].k # k
      OBVIOUS
    <3>2. CASE c1 # c /\ c2 # c
      <4>1. client'[c1].k = client[c1].k /\ client'[c2].k = client[c2].k
        BY <3>1, <3>2
      <4>2. client[c1].k = client[c2].k /\ client[c1].k # 0
        BY <2>4, <4>1
      <4>3. QED
        BY <2>1, <4>2
    <3>3. CASE c1 = c \/ c2 = c
      BY <2>4, <3>1, <3>3
    <3>4. QED
      BY <3>2, <3>3
  <2>5. QED
    BY <2>2, <2>3, <2>4 DEF DialInv
<1>8. ASSUME NEW c2 \in Clients PROVE ClientInv(c2, client[c2].k)'
  <2>1. CASE c2 = c
    <3>1. client'[c].pc = "done" => Outcome(c, k)'
      BY <1>2 DEF Outcome
    <3>2. k # 0
      BY StreamsPort DEF Boot
    <3>3. QED
      BY <1>2, <2>1, <3>1, <3>2 DEF ClientInv
  <2>2. CASE c2 # c
    <3>1. ClientInv(c2, client[c2].k) /\ client[c2].k # k /\ client[c2].k \in 0..MaxStreams
      BY <1>1, <2>2 DEF IInv
    <3>2. client[c2].k # 0 => client[c2].k \in Streams
      BY <1>1, <3>1 DEF Streams
    <3>3. client[c2].k <= dialled'
      <4>1. client[c2].k <= dialled
        BY <3>1 DEF ClientInv
      <4>2. QED
        BY <1>1, <3>1, <4>1
    <3>4. Outcome(c2, client[c2].k) => Outcome(c2, client[c2].k)'
      BY <1>2, <2>2 DEF Outcome
    <3>5. client[c2].k # 0 => /\ conn'[client[c2].k] = conn[client[c2].k]
                              /\ down'[client[c2].k] = down[client[c2].k]
                              /\ hung'[client[c2].k] <=> hung[client[c2].k]
      BY <3>1, <3>2
    <3>6. QED
      BY <1>2, <2>2, <3>1, <3>3, <3>4, <3>5 DEF ClientInv
  <2>3. QED
    BY <2>1, <2>2
<1>9. alive => AliveInv(Now, tx)'
  <2>1. SUFFICES ASSUME alive PROVE AliveInv(Now, tx)'
    OBVIOUS
  <2>2. /\ Now.conn' = conn' /\ Now.up' = up' /\ Now.down' = down'
        /\ Wire(Now)' = rx \o backlog
    BY <1>2 DEF Now, Wire
  <2>3. ASSUME NEW m \in Streams
        PROVE  LocalInv(m, Now.conn[m], Now.up[m], Now.down[m], Wire(Now), tx, sock[m], job[m])'
    <3>1. CASE m = k
      <4>1. \A c2 \in Clients : client'[c2].k = k => c2 = c
        OBVIOUS
      <4>2. QED
        BY <1>2, <2>1, <2>2, <3>1, <4>1 DEF LocalInv, OwnerInv
    <3>2. CASE m # k
      <4>1. LocalInv(m, conn[m], up[m], down[m], rx \o backlog, tx, sock[m], job[m])
        BY <2>1, GuestAt
      <4>2. \A c2 \in Clients : client'[c2].k = m => c2 # c
        BY <3>2
      <4>3. conn'[m] = conn[m] /\ up'[m] = up[m] /\ down'[m] = down[m]
        BY <3>2
      <4>4. \A c2 \in Clients : client'[c2].k = m => client'[c2] = client[c2] /\ got'[c2] = got[c2]
        BY <4>2
      <4>5. /\ Now.conn[m]' = conn[m] /\ Now.up[m]' = up[m] /\ Now.down[m]' = down[m]
            /\ tx' = tx /\ sock[m]' = sock[m] /\ job[m]' = job[m]
        BY <1>2, <2>2, <4>3
      <4>6. StreamInv(m, Now.conn[m], Now.up[m], Now.down[m], Wire(Now), tx, sock[m], job[m])'
        BY <2>2, <4>1, <4>5 DEF LocalInv
      <4>7. ASSUME NEW c2 \in Clients, client'[c2].k = m
            PROVE  OwnerInv(c2, m, Now.conn[m], Now.up[m], Now.down[m], Wire(Now), tx, sock[m], job[m])'
        <5>1. client'[c2] = client[c2] /\ got'[c2] = got[c2]
          BY <4>4, <4>7
        <5>2. OwnerInv(c2, m, conn[m], up[m], down[m], rx \o backlog, tx, sock[m], job[m])
          BY <4>1, <4>7, <5>1 DEF LocalInv
        <5>3. QED
          BY <2>2, <4>5, <5>1, <5>2 DEF OwnerInv
      <4>8. QED
        BY <4>6, <4>7 DEF LocalInv
    <3>3. QED
      BY <3>1, <3>2
  <2>4. QED
    BY <2>3 DEF AliveInv
<1>10. ~alive => \A m \in Streams : conn'[m].st \in {"none", "dropped"}
  BY DEF IInv
<1>11. QED
  BY <1>2, <1>3, <1>4, <1>5, <1>6, <1>7, <1>8, <1>9, <1>10 DEF IInv

LEMMA DialKeeps == ASSUME IInv, NEW c \in Clients, Dial(c) PROVE IInv'
<1>0. SUFFICES ASSUME NEW k, k = dialled + 1 PROVE IInv'
  OBVIOUS
<1> DEFINE e  == [pc |-> "handshake", k |-> k]
           u  == <<"connect">>
           dn == down[k]
           cn == [conn[k] EXCEPT !.st = "listen"]
<1>1. /\ client[c].pc = "dial" /\ alive /\ k <= scene.streams /\ dialled' = k
      /\ client' = [client EXCEPT ![c] = e] /\ up' = [up EXCEPT ![k] = u]
      /\ conn' = [conn EXCEPT ![k].st = "listen"]
      /\ UNCHANGED <<scene, told, got, hung, down, rings, tx, ready, guest, sock, agent, alive>>
  BY <1>0 DEF Dial
<1>2. /\ client \in [Clients -> [pc : {"idle", "dial", "handshake", "command", "done"}, k : 0..MaxStreams]]
      /\ told \in [Clients -> Codes \union {"none", "error", "notready"}]
      /\ got \in [Clients -> Seq(1..MaxOut)] /\ dialled \in 0..MaxStreams /\ scene.streams \in Streams
      /\ hung \in [Streams -> BOOLEAN] /\ MaxStreams \in Nat
      /\ conn \in [Streams -> ConnT] /\ up \in [Streams -> LineT] /\ down \in [Streams -> Seq(Frames)]
  BY TypeParts, AssumeTypes DEF IInv
<1>3. k \in Streams /\ k \in 0..MaxStreams /\ k > dialled /\ dialled \in Int
  BY <1>0, <1>1, <1>2 DEF Streams
<1>4. conn[k].st = "none" /\ ~hung[k]
  <2>1. conn[k].st = "none"
    BY <1>3 DEF IInv, DialInv
  <2>2. QED
    BY <1>3, <2>1 DEF IInv, DialInv
<1>5. /\ LocalInv(k, conn[k], up[k], down[k], rx \o backlog, tx, sock[k], job[k])
  BY <1>1, <1>3, GuestAt
<1>6. told[c] = "none" /\ got[c] = <<>>
  BY <1>1 DEF IInv, ClientInv
<1>7. /\ StreamInv(k, conn[k], up[k], down[k], rx \o backlog, tx, sock[k], job[k])
      /\ Unopened(k, conn[k], up[k], down[k], rx \o backlog, tx, sock[k], job[k])
  BY <1>4, <1>5 DEF LocalInv, StreamInv, Early
<1>8. cn \in ConnT /\ cn.st = "listen" /\ cn = [NoConn EXCEPT !.st = cn.st]
  <2>1. conn[k] \in ConnT /\ conn[k] = [NoConn EXCEPT !.st = conn[k].st]
    BY <1>2, <1>3, <1>7 DEF Unopened
  <2>2. cn \in ConnT /\ cn.st = "listen"
    BY <2>1 DEF ConnT
  <2>3. QED
    BY <2>1, <2>2 DEF ConnT, NoConn
<1>9. /\ u \in LineT /\ dn \in Seq(Frames) /\ dn = <<>>
      /\ e \in [pc : {"idle", "dial", "handshake", "command", "done"}, k : 0..MaxStreams]
  <2>1. u \in LineT
    BY DEF LineT
  <2>2. dn = <<>>
    BY <1>7 DEF Unopened
  <2>3. QED
    BY <1>2, <1>3, <2>1, <2>2
<1>10. Unopened(k, cn, u, dn, rx \o backlog, tx, sock[k], job[k])
  BY <1>7, <1>8 DEF Unopened
<1>11. /\ conn' \in [Streams -> ConnT] /\ up' \in [Streams -> LineT] /\ down' \in [Streams -> Seq(Frames)]
       /\ conn'[k] = cn /\ up'[k] = u /\ down'[k] = dn
       /\ \A m \in Streams : m # k => conn'[m] = conn[m] /\ up'[m] = up[m] /\ down'[m] = down[m]
  BY <1>1, <1>2, <1>3, <1>8, <1>9
<1>12. /\ hung' \in [Streams -> BOOLEAN] /\ \A m \in Streams : hung'[m] <=> hung[m]
       /\ dialled' \in 0..MaxStreams /\ dialled <= dialled' /\ k <= dialled'
       /\ \A m \in Streams : m # k => (m > dialled' <=> m > dialled)
  BY <1>0, <1>1, <1>2, <1>3 DEF Streams
<1>13. ASSUME NEW c2 \in Clients PROVE client[c2].k # k
  <2>1. client[c2].k <= dialled /\ client[c2].k \in 0..MaxStreams
    BY <1>2 DEF IInv, ClientInv
  <2>2. QED
    BY <1>3, <2>1
<1>14. /\ client' \in [Clients -> [pc : {"idle", "dial", "handshake", "command", "done"}, k : 0..MaxStreams]]
       /\ client'[c] = e /\ \A c2 \in Clients : c2 # c => client'[c2] = client[c2]
       /\ told' = told /\ got' = got /\ alive' = alive
  BY <1>1, <1>2, <1>9
<1> HIDE DEF u, dn, cn
<1>15. StreamInv(k, cn, u, dn, rx \o backlog, tx, sock[k], job[k])
  <2>1. Len(dn) <= UdsCap
    BY <1>9, AssumeTypes
  <2>2. QED
    BY <1>7, <1>8, <1>10, <2>1 DEF StreamInv, Early
<1>16. Shaking(k, cn, u, dn, rx \o backlog, tx, sock[k], job[k])
  BY <1>8, <1>9 DEF Shaking
<1>17. ~hung'[k] /\ got'[c] = <<>> /\ Counting(got'[c]) /\ told'[c] = "none"
  <2>1. Counting(<<>>)
    BY DEF Counting
  <2>2. QED
    BY <1>3, <1>4, <1>6, <1>12, <1>14, <2>1
<1>18. client'[c].k = k /\ client'[c].pc = "handshake" /\ conn'[k].st # "none"
  BY <1>8, <1>11, <1>14
<1>19. /\ \A c2 \in Clients :
               c2 # c => client'[c2] = client[c2] /\ told'[c2] = told[c2] /\ got'[c2] = got[c2]
       /\ \A m \in Streams :
               m # k => /\ conn'[m] = conn[m] /\ up'[m] = up[m] /\ down'[m] = down[m]
                        /\ hung'[m] <=> hung[m]
                        /\ m > dialled' <=> m > dialled
       /\ \A c2 \in Clients : c2 # c => client[c2].k # k
       /\ told' \in [Clients -> Codes \union {"none", "error", "notready"}]
       /\ got' \in [Clients -> Seq(1..MaxOut)]
  BY <1>2, <1>11, <1>12, <1>13, <1>14
<1>20. /\ alive => StreamInv(k, conn'[k], up'[k], down'[k], rx \o backlog, tx, sock[k], job[k])
       /\ alive /\ client'[c].pc = "handshake" =>
               Shaking(k, conn'[k], up'[k], down'[k], rx \o backlog, tx, sock[k], job[k])
       /\ alive /\ client'[c].pc = "command" =>
               Commanding(Len(got'[c]), k, conn'[k], down'[k], tx, job[k])
       /\ ~alive => conn'[k].st = "dropped"
  BY <1>1, <1>11, <1>15, <1>16, <1>18
<1>21. UNCHANGED <<scene, rings, tx, ready, guest, sock, agent, alive>>
  BY <1>1
<1>22. /\ client'[c].pc \in {"handshake", "command"} => ~hung'[k]
       /\ client'[c].pc \notin {"command", "done"} => got'[c] = <<>>
       /\ client'[c].pc = "command" /\ ~alive => Delivering(Len(got'[c]), down'[k], job[k])
       /\ client'[c].pc # "done" => told'[c] = "none"
       /\ client'[c].pc = "done" =>
               \/ told'[c] \in {"error", "notready"} \/ (told'[c] = "-1" /\ ~alive)
               \/ told'[c] \in Codes /\ told'[c] = job[k].code /\ Len(got'[c]) = job[k].wrote
  BY <1>1, <1>17, <1>18
<1>23. /\ conn' \in [Streams -> ConnT] /\ up' \in [Streams -> LineT] /\ down' \in [Streams -> Seq(Frames)]
       /\ hung' \in [Streams -> BOOLEAN] /\ dialled' \in 0..MaxStreams /\ dialled <= dialled' /\ k <= dialled'
       /\ client' \in [Clients -> [pc : {"idle", "dial", "handshake", "command", "done"}, k : 0..MaxStreams]]
       /\ k \in Streams /\ Counting(got'[c])
  BY <1>3, <1>11, <1>12, <1>14, <1>17
<1>24. QED
  BY <1>18, <1>19, <1>20, <1>21, <1>22, <1>23, ClientKeeps, Zenon

(* A client that waits takes what it waited for from its own stream. *)
LEMMA TakesKeeps ==
    ASSUME IInv, NEW c \in Clients, NEW k \in Streams,
           client[c].pc \in {"handshake", "command"}, client[c].k = k,
           client' \in [Clients -> [pc : {"idle", "dial", "handshake", "command", "done"}, k : 0..MaxStreams]],
           told' \in [Clients -> Codes \union {"none", "error", "notready"}],
           got' \in [Clients -> Seq(1..MaxOut)],
           up' \in [Streams -> LineT], down' \in [Streams -> Seq(Frames)], hung' \in [Streams -> BOOLEAN],
           \A c2 \in Clients :
               c2 # c => client'[c2] = client[c2] /\ told'[c2] = told[c2] /\ got'[c2] = got[c2],
           \A m \in Streams :
               m # k => up'[m] = up[m] /\ down'[m] = down[m] /\ (hung'[m] <=> hung[m]),
           client'[c].k = k, client'[c].pc \in {"command", "done"},
           client'[c].pc = "command" => ~hung'[k] /\ told'[c] = "none",
           Counting(got'[c]),
           client'[c].pc = "command" /\ ~alive => Delivering(Len(got'[c]), down'[k], job[k]),
           client'[c].pc = "done" =>
               \/ told'[c] \in {"error", "notready"} \/ (told'[c] = "-1" /\ ~alive)
               \/ told'[c] \in Codes /\ told'[c] = job[k].code /\ Len(got'[c]) = job[k].wrote,
           alive => StreamInv(k, conn[k], up'[k], down'[k], rx \o backlog, tx, sock[k], job[k]),
           alive /\ client'[c].pc = "command" =>
               Commanding(Len(got'[c]), k, conn[k], down'[k], tx, job[k]),
           UNCHANGED <<scene, dialled, conn, rings, tx, ready, guest, sock, agent, alive>>
    PROVE  IInv'
<1>1. /\ conn[k].st # "none" /\ k <= dialled
      /\ \A c2 \in Clients : c2 # c => client[c2].k # k
  BY WaitingAt
<1>2. conn' = conn /\ dialled' = dialled
  OBVIOUS
<1>3. conn \in [Streams -> ConnT] /\ dialled \in 0..MaxStreams /\ dialled <= dialled
  BY TypeParts, AssumeTypes DEF IInv
<1>4. ~alive => conn[k].st = "dropped"
  BY <1>1 DEF IInv
<1>5. \A m \in Streams :
           m # k => /\ conn'[m] = conn[m] /\ up'[m] = up[m] /\ down'[m] = down[m]
                    /\ hung'[m] <=> hung[m]
                    /\ m > dialled' <=> m > dialled
  BY <1>2
<1>6. /\ alive => StreamInv(k, conn'[k], up'[k], down'[k], rx \o backlog, tx, sock[k], job[k])
      /\ alive /\ client'[c].pc = "handshake" =>
           Shaking(k, conn'[k], up'[k], down'[k], rx \o backlog, tx, sock[k], job[k])
      /\ alive /\ client'[c].pc = "command" =>
           Commanding(Len(got'[c]), k, conn'[k], down'[k], tx, job[k])
  BY <1>2
<1>7. /\ client'[c].pc \in {"handshake", "command"} => ~hung'[k]
      /\ client'[c].pc \notin {"command", "done"} => got'[c] = <<>>
      /\ client'[c].pc # "done" => told'[c] = "none"
  OBVIOUS
<1>8. /\ conn' \in [Streams -> ConnT] /\ conn'[k].st # "none" /\ (~alive => conn'[k].st = "dropped")
      /\ dialled' \in 0..MaxStreams /\ dialled <= dialled' /\ k <= dialled'
      /\ UNCHANGED <<scene, rings, tx, ready, guest, sock, agent, alive>>
  BY <1>1, <1>2, <1>3, <1>4
<1>9. QED
  BY <1>1, <1>5, <1>6, <1>7, <1>8, ClientKeeps, Zenon

(* What Return(c, o) leaves of the other clients and streams. *)
LEMMA ReturnFacts ==
    ASSUME IInv, NEW c \in Clients, NEW k \in Streams, client[c].k = k,
           NEW o \in Codes \union {"none", "error", "notready"}, Return(c, o)
    PROVE  /\ client' \in [Clients -> [pc : {"idle", "dial", "handshake", "command", "done"}, k : 0..MaxStreams]]
           /\ told' \in [Clients -> Codes \union {"none", "error", "notready"}]
           /\ hung' \in [Streams -> BOOLEAN] /\ \A m \in Streams : m # k => (hung'[m] <=> hung[m])
           /\ client'[c].k = k /\ client'[c].pc = "done" /\ told'[c] = o
           /\ \A c2 \in Clients : c2 # c => client'[c2] = client[c2] /\ told'[c2] = told[c2]
<1>1. /\ client \in [Clients -> [pc : {"idle", "dial", "handshake", "command", "done"}, k : 0..MaxStreams]]
      /\ told \in [Clients -> Codes \union {"none", "error", "notready"}]
      /\ hung \in [Streams -> BOOLEAN]
  BY TypeParts DEF IInv
<1>2. /\ client' = [client EXCEPT ![c].pc = "done"] /\ told' = [told EXCEPT ![c] = o]
      /\ hung' = [m \in Streams |-> hung[m] \/ m = k]
  BY DEF Return
<1>3. hung' \in [Streams -> BOOLEAN] /\ \A m \in Streams : m # k => (hung'[m] <=> hung[m])
  BY <1>1, <1>2
<1>4. QED
  BY <1>1, <1>2, <1>3

(* The Exec frame is written when nothing else is under way on the stream. *)
LEMMA ExecWritten ==
    ASSUME NEW k \in Streams, NEW cn, NEW u, NEW dn, NEW s, NEW t, NEW sk, NEW j, NEW u2,
           Typed(cn, u, dn, s, t, sk, j), cn.st = "established",
           u2 = u \o [i \in 1..ExecLen |-> "exec"],
           StreamInv(k, cn, u, dn, s, t, sk, j), Shaking(k, cn, u, dn, s, t, sk, j)
    PROVE  /\ u2 \in LineT /\ StreamInv(k, cn, u2, <<>>, s, t, sk, j)
           /\ Commanding(0, k, cn, <<>>, t, j)
<1>1. /\ u = <<>> /\ cn.buf = <<>> /\ sk.rbuf + InFlight(s, k) = 0
      /\ j = [NoJob EXCEPT !.pc = j.pc] /\ \A i \in 1..Len(t) : ~Carries(t[i], k)
  BY DEF Shaking
<1>2. ExecLen \in Nat /\ UdsCap \in Nat /\ s \in Seq(RxPackets) /\ sk.rbuf \in Nat /\ InFlight(s, k) \in Nat
  <2>1. s \in Seq(RxPackets) /\ sk.rbuf \in 0..GuestBuf /\ GuestBuf \in Nat
    BY AssumeTypes DEF Typed, SockT
  <2>2. QED
    BY <2>1, AssumeTypes, InFlightType
<1>3. u2 \in LineT /\ Len(u2) = ExecLen /\ \A i \in 1..Len(u2) : u2[i] = "exec"
  <2> DEFINE w == [i \in 1..ExecLen |-> "exec"]
  <2>1. w \in Seq({"connect", "exec"}) /\ Len(w) = ExecLen /\ \A i \in 1..ExecLen : w[i] = "exec"
    BY <1>2
  <2>2. u2 = w
    BY <1>1, <2>1, ConcatEmptySeq
  <2>3. QED
    BY <2>1, <2>2 DEF LineT
<1>4. /\ j.code = "none" /\ j.child = "none" /\ j.in = 0 /\ j.reader = "none"
  BY <1>1 DEF NoJob
<1>5. Spent(j) = 0 /\ Sent(j) = 0
  BY <1>4 DEF Spent, Sent, Executed
<1>6. Counted(k, u2, s, sk, j)
  <2>1. Len(u2) + InFlight(s, k) + sk.rbuf + Spent(j) <= ExecLen
    BY <1>1, <1>2, <1>3, <1>5
  <2>2. QED
    BY <1>3, <2>1 DEF Counted
<1>7. StreamInv(k, cn, u2, <<>>, s, t, sk, j)
  <2>1. /\ Opened(k, cn, u2, <<>>, s, t, sk, j) /\ sk.rbuf + InFlight(s, k) <= GuestBuf
        /\ sk.st \in {"none", "queued"} => j = NoJob
    BY DEF StreamInv, Opened
  <2>2. Len(<<>>) <= UdsCap
    BY <1>2
  <2>3. QED
    BY <1>6, <2>1, <2>2 DEF StreamInv, Early
<1>8. Commanding(0, k, cn, <<>>, t, j)
  <2>1. InTx(0, k, t, j)
    BY <1>1, <1>5 DEF InTx
  <2>2. 0 + Len(<<>>) + Len(cn.buf) = 0 /\ Delivering(0, <<>>, j)
    BY <1>1 DEF Delivering
  <2>3. \A i \in 1..Len(cn.buf) : Nth(j, cn.buf[i], 0 + Len(<<>>) + i)
    BY <1>1
  <2>4. QED
    BY <2>1, <2>2, <2>3 DEF Commanding
<1>9. QED
  BY <1>3, <1>7, <1>8

LEMMA ReadRest ==
    ASSUME NEW k \in Streams, NEW cn, NEW u, NEW dn \in Seq(Frames), NEW s, NEW t, NEW sk, NEW j, dn # <<>>,
           StreamInv(k, cn, u, dn, s, t, sk, j), cn.st \in {"established", "dropped"}
    PROVE  /\ Tail(dn) \in Seq(Frames) /\ StreamInv(k, cn, u, Tail(dn), s, t, sk, j)
<1>1. /\ Tail(dn) \in Seq(Frames) /\ Len(Tail(dn)) = Len(dn) - 1 /\ Len(dn) \in Nat
  BY HeadTailProperties
<1>2. Len(Tail(dn)) <= UdsCap
  BY <1>1, AssumeTypes DEF StreamInv
<1>3. Opened(k, cn, u, dn, s, t, sk, j) => Opened(k, cn, u, Tail(dn), s, t, sk, j)
  BY DEF Opened
<1>4. QED
  BY <1>1, <1>2, <1>3 DEF StreamInv, Early

LEMMA HandshakenKeeps == ASSUME IInv, NEW c \in Clients, Handshaken(c) PROVE IInv'
<1>1. client[c].pc = "handshake"
  BY DEF Handshaken
<1>2. client[c].k \in Streams
  BY <1>1, WaitingAt
<1>3. SUFFICES ASSUME NEW k \in Streams, client[c].k = k PROVE IInv'
  BY <1>2
<1>4. /\ down[k] # <<>> /\ down' = [down EXCEPT ![k] = Tail(@)]
      /\ IF conn[k].st = "dropped"
         THEN Return(c, "error") /\ UNCHANGED up
         ELSE /\ client' = [client EXCEPT ![c].pc = "command"]
              /\ up' = [up EXCEPT ![k] = @ \o [i \in 1..ExecLen |-> "exec"]]
              /\ UNCHANGED <<told, hung>>
      /\ UNCHANGED <<scene, got, dialled, conn, rings, tx, ready, guest, sock, agent, alive>>
  BY <1>3 DEF Handshaken
<1>5. /\ client \in [Clients -> [pc : {"idle", "dial", "handshake", "command", "done"}, k : 0..MaxStreams]]
      /\ told \in [Clients -> Codes \union {"none", "error", "notready"}]
      /\ got \in [Clients -> Seq(1..MaxOut)] /\ hung \in [Streams -> BOOLEAN]
      /\ up \in [Streams -> LineT] /\ down \in [Streams -> Seq(Frames)]
  BY TypeParts DEF IInv
<1>6. ~hung[k] /\ conn[k].st # "none" /\ told[c] = "none" /\ Counting(got[c]) /\ got[c] = <<>>
  BY <1>1, <1>3, WaitingAt
<1>7. alive => /\ StreamInv(k, conn[k], up[k], down[k], rx \o backlog, tx, sock[k], job[k])
               /\ Shaking(k, conn[k], up[k], down[k], rx \o backlog, tx, sock[k], job[k])
               /\ Typed(conn[k], up[k], down[k], rx \o backlog, tx, sock[k], job[k])
  BY <1>1, <1>3, GuestAt DEF LocalInv, OwnerInv
<1>8. alive => down[k] = <<Ok>> /\ conn[k].st \in {"established", "dropped"}
  BY <1>4, <1>7 DEF Shaking
<1>9. ~alive => conn[k].st = "dropped"
  BY <1>6 DEF IInv
<1>10. /\ down[k] \in Seq(Frames) /\ Tail(down[k]) \in Seq(Frames) /\ down' \in [Streams -> Seq(Frames)]
       /\ down'[k] = Tail(down[k]) /\ \A m \in Streams : m # k => down'[m] = down[m]
  <2>1. down[k] \in Seq(Frames) /\ Tail(down[k]) \in Seq(Frames)
    BY <1>4, <1>5, HeadTailProperties
  <2>2. QED
    BY <1>4, <1>5, <2>1
<1>11. got'[c] = got[c] /\ Counting(got'[c]) /\ got' \in [Clients -> Seq(1..MaxOut)] /\ got' = got
  BY <1>4, <1>5, <1>6
<1>12. CASE conn[k].st = "dropped"
  <2>1. Return(c, "error") /\ up' = up
    BY <1>4, <1>12
  <2> DEFINE o == "error"
  <2>2. o \in Codes \union {"none", "error", "notready"} /\ o = "error" /\ Return(c, o)
    BY <2>1
  <2> HIDE DEF o
  <2>3. /\ client' \in [Clients -> [pc : {"idle", "dial", "handshake", "command", "done"}, k : 0..MaxStreams]]
        /\ told' \in [Clients -> Codes \union {"none", "error", "notready"}]
        /\ hung' \in [Streams -> BOOLEAN] /\ \A m \in Streams : m # k => (hung'[m] <=> hung[m])
        /\ client'[c].k = k /\ client'[c].pc = "done" /\ told'[c] = o
        /\ \A c2 \in Clients : c2 # c => client'[c2] = client[c2] /\ told'[c2] = told[c2]
    BY <1>3, <2>2, ReturnFacts
  <2>4. alive => StreamInv(k, conn[k], up'[k], down'[k], rx \o backlog, tx, sock[k], job[k])
    BY <1>4, <1>7, <1>10, <1>12, <2>1, ReadRest
  <2>5. /\ \A c2 \in Clients :
               c2 # c => client'[c2] = client[c2] /\ told'[c2] = told[c2] /\ got'[c2] = got[c2]
        /\ \A m \in Streams :
               m # k => up'[m] = up[m] /\ down'[m] = down[m] /\ (hung'[m] <=> hung[m])
        /\ up' \in [Streams -> LineT]
    BY <1>5, <1>10, <1>11, <2>1, <2>3
  <2>6. /\ client'[c].pc \in {"command", "done"}
        /\ client'[c].pc = "command" => ~hung'[k] /\ told'[c] = "none"
        /\ client'[c].pc = "command" /\ ~alive => Delivering(Len(got'[c]), down'[k], job[k])
        /\ client'[c].pc = "done" =>
               \/ told'[c] \in {"error", "notready"} \/ (told'[c] = "-1" /\ ~alive)
               \/ told'[c] \in Codes /\ told'[c] = job[k].code /\ Len(got'[c]) = job[k].wrote
        /\ alive /\ client'[c].pc = "command" =>
               Commanding(Len(got'[c]), k, conn[k], down'[k], tx, job[k])
    BY <2>2, <2>3
  <2>7. UNCHANGED <<scene, dialled, conn, rings, tx, ready, guest, sock, agent, alive>>
    BY <1>4
  <2>8. client[c].pc \in {"handshake", "command"}
    BY <1>1
  <2>9. QED
    BY <1>3, <1>10, <1>11, <2>3, <2>4, <2>5, <2>6, <2>7, <2>8, TakesKeeps, Zenon
<1>13. CASE conn[k].st # "dropped"
  <2>1. /\ client' = [client EXCEPT ![c].pc = "command"] /\ told' = told /\ hung' = hung
        /\ up' = [up EXCEPT ![k] = @ \o [i \in 1..ExecLen |-> "exec"]]
    BY <1>4, <1>13
  <2>2. alive /\ conn[k].st = "established" /\ Tail(down[k]) = <<>>
    <3>1. alive /\ conn[k].st = "established" /\ down[k] = <<Ok>>
      BY <1>8, <1>9, <1>13
    <3>2. Tail(<<Ok>>) = <<>>
      OBVIOUS
    <3>3. QED
      BY <3>1, <3>2, Zenon
  <2> DEFINE u2 == up[k] \o [i \in 1..ExecLen |-> "exec"]
  <2>3. /\ u2 \in LineT /\ StreamInv(k, conn[k], u2, <<>>, rx \o backlog, tx, sock[k], job[k])
        /\ Commanding(0, k, conn[k], <<>>, tx, job[k])
    BY <1>7, <2>2, ExecWritten
  <2>4. /\ up' \in [Streams -> LineT] /\ up'[k] = u2 /\ \A m \in Streams : m # k => up'[m] = up[m]
    <3>1. up' = [up EXCEPT ![k] = u2]
      BY <2>1
    <3> HIDE DEF u2
    <3>2. QED
      BY <1>5, <2>3, <3>1
  <2> HIDE DEF u2
  <2>5. /\ client' \in [Clients -> [pc : {"idle", "dial", "handshake", "command", "done"}, k : 0..MaxStreams]]
        /\ client'[c].k = k /\ client'[c].pc = "command"
        /\ \A c2 \in Clients : c2 # c => client'[c2] = client[c2]
    BY <1>3, <1>5, <2>1
  <2>6. /\ Len(got'[c]) = 0 /\ down'[k] = <<>>
    BY <1>6, <1>10, <1>11, <2>2
  <2>7. /\ alive => StreamInv(k, conn[k], up'[k], down'[k], rx \o backlog, tx, sock[k], job[k])
        /\ alive /\ client'[c].pc = "command" =>
               Commanding(Len(got'[c]), k, conn[k], down'[k], tx, job[k])
    BY <2>3, <2>4, <2>6
  <2>8. /\ \A c2 \in Clients :
               c2 # c => client'[c2] = client[c2] /\ told'[c2] = told[c2] /\ got'[c2] = got[c2]
        /\ \A m \in Streams :
               m # k => up'[m] = up[m] /\ down'[m] = down[m] /\ (hung'[m] <=> hung[m])
        /\ told' \in [Clients -> Codes \union {"none", "error", "notready"}]
        /\ hung' \in [Streams -> BOOLEAN]
    BY <1>5, <1>10, <1>11, <2>1, <2>4, <2>5
  <2>9. /\ client'[c].pc \in {"command", "done"}
        /\ client'[c].pc = "command" => ~hung'[k] /\ told'[c] = "none"
        /\ client'[c].pc = "command" /\ ~alive => Delivering(Len(got'[c]), down'[k], job[k])
        /\ client'[c].pc = "done" =>
               \/ told'[c] \in {"error", "notready"} \/ (told'[c] = "-1" /\ ~alive)
               \/ told'[c] \in Codes /\ told'[c] = job[k].code /\ Len(got'[c]) = job[k].wrote
    BY <1>6, <2>1, <2>2, <2>5
  <2>10. UNCHANGED <<scene, dialled, conn, rings, tx, ready, guest, sock, agent, alive>>
    BY <1>4
  <2>11. client[c].pc \in {"handshake", "command"}
    BY <1>1
  <2>12. QED
    BY <1>3, <1>10, <1>11, <2>4, <2>5, <2>7, <2>8, <2>9, <2>10, <2>11, TakesKeeps, Zenon
<1>14. QED
  BY <1>12, <1>13

(* The first frame is the next one, and the rest follow it. *)
LEMMA NextFrame ==
    ASSUME NEW a \in Nat, NEW dn \in Seq(Frames), dn # <<>>, NEW j, Delivering(a, dn, j)
    PROVE  Nth(j, Head(dn), a + 1) /\ Delivering(a + 1, Tail(dn), j)
<1>1. /\ Tail(dn) \in Seq(Frames) /\ Len(Tail(dn)) = Len(dn) - 1 /\ Len(dn) \in Nat /\ Head(dn) = dn[1]
      /\ \A i \in 1..Len(Tail(dn)) : Tail(dn)[i] = dn[i + 1]
  BY HeadTailProperties
<1>2. Len(dn) > 0
  BY <1>1, EmptySeq
<1>3. Nth(j, dn[1], a + 1)
  BY <1>1, <1>2 DEF Delivering
<1>4. ASSUME NEW i \in 1..Len(Tail(dn)) PROVE Nth(j, Tail(dn)[i], (a + 1) + i)
  <2>1. i + 1 \in 1..Len(dn) /\ a + (i + 1) = (a + 1) + i
    BY <1>1
  <2>2. Nth(j, dn[i + 1], a + (i + 1))
    BY <2>1 DEF Delivering
  <2>3. QED
    BY <1>1, <2>1, <2>2
<1>5. QED
  BY <1>1, <1>3, <1>4 DEF Delivering

LEMMA NextCommand ==
    ASSUME NEW a \in Nat, NEW k, NEW cn, NEW dn \in Seq(Frames), dn # <<>>, NEW t, NEW j \in JobT,
           cn \in ConnT, Commanding(a, k, cn, dn, t, j)
    PROVE  Commanding(a + 1, k, cn, Tail(dn), t, j)
<1>1. Delivering(a + 1, Tail(dn), j)
  BY NextFrame DEF Commanding
<1> DEFINE n == Len(dn)
           m == Len(cn.buf)
<1>2. n \in Nat /\ Len(Tail(dn)) = n - 1 /\ m \in Nat
  BY HeadTailProperties DEF ConnT
<1>3. /\ \A i \in 1..m : Nth(j, cn.buf[i], a + n + i)
      /\ InTx(a + n + m, k, t, j) /\ cn.st = "established"
  BY DEF Commanding
<1> HIDE DEF n, m
<1>4. (a + 1) + (n - 1) + m = a + n + m
  BY <1>2
<1>5. \A i \in 1..m : (a + 1) + (n - 1) + i = a + n + i
  BY <1>2
<1>6. /\ \A i \in 1..m : Nth(j, cn.buf[i], (a + 1) + Len(Tail(dn)) + i)
      /\ InTx((a + 1) + Len(Tail(dn)) + m, k, t, j)
  BY <1>2, <1>3, <1>4, <1>5
<1>7. QED
  BY <1>1, <1>3, <1>6 DEF Commanding, m

LEMMA CountingMore ==
    ASSUME NEW g \in Seq(1..MaxOut), Counting(g), NEW n, n = Len(g) + 1, n \in 1..MaxOut
    PROVE  Append(g, n) \in Seq(1..MaxOut) /\ Len(Append(g, n)) = n /\ Counting(Append(g, n))
<1> DEFINE h == Append(g, n)
<1>1. h \in Seq(1..MaxOut) /\ Len(h) = n /\ Len(g) \in Nat /\ Len(h) = Len(g) + 1
      /\ (\A i \in 1..Len(g) : h[i] = g[i]) /\ h[n] = n
  BY AppendProperties
<1>2. \A i \in 1..Len(g) : g[i] = i
  BY DEF Counting
<1> HIDE DEF h
<1>3. \A i \in 1..Len(h) : h[i] = i
  BY <1>1, <1>2
<1>4. h = [i \in 1..Len(h) |-> h[i]]
  BY <1>1
<1>5. [i \in 1..Len(h) |-> h[i]] = [i \in 1..Len(h) |-> i]
  BY <1>3
<1>6. Counting(h)
  BY <1>4, <1>5 DEF Counting
<1>7. QED
  BY <1>1, <1>6 DEF h

LEMMA EventKeeps == ASSUME IInv, NEW c \in Clients, Event(c) PROVE IInv'
<1>1. client[c].pc = "command"
  BY DEF Event
<1>2. client[c].k \in Streams
  BY <1>1, WaitingAt
<1>3. SUFFICES ASSUME NEW k \in Streams, client[c].k = k PROVE IInv'
  BY <1>2
<1> DEFINE f == Head(down[k])
           a == Len(got[c])
<1>4. /\ down[k] # <<>> /\ down' = [down EXCEPT ![k] = Tail(@)]
      /\ IF f.t = "exit"
         THEN Return(c, f.code) /\ UNCHANGED got
         ELSE got' = [got EXCEPT ![c] = Append(@, f.n)] /\ UNCHANGED <<client, told, hung>>
      /\ UNCHANGED <<scene, dialled, up, conn, rings, tx, ready, guest, sock, agent, alive>>
  BY <1>3 DEF Event
<1>5. /\ client \in [Clients -> [pc : {"idle", "dial", "handshake", "command", "done"}, k : 0..MaxStreams]]
      /\ told \in [Clients -> Codes \union {"none", "error", "notready"}]
      /\ got \in [Clients -> Seq(1..MaxOut)] /\ hung \in [Streams -> BOOLEAN]
      /\ up \in [Streams -> LineT] /\ down \in [Streams -> Seq(Frames)]
      /\ conn \in [Streams -> ConnT] /\ job \in [Streams -> JobT]
  BY TypeParts DEF IInv
<1>6. ~hung[k] /\ conn[k].st # "none" /\ told[c] = "none" /\ Counting(got[c])
  BY <1>1, <1>3, WaitingAt
<1>7. alive => /\ StreamInv(k, conn[k], up[k], down[k], rx \o backlog, tx, sock[k], job[k])
               /\ Commanding(a, k, conn[k], down[k], tx, job[k])
  BY <1>1, <1>3, GuestAt DEF LocalInv, OwnerInv
<1>8. Delivering(a, down[k], job[k])
  <2>1. ~alive => Delivering(a, down[k], job[k])
    BY <1>1, <1>3 DEF IInv, ClientInv
  <2>2. QED
    BY <1>7, <2>1 DEF Commanding
<1>9. /\ down[k] \in Seq(Frames) /\ Tail(down[k]) \in Seq(Frames) /\ down' \in [Streams -> Seq(Frames)]
      /\ down'[k] = Tail(down[k]) /\ \A m \in Streams : m # k => down'[m] = down[m]
  <2>1. down[k] \in Seq(Frames) /\ Tail(down[k]) \in Seq(Frames)
    BY <1>4, <1>5, HeadTailProperties
  <2>2. QED
    BY <1>4, <1>5, <2>1
<1>10. a \in Nat /\ got[c] \in Seq(1..MaxOut)
  BY <1>5, LenProperties
<1> HIDE DEF a
<1>11. Nth(job[k], f, a + 1) /\ Delivering(a + 1, Tail(down[k]), job[k])
  BY <1>4, <1>8, <1>9, <1>10, NextFrame
<1>12. alive => StreamInv(k, conn[k], up'[k], down'[k], rx \o backlog, tx, sock[k], job[k])
  <2>1. alive => conn[k].st \in {"established", "dropped"}
    BY <1>7 DEF Commanding
  <2>2. QED
    BY <1>4, <1>7, <1>9, <2>1, ReadRest
<1>13. /\ job[k] \in JobT /\ conn[k] \in ConnT /\ job[k].code \in Codes \union {"none"} /\ job[k].wrote \in 0..MaxOut
       /\ MaxOut \in Nat
  BY <1>5, AssumeTypes DEF JobT
<1>14. UNCHANGED <<scene, dialled, conn, rings, tx, ready, guest, sock, agent, alive>> /\ up' = up
  BY <1>4
<1>15. client[c].pc \in {"handshake", "command"}
  BY <1>1
<1>16. CASE f.t = "exit"
  <2> DEFINE o == f.code
  <2>1. Return(c, o) /\ got' = got
    BY <1>4, <1>16
  <2>2. a + 1 = job[k].wrote + 1 /\ o = job[k].code /\ job[k].code # "none"
    BY <1>11, <1>16 DEF Nth
  <2>3. a = job[k].wrote /\ o \in Codes /\ o \in Codes \union {"none", "error", "notready"}
    BY <1>10, <1>13, <2>2
  <2> HIDE DEF o
  <2>4. /\ client' \in [Clients -> [pc : {"idle", "dial", "handshake", "command", "done"}, k : 0..MaxStreams]]
        /\ told' \in [Clients -> Codes \union {"none", "error", "notready"}]
        /\ hung' \in [Streams -> BOOLEAN] /\ \A m \in Streams : m # k => (hung'[m] <=> hung[m])
        /\ client'[c].k = k /\ client'[c].pc = "done" /\ told'[c] = o
        /\ \A c2 \in Clients : c2 # c => client'[c2] = client[c2] /\ told'[c2] = told[c2]
    BY <1>3, <2>1, <2>3, ReturnFacts
  <2>5. Len(got'[c]) = job[k].wrote /\ Counting(got'[c]) /\ got' \in [Clients -> Seq(1..MaxOut)]
    BY <1>5, <1>6, <2>1, <2>3 DEF a
  <2>6. /\ \A c2 \in Clients :
               c2 # c => client'[c2] = client[c2] /\ told'[c2] = told[c2] /\ got'[c2] = got[c2]
        /\ \A m \in Streams :
               m # k => up'[m] = up[m] /\ down'[m] = down[m] /\ (hung'[m] <=> hung[m])
        /\ up' \in [Streams -> LineT]
    BY <1>5, <1>9, <1>14, <2>1, <2>4
  <2>7. /\ client'[c].pc \in {"command", "done"}
        /\ client'[c].pc = "command" => ~hung'[k] /\ told'[c] = "none"
        /\ client'[c].pc = "command" /\ ~alive => Delivering(Len(got'[c]), down'[k], job[k])
        /\ client'[c].pc = "done" =>
               \/ told'[c] \in {"error", "notready"} \/ (told'[c] = "-1" /\ ~alive)
               \/ told'[c] \in Codes /\ told'[c] = job[k].code /\ Len(got'[c]) = job[k].wrote
        /\ alive /\ client'[c].pc = "command" =>
               Commanding(Len(got'[c]), k, conn[k], down'[k], tx, job[k])
    BY <2>2, <2>3, <2>4, <2>5
  <2>8. QED
    BY <1>3, <1>9, <1>12, <1>14, <1>15, <2>4, <2>5, <2>6, <2>7, TakesKeeps, Zenon
<1>17. CASE f.t # "exit"
  <2>1. got' = [got EXCEPT ![c] = Append(got[c], f.n)] /\ client' = client /\ told' = told /\ hung' = hung
    BY <1>4, <1>17
  <2>2. f.n = a + 1 /\ a + 1 \in 1..job[k].wrote
    BY <1>11, <1>17 DEF Nth
  <2> DEFINE n == f.n
             g == Append(got[c], n)
  <2>3. n = Len(got[c]) + 1 /\ n \in 1..MaxOut /\ n = a + 1
    BY <1>10, <1>13, <2>2 DEF a
  <2>4. g \in Seq(1..MaxOut) /\ Len(g) = n /\ Counting(g)
    <3> HIDE DEF n
    <3> QED BY <1>6, <1>10, <2>3, CountingMore
  <2>5. got' = [got EXCEPT ![c] = g]
    BY <2>1
  <2> HIDE DEF g, n
  <2>6. /\ got' \in [Clients -> Seq(1..MaxOut)] /\ got'[c] = g /\ \A c2 \in Clients : c2 # c => got'[c2] = got[c2]
    BY <1>5, <2>4, <2>5
  <2>7. Len(got'[c]) = a + 1 /\ Counting(got'[c])
    BY <2>3, <2>4, <2>6
  <2>8. /\ alive /\ client'[c].pc = "command" =>
               Commanding(Len(got'[c]), k, conn[k], down'[k], tx, job[k])
    BY <1>4, <1>7, <1>9, <1>10, <1>13, <2>7, NextCommand
  <2>9. /\ \A c2 \in Clients :
               c2 # c => client'[c2] = client[c2] /\ told'[c2] = told[c2] /\ got'[c2] = got[c2]
        /\ \A m \in Streams :
               m # k => up'[m] = up[m] /\ down'[m] = down[m] /\ (hung'[m] <=> hung[m])
        /\ up' \in [Streams -> LineT]
    BY <1>5, <1>9, <1>14, <2>1, <2>6
  <2>10. /\ client' \in [Clients -> [pc : {"idle", "dial", "handshake", "command", "done"}, k : 0..MaxStreams]]
         /\ told' \in [Clients -> Codes \union {"none", "error", "notready"}]
         /\ hung' \in [Streams -> BOOLEAN] /\ client'[c].k = k
    BY <1>3, <1>5, <2>1
  <2>11. /\ client'[c].pc \in {"command", "done"}
         /\ client'[c].pc = "command" => ~hung'[k] /\ told'[c] = "none"
         /\ client'[c].pc = "command" /\ ~alive => Delivering(Len(got'[c]), down'[k], job[k])
         /\ client'[c].pc = "done" =>
               \/ told'[c] \in {"error", "notready"} \/ (told'[c] = "-1" /\ ~alive)
               \/ told'[c] \in Codes /\ told'[c] = job[k].code /\ Len(got'[c]) = job[k].wrote
    BY <1>1, <1>6, <1>9, <1>11, <2>1, <2>7
  <2>12. QED
    BY <1>3, <1>9, <1>12, <1>14, <1>15, <2>6, <2>7, <2>8, <2>9, <2>10, <2>11, TakesKeeps, Zenon
<1>18. QED
  BY <1>16, <1>17

(* The machine goes away: the clients keep what was already in their        *)
(* sockets.                                                                 *)
LEMMA StopKeeps == ASSUME IInv, Stop PROVE IInv'
<1> DEFINE gone == [NoConn EXCEPT !.st = "dropped"]
<1>1. /\ alive /\ alive' = FALSE
      /\ conn' = [k \in Streams |-> IF conn[k].st = "none" THEN conn[k] ELSE gone]
      /\ scene' = scene /\ client' = client /\ told' = told /\ got' = got /\ dialled' = dialled
      /\ hung' = hung /\ up' = up /\ down' = down /\ rx' = rx /\ backlog' = backlog /\ room' = room
      /\ irq' = irq /\ tx' = tx /\ ready' = ready /\ guest' = guest /\ sock' = sock /\ job' = job
      /\ owned' = owned /\ reaper' = reaper
  BY DEF Stop, host, uds, rings, agent
<1>2. conn \in [Streams -> ConnT] /\ gone \in ConnT /\ gone.st = "dropped"
  BY TypeParts, DroppedType DEF IInv
<1> HIDE DEF gone
<1>3. /\ conn' \in [Streams -> ConnT]
      /\ \A k \in Streams : conn'[k].st \in {"none", "dropped"} /\ (conn'[k].st = "none" <=> conn[k].st = "none")
  BY <1>1, <1>2
<1>4. TypeOK'
  <2>1. conn' \in [Streams ->
          [st : {"none", "listen", "pending", "connecting", "established", "dropped"},
           alloc : {0, GuestBuf}, fwd : 0..(Modulus - 1), tx : 0..(Modulus - 1),
           rxfwd : 0..(Modulus - 1), last : 0..(Modulus - 1), buf : Seq(Frames)]]
    BY <1>3 DEF ConnT
  <2>2. TypeOK
    BY DEF IInv
  <2>3. alive' \in BOOLEAN
    BY <1>1
  <2>4. QED
    BY <1>1, <2>1, <2>2, <2>3 DEF TypeOK
<1>5. \A k \in Streams : ThreadInv(job'[k]) /\ ChildInv(job'[k])
  BY <1>1 DEF IInv
<1>6. ReaperInv'
  BY <1>1, ReaperSame DEF IInv
<1>7. QueueInv'
  BY <1>1 DEF IInv, QueueInv
<1>8. DialInv'
  BY <1>1, <1>3 DEF IInv, DialInv
<1>9. ASSUME NEW c \in Clients PROVE ClientInv(c, client[c].k)'
  <2>1. ClientInv(c, client[c].k)
    BY DEF IInv
  <2>2. client[c].pc \in {"handshake", "command"} => client[c].k \in Streams /\ conn'[client[c].k].st # "none"
    BY <1>3, WaitingAt
  <2>3. ASSUME client[c].pc = "command" PROVE Delivering(Len(got[c]), down[client[c].k], job[client[c].k])
    <3>1. SUFFICES ASSUME NEW k \in Streams, client[c].k = k PROVE Delivering(Len(got[c]), down[k], job[k])
      BY <2>2, <2>3
    <3>2. LocalInv(k, conn[k], up[k], down[k], rx \o backlog, tx, sock[k], job[k])
      BY <1>1, GuestAt
    <3>3. QED
      BY <2>3, <3>1, <3>2 DEF LocalInv, OwnerInv, Commanding
  <2>4. client[c].pc = "done" => Outcome(c, client[c].k)'
    BY <1>1, <2>1 DEF ClientInv, Outcome
  <2>5. QED
    BY <1>1, <2>1, <2>2, <2>3, <2>4 DEF ClientInv
<1>10. QED
  BY <1>1, <1>3, <1>4, <1>5, <1>6, <1>7, <1>8, <1>9 DEF IInv

-------------------------------------------------------------------------------
(* The theorems. *)

LEMMA InitInv == Init => IInv
<1>1. SUFFICES ASSUME Init PROVE IInv
  OBVIOUS
<1>2. /\ scene \in Scenes
      /\ client = [c \in Clients |-> [pc |-> IF c \in scene.clients THEN "dial" ELSE "idle", k |-> 0]]
      /\ told = [c \in Clients |-> "none"] /\ got = [c \in Clients |-> <<>>] /\ dialled = 0
      /\ hung = [k \in Streams |-> FALSE]
      /\ up = [k \in Streams |-> <<>>] /\ down = [k \in Streams |-> <<>>]
      /\ conn = [k \in Streams |-> NoConn]
      /\ backlog = <<>> /\ rx = <<>> /\ room = RxBufs /\ irq = FALSE /\ tx = <<>>
      /\ ready = FALSE /\ guest = "boot" /\ sock = [k \in Streams |-> NoSock]
      /\ job = [k \in Streams |-> NoJob] /\ owned = {}
      /\ reaper = [pc |-> "idle", k |-> 0] /\ alive = TRUE
  BY <1>1 DEF Init
<1>3. /\ NoConn \in ConnT /\ NoSock \in SockT /\ NoJob \in JobT
      /\ <<>> \in LineT /\ <<>> \in Seq(Frames)
  <2>1. 0 \in 0..(Modulus - 1) /\ 0 \in 0..GuestBuf /\ 0 \in 0..ExecLen /\ 0 \in 0..PipeCap /\ 0 \in 0..MaxOut
    BY ModulusType, AssumeTypes
  <2>2. <<>> \in Seq(Frames) /\ <<>> \in LineT
    BY DEF LineT
  <2>3. NoConn \in ConnT
    BY <2>1, <2>2 DEF NoConn, ConnT
  <2>4. NoSock \in SockT
    BY <2>1 DEF NoSock, SockT
  <2>5. NoJob \in JobT
    BY <2>1 DEF NoJob, JobT
  <2>6. QED
    BY <2>2, <2>3, <2>4, <2>5
<1>4. TypeOK
  <2>1. /\ client \in [Clients -> [pc : {"idle", "dial", "handshake", "command", "done"}, k : 0..MaxStreams]]
        /\ told \in [Clients -> Codes \union {"none", "error", "notready"}]
        /\ got \in [Clients -> Seq(1..MaxOut)] /\ dialled \in 0..MaxStreams
    BY <1>2, AssumeTypes
  <2>2. conn \in [Streams ->
          [st : {"none", "listen", "pending", "connecting", "established", "dropped"},
           alloc : {0, GuestBuf}, fwd : 0..(Modulus - 1), tx : 0..(Modulus - 1),
           rxfwd : 0..(Modulus - 1), last : 0..(Modulus - 1), buf : Seq(Frames)]]
    BY <1>2, <1>3 DEF ConnT
  <2>3. sock \in [Streams -> [st : {"none", "queued", "open", "reset", "closed"}, rbuf : 0..GuestBuf,
                             fwd : 0..(Modulus - 1), tx : 0..(Modulus - 1), pfwd : 0..(Modulus - 1),
                             asked : BOOLEAN]]
    BY <1>2, <1>3 DEF SockT
  <2>4. job \in [Streams ->
          [pc : {"none", "read", "exec", "spawned", "wait", "join", "exit", "closed"},
           in : 0..ExecLen, code : Codes \union {"none"}, pipe : 0..PipeCap, wrote : 0..MaxOut,
           reader : {"none", "run", "ended"},
           child : {"none", "running", "zombie", "taken", "reaped"},
           fate : {"none", "exit", "signal", "killed"}, early : BOOLEAN]]
    BY <1>2, <1>3 DEF JobT
  <2>5. /\ hung \in [Streams -> BOOLEAN]
        /\ up \in [Streams -> Seq({"connect", "exec"})] /\ down \in [Streams -> Seq(Frames)]
        /\ rx \in Seq(RxPackets) /\ backlog \in Seq(RxPackets) /\ tx \in Seq(TxPackets)
        /\ irq \in BOOLEAN /\ ready \in BOOLEAN /\ alive \in BOOLEAN
        /\ guest \in {"boot", "pinged", "up", "listening"} /\ owned \subseteq Streams
    <3>1. /\ rx \in Seq(RxPackets) /\ backlog \in Seq(RxPackets) /\ tx \in Seq(TxPackets)
      BY <1>2
    <3>2. up \in [Streams -> Seq({"connect", "exec"})] /\ down \in [Streams -> Seq(Frames)]
      BY <1>2
    <3>3. hung \in [Streams -> BOOLEAN] /\ irq \in BOOLEAN /\ ready \in BOOLEAN /\ alive \in BOOLEAN
      BY <1>2
    <3>4. QED
      BY <1>2, <3>1, <3>2, <3>3
  <2>6. /\ Len(backlog) <= scene.backlog /\ Len(rx) + room = RxBufs /\ room \in 0..RxBufs
        /\ reaper \in [pc : {"idle", "peeked", "consume"}, k : 0..MaxStreams]
    <3>1. scene.backlog \in Nat
      BY <1>2, GuestExecAssumption
    <3>2. QED
      BY <1>2, <3>1, AssumeTypes
  <2>7. QED
    BY <1>2, <2>1, <2>2, <2>3, <2>4, <2>5, <2>6, Zenon DEF TypeOK
<1>5. ASSUME NEW k \in Streams PROVE ThreadInv(job[k]) /\ ChildInv(job[k])
  <2>1. job[k] = NoJob
    BY <1>2
  <2>2. ThreadInv(NoJob)
    BY DEF ThreadInv, NoJob, Executed
  <2>3. ChildInv(NoJob)
    BY DEF ChildInv, NoJob
  <2>4. QED
    BY <2>1, <2>2, <2>3
<1>6. ReaperInv
  BY <1>2 DEF ReaperInv, NoJob
<1>7. QueueInv
  BY <1>2 DEF QueueInv
<1>8. DialInv
  BY <1>2 DEF DialInv, NoConn, Streams
<1>9. ASSUME NEW c \in Clients PROVE ClientInv(c, client[c].k)
  <2>1. client[c].k = 0 /\ client[c].pc \in {"idle", "dial"} /\ got[c] = <<>> /\ told[c] = "none"
    BY <1>2
  <2>2. Counting(<<>>)
    BY DEF Counting
  <2>3. QED
    BY <1>2, <2>1, <2>2 DEF ClientInv
<1>10. AliveInv(Now, tx)
  <2>1. Wire(Now) = <<>>
    BY <1>2, ConcatEmptySeq DEF Wire, Now
  <2>2. ASSUME NEW k \in Streams
        PROVE  LocalInv(k, Now.conn[k], Now.up[k], Now.down[k], Wire(Now), tx, sock[k], job[k])
    <3>1. /\ Now.conn[k] = NoConn /\ Now.up[k] = <<>> /\ Now.down[k] = <<>> /\ tx = <<>> /\ sock[k] = NoSock
          /\ job[k] = NoJob
      BY <1>2 DEF Now
    <3>2. InFlight(<<>>, k) = 0
      <4>1. <<>> \in Seq(RxPackets) /\ \A i \in 1..Len(<<>>) : ~Carries(<<>>[i], k)
        OBVIOUS
      <4>2. QED
        BY <4>1, InFlightNone
    <3>3. Unopened(k, NoConn, <<>>, <<>>, <<>>, <<>>, NoSock, NoJob)
      BY DEF Unopened, NoConn, Silent
    <3>4. StreamInv(k, NoConn, <<>>, <<>>, <<>>, <<>>, NoSock, NoJob)
      <4>1. NoConn.st = "none" /\ NoSock.rbuf = 0
        BY DEF NoConn, NoSock
      <4>2. 0 + 0 <= GuestBuf /\ Len(<<>>) <= UdsCap
        BY AssumeTypes
      <4>3. QED
        BY <3>2, <3>3, <4>1, <4>2 DEF StreamInv, Early
    <3>5. ASSUME NEW c \in Clients PROVE client[c].pc \notin {"handshake", "command"}
      BY <1>2
    <3>6. QED
      BY <2>1, <3>1, <3>4, <3>5 DEF LocalInv, OwnerInv
  <2>3. QED
    BY <2>2 DEF AliveInv
<1>11. QED
  BY <1>2, <1>4, <1>5, <1>6, <1>7, <1>8, <1>9, <1>10 DEF IInv

LEMMA NextInv == IInv /\ [Next]_vars => IInv'
<1>1. SUFFICES ASSUME IInv, [Next]_vars PROVE IInv'
  OBVIOUS
<1>2. CASE UNCHANGED vars
  <2>1. /\ scene' = scene /\ client' = client /\ told' = told /\ got' = got /\ dialled' = dialled
        /\ hung' = hung /\ up' = up /\ down' = down /\ conn' = conn /\ rx' = rx /\ backlog' = backlog
        /\ room' = room /\ irq' = irq /\ tx' = tx /\ ready' = ready /\ guest' = guest /\ sock' = sock
        /\ job' = job /\ owned' = owned /\ reaper' = reaper /\ alive' = alive
    BY <1>2 DEF vars, host, uds, rings, agent
  <2>2. TypeOK'
    BY <1>1, <2>1 DEF IInv, TypeOK
  <2>3. ReaperInv' /\ QueueInv' /\ DialInv' /\ \A k \in Streams : ThreadInv(job'[k]) /\ ChildInv(job'[k])
    BY <1>1, <2>1, ReaperSame DEF IInv, QueueInv, DialInv
  <2>4. ASSUME NEW c \in Clients PROVE ClientInv(c, client[c].k)'
    BY <1>1, <2>1 DEF IInv, ClientInv, Outcome
  <2>5. ASSUME alive PROVE AliveInv(Now, tx)'
    <3>1. Now.conn' = Now.conn /\ Now.up' = Now.up /\ Now.down' = Now.down /\ Wire(Now)' = Wire(Now)
      BY <2>1 DEF Now, Wire
    <3>2. QED
      BY <1>1, <2>1, <2>5, <3>1 DEF IInv, AliveInv, LocalInv, OwnerInv
  <2>6. QED
    BY <1>1, <2>1, <2>2, <2>3, <2>4, <2>5 DEF IInv
<1>3. ASSUME NEW c \in Clients, ClientStep(c) PROVE IInv'
  BY <1>1, <1>3, DialKeeps, AttemptFailsKeeps, DialFailsKeeps, HandshakenKeeps, EventKeeps,
     StreamEndsKeeps, GiveUpKeeps DEF ClientStep
<1>4. CASE WorkerStep
  BY <1>1, <1>4, ProcessTxKeeps, DrainKeeps, AcceptUdsKeeps, PollPendingKeeps, ConnEventKeeps
     DEF WorkerStep
<1>5. CASE KernelStep
  BY <1>1, <1>5, PingKeeps, ListenKeeps, GuestRxKeeps DEF KernelStep
<1>6. ASSUME NEW k \in Streams, AgentStep(k) PROVE IInv'
  BY <1>1, <1>6, AcceptKeeps, ReadKeeps, ReadEndsKeeps, SpawnKeeps, ClaimKeeps, CloneFailsKeeps,
     TryWaitKeeps, DeadlineKeeps, ForwardKeeps, JoinKeeps, SendExitKeeps DEF AgentStep
<1>7. CASE ReaperStep
  BY <1>1, <1>7, PeekKeeps, AskOwnedKeeps, ConsumeKeeps DEF ReaperStep
<1>8. ASSUME NEW k \in Streams, ChildExits(k) \/ ChildWrites(k) \/ AskCredit(k) PROVE IInv'
  BY <1>1, <1>8, ChildExitsKeeps, ChildWritesKeeps, AskCreditKeeps
<1>9. CASE Stop
  BY <1>1, <1>9, StopKeeps
<1>10. QED
  BY <1>1, <1>2, <1>3, <1>4, <1>5, <1>6, <1>7, <1>8, <1>9 DEF Next, Progress

LEMMA Inductive == Spec => []IInv
BY InitInv, NextInv, PTL DEF Spec

(* Every variable keeps its type: the counters stay below the modulus, a     *)
(* rx_backlog within RX_BACKLOG_MAX (enqueue_backlog drops the oldest), the  *)
(* rx queue within the buffers the guest posted, and the guest's receive     *)
(* buffer within the buf_alloc it offered.                                   *)
THEOREM GuestExecTyped == Spec => []TypeOK
<1>1. IInv => TypeOK
  BY DEF IInv
<1>2. QED
  BY Inductive, <1>1, PTL

(* Of a stream that is open at both ends, neither direction holds more than *)
(* the receiver offered (CreditTracker in the worker, the kernel's vsock in *)
(* the guest), whatever the headers that carry the counts are overtaken by. *)
THEOREM CreditIsKept == Spec => []CreditKept
<1>1. ASSUME IInv PROVE CreditKept
  <2>1. SUFFICES ASSUME alive, NEW k \in Streams, sock[k].st \in {"queued", "open"},
                        conn[k].st = "established"
                 PROVE  /\ sock[k].rbuf + Total(UnitsTo(rx \o backlog, k)) <= GuestBuf
                        /\ Len(conn[k].buf) + Total(UnitsFrom(tx, k)) <= HostBuf
    BY DEF CreditKept
  <2>2. /\ Typed(conn[k], up[k], down[k], rx \o backlog, tx, sock[k], job[k])
        /\ LocalInv(k, conn[k], up[k], down[k], rx \o backlog, tx, sock[k], job[k])
    BY <1>1, <2>1, GuestAt
  <2>3. /\ sock[k].rbuf + InFlight(rx \o backlog, k) <= GuestBuf
        /\ HostCredit(k, conn[k], rx \o backlog, tx, sock[k])
    BY <2>1, <2>2 DEF LocalInv, StreamInv, Opened
  <2>4. Len(conn[k].buf) + InReturn(tx, k) <= HostBuf
    <3> DEFINE b == Behind(conn[k].rxfwd, sock[k].tx)
               p == Behind(sock[k].pfwd, sock[k].tx)
               n == Len(conn[k].buf) + InReturn(tx, k)
    <3>1. n = b /\ b <= p /\ p <= HostBuf
      BY <2>3 DEF HostCredit
    <3>2. b \in Int /\ p \in Int /\ HostBuf \in Int
      <4>1. conn[k].rxfwd \in Int /\ sock[k].tx \in Int /\ sock[k].pfwd \in Int
        BY <2>2, ModulusType DEF Typed, ConnT, SockT
      <4>2. b \in Int /\ p \in Int
        BY <4>1, BehindInt
      <4>3. QED
        BY <4>2, AssumeTypes
    <3> HIDE DEF b, p, n
    <3>3. n <= HostBuf
      BY <3>1, <3>2
    <3>4. QED
      BY <3>3 DEF n
  <2>5. QED
    BY <2>3, <2>4 DEF InFlight, InReturn
<1>2. QED
  BY Inductive, <1>1, PTL

(* What run_exec_over_uds_ready returns is true of the command, and comes   *)
(* after all of its output (handle_exec, its readers, PID 1's reaper and    *)
(* the worker's flush_to_uds run in between): its own code or 124 only      *)
(* after every chunk, 127 only if nothing was started, -1 only for a signal,*)
(* a machine that went away or a child that was reaped unclaimed.           *)
THEOREM ExitTrue == Spec => []ExitIsTrue
<1>1. ASSUME IInv PROVE ExitIsTrue
  <2> DEFINE True(c, k, j) ==
                /\ told[c] \in {"zero", "124"} => Len(got[c]) = j.wrote
                /\ told[c] = "zero" => j.fate = "exit"
                /\ told[c] = "124"  => j.fate # "none"
                /\ told[c] = "127"  => j.child = "none"
                /\ told[c] = "-1"   => j.fate = "signal" \/ ~alive \/ (j.child = "reaped" /\ j.early)
  <2>1. SUFFICES ASSUME NEW c \in Clients
                 PROVE  /\ got[c] = [i \in 1..Len(got[c]) |-> i]
                        /\ True(c, client[c].k, job[client[c].k])
    BY DEF ExitIsTrue
  <2>2. ClientInv(c, client[c].k)
    BY <1>1 DEF IInv
  <2>3. got[c] = [i \in 1..Len(got[c]) |-> i]
    BY <2>2 DEF ClientInv, Counting
  <2>4. ASSUME told[c] \in {"none", "error", "notready"} \/ (told[c] = "-1" /\ ~alive)
        PROVE  True(c, client[c].k, job[client[c].k])
    BY <2>4
  <2>5. ASSUME NEW k, client[c].k = k, k \in Streams, told[c] = job[k].code, Len(got[c]) = job[k].wrote
        PROVE  True(c, k, job[k])
    <3>1. ChildInv(job[k])
      BY <1>1, <2>5 DEF IInv
    <3>2. QED
      BY <2>5, <3>1 DEF ChildInv
  <2>6. \/ told[c] \in {"none", "error", "notready"} \/ (told[c] = "-1" /\ ~alive)
        \/ /\ client[c].k \in Streams /\ told[c] = job[client[c].k].code
           /\ Len(got[c]) = job[client[c].k].wrote
    BY <2>2 DEF ClientInv, Outcome
  <2>7. True(c, client[c].k, job[client[c].k])
    <3> HIDE DEF True
    <3> QED BY <2>4, <2>5, <2>6
  <2>8. QED
    BY <2>3, <2>7
<1>2. QED
  BY Inductive, <1>1, PTL
===============================================================================
