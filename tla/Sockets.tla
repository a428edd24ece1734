------------------------------- MODULE Sockets -------------------------------
(***************************************************************************)
(* src/src/net: the sockets of a program, and src/src/net/dyn75, the calls *)
(* that pass them to the emulator.                                         *)
(*                                                                         *)
(* The emulator's socket table (so.host, external) is shared by all        *)
(* programs and gives a number again as soon as it is closed.  The program *)
(* lists the sockets it opened (so.array, under a lock), each with a block *)
(* that remembers its addresses (so.entries).  The calls of several        *)
(* threads interleave: a call is a step for each request of the emulator   *)
(* and each section under the list's lock.  The conversions of addresses   *)
(* are at the end.                                                         *)
(***************************************************************************)
EXTENDS Array
LOCAL INSTANCE SequencesExt
LOCAL INSTANCE FiniteSetsExt
LOCAL INSTANCE Functions
LOCAL INSTANCE Folds

CONSTANTS
    SoTasks,            \* the threads of the program
    SoNumbers,          \* the numbers of sockets
    SoForeign,          \* those of them another program has open
    FD_SETSIZE,         \* the entries the list begins with
    SoNames, SoPeers    \* local and remote addresses

ASSUME SoAssumption ==
    /\ SoForeign \subseteq SoNumbers /\ IsFiniteSet(SoNumbers) /\ IsFiniteSet(SoTasks)
    /\ FD_SETSIZE \in Nat /\ "" \notin SoNames \cup SoPeers

VARIABLE so             \* the emulator's sockets, the program's list, the calls under way

NotOpen == [open |-> FALSE, own |-> FALSE, name |-> "", given |-> "", peer |-> ""]
SoIdle == [step |-> "idle", ss |-> 0, name |-> "", peer |-> "", at |-> NULL]
SoClear ==
    [host |-> [ss \in SoNumbers |-> IF ss \in SoForeign THEN [NotOpen EXCEPT !.open = TRUE] ELSE NotOpen],
     array |-> NoArray, entries |-> <<>>, sockinit |-> FALSE, ended |-> FALSE, doing |-> [t \in SoTasks |-> SoIdle],
     lost |-> {}, unlisted |-> {}, mixed |-> {}, wild |-> FALSE]
SoInit == so = SoClear
SoCall(faults) ==
    LET c == Begin(faults)
    IN  [f \in DOMAIN so \cup DOMAIN c \cup {"err"} |->
            IF f = "err" THEN 0 ELSE IF f \in DOMAIN so THEN so[f] ELSE c[f]]
SoEnd(c, r) == so' = [f \in DOMAIN so |-> c[f]] /\ End(c, r)

----------------------------------------------------------------------------
(* The list.                                                               *)

NewSocket(ss, name, peer) == [socket |-> ss, name |-> name, peer |-> peer]
ListedSockets(c) == {c.array.slots[i] : i \in 1 .. c.array.count}

WithEntry(entries, at, s) == [e \in DOMAIN entries \cup {at} |-> IF e = at THEN s ELSE entries[e]]

\* __soadd does not look at what arrayadd answers: a socket that could not
\* be listed stays open when the program ends, and its block is lost.
AddedSocket(c, at, ss) ==
    IF c.err = 0 THEN c
    ELSE [c EXCEPT !.lost = @ \cup {ss}, !.unlisted = @ \cup {at}, !.entries = [e \in DOMAIN @ \ {at} |-> @[e]]]
AddSocket(c, ss, name, peer) ==
    IF c.got = NULL THEN [c EXCEPT !.lost = @ \cup {ss}]
    ELSE AddedSocket(arrayadd([c EXCEPT !.entries = WithEntry(@, c.got, NewSocket(ss, name, peer))], c.got), c.got, ss)
__soadd(c, ss, name, peer) == AddSocket(Obtain(c, "socket"), ss, name, peer)

\* The first entry of a number, 0 when there is none.
Places(c, ss) == {i \in 1 .. c.array.count : c.entries[c.array.slots[i]].socket = ss}
__sofind(c, ss) == IF Places(c, ss) = {} THEN 0 ELSE CHOOSE i \in Places(c, ss) : \A j \in Places(c, ss) : i =< j
Entry(c, ss) == IF __sofind(c, ss) = 0 THEN NULL ELSE c.array.slots[__sofind(c, ss)]

\* A fault: the block is freed and its entry stays.
__sodel_Stays(c, ss) == Release(c, Entry(c, ss))

DropEntry(c) == IF c.got = NULL THEN c ELSE [Release(c, c.got) EXCEPT !.entries = [e \in DOMAIN @ \ {c.got} |-> @[e]]]
__sodel(c, ss) == IF __sofind(c, ss) = 0 THEN c ELSE DropEntry(arraydel(c, __sofind(c, ss)))

\* __soupd: only a socket the program lists.  The entry is found under the
\* lock and written after it.  By then it may be freed, and what is written
\* there is wild, or its block may be the entry of another socket.
Mixed(c, ss, at) == IF c.entries[at].socket = ss THEN {} ELSE {c.entries[at].socket}
Rewritten(old, name, peer) ==
    NewSocket(old.socket, IF name = "" THEN old.name ELSE name, IF peer = "" THEN old.peer ELSE peer)
PutEntry(c, ss, at, name, peer) ==
    IF at = NULL THEN c
    ELSE IF at \notin DOMAIN c.entries THEN [c EXCEPT !.wild = @ \/ ss \notin c.mixed \cup c.lost]
    ELSE [c EXCEPT !.mixed = @ \cup Mixed(c, ss, at), !.entries[at] = Rewritten(@, name, peer)]

----------------------------------------------------------------------------
(* The emulator (external).  so.mixed are the sockets whose entries may    *)
(* hold what is another's: those that were given a number the list still   *)
(* had, and those whose entries __soupd() took for another's.              *)

HostOpened(c, ss, name, peer) ==
    [c EXCEPT !.host[ss] = [open |-> TRUE, own |-> TRUE, name |-> name, given |-> "", peer |-> peer],
              !.mixed = IF Entry(c, ss) = NULL THEN @ ELSE @ \cup {ss}]
HostNames(c, ss, name, given, peer) == [c EXCEPT !.host[ss] = [@ EXCEPT !.name = name, !.given = given, !.peer = peer]]

\* __75clr: function 12.
__75clr(c, ss) == [c EXCEPT !.host[ss] = NotOpen, !.lost = @ \ {ss}]

\* What getsockname() and getpeername() find: what the list remembers of
\* the socket, or what the emulator answers, "" when it has no answer.
Remembered(c, ss, which) == IF Entry(c, ss) = NULL THEN "" ELSE c.entries[Entry(c, ss)][which]
AskedName(c, ss, which) == IF Remembered(c, ss, which) # "" THEN Remembered(c, ss, which) ELSE c.host[ss][which]
__75snam(c, ss) == AskedName(c, ss, "name")
__75pnam(c, ss) == AskedName(c, ss, "peer")

----------------------------------------------------------------------------
(* Calls of the threads.  A thread uses a socket that is open and that no  *)
(* other thread is working on; one that another thread has just closed may *)
(* be open again, under the same number.                                   *)

SoAt(t, step, ss, name, peer, at) == [step |-> step, ss |-> ss, name |-> name, peer |-> peer, at |-> at]
Go(c, t, d) ==
    /\ so' = [f \in DOMAIN so |-> IF f = "doing" THEN [c.doing EXCEPT ![t] = d] ELSE c[f]]
    /\ ledger' = [held |-> c.held, twice |-> c.twice] /\ UNCHANGED result
SoDone(c, t) == Go(c, t, SoIdle)
CanStart(t) == Ready /\ ~so.ended /\ so.doing[t] = SoIdle
Known(ss, addresses) == IF ss \in SoForeign THEN {CHOOSE a \in addresses : TRUE} ELSE addresses
Works(t, ss) == so.doing[t].ss = ss /\ so.doing[t].step \notin {"idle", "del"}
Own(ss) == so.host[ss].open /\ \A u \in SoTasks : ~Works(u, ss)
In(t, step) == Ready /\ so.doing[t].step = step
Was(t) == so.doing[t]

\* __75init: the list is made for FD_SETSIZE sockets, and the emulator is
\* told; a list that cannot be made is made by the first __soadd.
__75init(c) ==
    IF c.sockinit THEN c
    ELSE [(IF c.array.block = NULL THEN arraynew(c, FD_SETSIZE) ELSE c) EXCEPT !.sockinit = TRUE]

\* The errors socket() passes on; any other is ENOBUFS.
SocketErrors == {"EMFILE", "ENFILE", "ENOBUFS", "ENOMEM", "EACCES", "EAFNOSUPPORT", "EPROTONOSUPPORT", "EPROTOTYPE", "EINVAL"}
SocketErrno(hosts) == IF hosts \in SocketErrors THEN hosts ELSE "ENOBUFS"
socket(t) ==
    /\ CanStart(t)
    /\ \E fault \in OneFault(1) :
          LET c == __75init(SoCall(fault))
          IN  \/ \E ss \in SoNumbers : ~so.host[ss].open /\ Go(HostOpened(c, ss, "", ""), t, SoAt(t, "add", ss, "", "", NULL))
              \/ SoDone(c, t)

\* accept() repeats its request until a connection is there.  A peer that
\* has gone has no address any more.
accept(t) ==
    /\ CanStart(t) /\ \E listener \in SoNumbers : Own(listener) /\ so.host[listener].peer = ""
    /\ \E ss \in SoNumbers, name \in SoNames, peer \in SoPeers \cup {""} :
          ~so.host[ss].open /\ Go(HostOpened(SoCall({}), ss, name, peer), t, SoAt(t, "snam", ss, "", "", NULL))
SockName(t) == In(t, "snam") /\ Go(SoCall({}), t, SoAt(t, "addnamed", Was(t).ss, __75snam(so, Was(t).ss), "", NULL))
AddSock(t) ==
    /\ In(t, "add") \/ In(t, "addnamed")
    /\ \E fault \in IF so.unlisted = {} THEN OneFault(2) ELSE {{}} :
          LET c == __soadd(SoCall(fault), Was(t).ss, Was(t).name, "")
          IN  IF Was(t).step = "add" THEN SoDone(c, t)
              ELSE Go(c, t, SoAt(t, "pnam", Was(t).ss, Was(t).name, "", NULL))

\* The address getpeername() leaves alone is still the local one.
PeerName(t) ==
    /\ In(t, "pnam")
    /\ LET p == __75pnam(so, Was(t).ss)
       IN  Go(SoCall({}), t, SoAt(t, "upd", Was(t).ss, "", IF p = "" THEN Was(t).name ELSE p, NULL))
Find(t) == In(t, "upd") /\ Go(SoCall({}), t, [Was(t) EXCEPT !.step = "put", !.at = Entry(so, Was(t).ss)])
PutNames(t) == In(t, "put") /\ SoDone(PutEntry(SoCall({}), Was(t).ss, Was(t).at, Was(t).name, Was(t).peer), t)

\* bind(): a port that is given or, for the port 0, one of the random ones
\* that are tried first; the emulator chooses (zero) when all of these are
\* taken, and the list remembers the port 0.
bind(t) ==
    /\ CanStart(t)
    /\ \E ss \in SoNumbers, name \in SoNames, zero \in BOOLEAN :
          /\ Own(ss) /\ so.host[ss].own /\ so.host[ss].name = ""
          /\ LET given == IF zero THEN "port 0" ELSE name
             IN  Go(HostNames(SoCall({}), ss, name, given, so.host[ss].peer), t, SoAt(t, "upd", ss, given, "", NULL))

\* connect(): a connection that is not there at once is tested once more.
WAIT == -2
ConnectRc(replies) ==
    IF replies[1] # WAIT THEN [rc |-> replies[1], errno |-> IF replies[1] = -1 THEN "host" ELSE ""]
    ELSE IF replies[2] # WAIT THEN [rc |-> replies[2], errno |-> IF replies[2] = -1 THEN "host" ELSE ""]
    ELSE [rc |-> -1, errno |-> "ECONNREFUSED"]
connect(t) ==
    /\ CanStart(t)
    /\ \E ss \in SoNumbers, name \in SoNames, peer \in SoPeers :
          /\ Own(ss) /\ so.host[ss].peer = "" /\ name \in Known(ss, SoNames) /\ peer \in Known(ss, SoPeers)
          /\ LET local == IF so.host[ss].name = "" THEN name ELSE so.host[ss].name
             IN  Go(HostNames(SoCall({}), ss, local, so.host[ss].given, peer), t, SoAt(t, "conn", ss, "", peer, NULL))
Connected(t) == In(t, "conn") /\ Go(SoCall({}), t, SoAt(t, "upd", Was(t).ss, __75snam(so, Was(t).ss), Was(t).peer, NULL))

\* closesocket(): the emulator first, then the list.
closesocket(t) ==
    /\ CanStart(t)
    /\ \E ss \in SoNumbers : Own(ss) /\ so.host[ss].own /\ Go(__75clr(SoCall({}), ss), t, SoAt(t, "del", ss, "", "", NULL))
\* The entry deleted is the first one of the number: that of a socket
\* another thread has opened since, when the closed one was not listed.
Listing(ss) == \E t \in SoTasks : so.doing[t].ss = ss /\ so.doing[t].step \in {"add", "snam", "addnamed"}
Closed1(c, ss) ==
    IF ~so.host[ss].open THEN [c EXCEPT !.mixed = @ \ {ss}]
    ELSE IF Entry(c, ss) = NULL /\ ~Listing(ss) THEN [c EXCEPT !.lost = @ \cup {ss}] ELSE c
Unlist(t) ==
    In(t, "del") /\ SoDone(Closed1(__sodel(SoCall({}), Was(t).ss), Was(t).ss), t)

----------------------------------------------------------------------------
(* The end of the program.                                                 *)

\* Every socket listed is closed, the last one first.
Forget(c, sockets) ==
    [c EXCEPT !.entries = <<>>, !.array.count = 0, !.lost = @ \ sockets,
              !.host = [ss \in SoNumbers |-> IF ss \in sockets THEN NotOpen ELSE @[ss]]]
__soend(c) ==
    IF c.array.block = NULL THEN c
    ELSE arrayfree(Forget(ReleaseAll(c, Reverse(Items(c))), {c.entries[at].socket : at \in ListedSockets(c)}))

\* __exit(), and __ppahrv() for a linked program that abended: __soend.  An
\* abend nothing recovers gives control to soexit, which does the same and
\* percolates - if __soestae could establish it when the program started.
ProgramEnds(how, estae) == IF how = "abend" /\ ~estae THEN SoCall({}) ELSE __soend(SoCall({}))
__soexit ==
    /\ Ready /\ ~so.ended /\ \A t \in SoTasks : so.doing[t] = SoIdle
    /\ \E how \in {"exit", "abend", "linked"}, estae \in BOOLEAN :
          SoEnd([ProgramEnds(how, estae) EXCEPT !.ended = TRUE], [op |-> "ended", closed |-> how # "abend" \/ estae])

\* The storage goes with the task; the sockets left open stay so until
\* someone closes the number.
OwnsSockets(c) == {c.array.block} \cup DOMAIN c.entries \cup c.unlisted
NextProgram ==
    /\ Ready /\ so.ended
    /\ so' = SoClear /\ UNCHANGED result
    /\ ledger' = [ledger EXCEPT !.held = @ \ OwnsSockets(so)]

----------------------------------------------------------------------------
(* Calls that move data: what one call makes of the emulator's replies.    *)

CONSTANTS
    SEND_SEG, SEND_STALL_MAX, RECV_CHUNK,   \* 256, 100 and 256
    SoReplies,          \* sequences of replies: bytes, 0, -1 or WAIT
    SoLengths,           \* the lengths asked for
    SoWaits,             \* what select() waits for
    HOSTN               \* the length of a host's name kept

Lesser(a, b) == IF a < b THEN a ELSE b
NoTransfer == [moved |-> 0, rc |-> 0, waits |-> 0, over |-> FALSE]

\* recv() asks for the rest, RECV_CHUNK at most, until it has all of it or
\* the reply is neither bytes nor WAIT.
RecvReply(len, reply, r) ==
    IF r.over \/ r.moved >= len THEN r
    ELSE IF reply = WAIT THEN [r EXCEPT !.rc = 0, !.waits = @ + 1]
    ELSE IF reply =< 0 THEN [r EXCEPT !.rc = reply, !.over = TRUE]
    ELSE LET n == Lesser(reply, Lesser(len - r.moved, RECV_CHUNK)) IN [r EXCEPT !.rc = n, !.moved = @ + n]
Received(len, replies) == FoldLeft(LAMBDA r, reply : RecvReply(len, reply, r), NoTransfer, replies)
RecvResult(r, len, replies) ==
    [op |-> "recv", rc |-> IF r.moved > 0 THEN r.moved ELSE r.rc, errno |-> IF r.over /\ r.rc = -1 THEN "host" ELSE "",
     len |-> len, replies |-> replies]
recv ==
    /\ Ready
    /\ \/ \E replies \in SoReplies, len \in SoLengths :
             LET r == Received(len, replies)
             IN  /\ r.over \/ r.moved >= len
                 /\ SoEnd(SoCall({}), RecvResult(r, len, replies))
       \/ SoEnd(SoCall({}), [op |-> "recv", rc |-> -1, errno |-> "EPERM", len |-> 0, replies |-> <<>>])

\* send() gives one segment to the emulator, and tries again while the
\* send buffer is full.
SendReply(len, reply, r) ==
    IF r.over THEN r
    ELSE IF reply # WAIT THEN [r EXCEPT !.rc = Lesser(reply, Lesser(len, SEND_SEG)), !.over = TRUE]
    ELSE [r EXCEPT !.rc = IF r.waits = SEND_STALL_MAX THEN -1 ELSE 0, !.waits = @ + 1, !.over = r.waits = SEND_STALL_MAX]
Sent(len, replies) == FoldLeft(LAMBDA r, reply : SendReply(len, reply, r), NoTransfer, replies)
SendErrno(r) == IF r.waits > SEND_STALL_MAX THEN "EWOULDBLOCK" ELSE IF r.rc = -1 THEN "host" ELSE ""
send ==
    /\ Ready
    /\ \E replies \in SoReplies, len \in SoLengths :
          LET r == Sent(len, replies)
          IN  r.over /\ SoEnd(SoCall({}), [op |-> "send", rc |-> r.rc, errno |-> SendErrno(r), len |-> len, replies |-> replies])

\* The ECBs looked at: all that an array holds, or those of a list up to
\* the end of it, an entry of 0 or X'80000000', or one with the high bit.
Looked(w) ==
    IF w.isarray THEN w.ecbs
    ELSE SubSeq(w.ecbs, 1, Min({i \in DOMAIN w.ecbs : w.ecbs[i].kind # "ecb"} \cup {Len(w.ecbs)}))
Posted(w, tick) == \E i \in DOMAIN Looked(w) : Looked(w)[i].kind \in {"ecb", "last"} /\ Looked(w)[i].at =< tick

\* selectex() asks once in every tick of 0.08 seconds.  w.usec is the time
\* to wait, if w.timed; the sockets are ready at the tick w.ready.
LastTick == 8
\* A fault: what is left of an interval is cut off.
Ticks_Cut(usec) == usec \div 80000
Ticks(usec) == (((usec + 9999) \div 10000) + 7) \div 8
SelectEnd(w, tick, why, rc) == [why |-> why, tick |-> tick, rc |-> rc]
Selected(w) ==
    LET from[tick \in 0 .. LastTick + 1] ==
            IF w.ready =< tick THEN SelectEnd(w, tick, "ready", w.rc)
            ELSE IF w.timed /\ tick = Ticks(w.usec) THEN SelectEnd(w, tick, "timeout", 0)
            ELSE IF Posted(w, tick) THEN SelectEnd(w, tick, "posted", 0)
            ELSE from[tick + 1]
    IN  from[0]
\* The requests of the emulator's conversation: the sets go out (1 to 3),
\* 4 asks, the sets come back (5 to 7) and 8 ends.
Sets(w, first) == SelectSeq([i \in 1 .. 3 |-> IF i \in w.sets THEN first + i - 1 ELSE 0], LAMBDA code : code # 0)
Conversation(w) == <<0>> \o Sets(w, 1) \o <<4>> \o Sets(w, 5) \o <<8>>
SelectResult(w) ==
    LET s == IF w.maxsock < 2 THEN SelectEnd(w, 0, "none", 0) ELSE Selected(w)
    IN  [op |-> "select", w |-> w, why |-> s.why, tick |-> s.tick, rc |-> s.rc,
         errno |-> IF s.rc = -1 THEN "ENOTSOCK" ELSE "", codes |-> IF w.maxsock < 2 THEN <<>> ELSE Conversation(w)]
selectex ==
    /\ Ready
    /\ \E w \in SoWaits :
          /\ w.timed \/ w.ready =< LastTick \/ Posted(w, LastTick)
          /\ SoEnd(SoCall({}), SelectResult(w))

\* ioctlsocket(): FIONBIO gives the emulator a value, any other command
\* gets one, which is stored when the request succeeded.
ioctlsocket ==
    /\ Ready
    /\ \E fionbio, arg \in BOOLEAN, value \in 0 .. 1, reply \in {-1, 0, 7} :
          SoEnd(SoCall({}), [op |-> "ioctl", rc |-> IF reply = -1 THEN -1 ELSE 0, errno |-> IF reply = -1 THEN "host" ELSE "",
                             given |-> IF fionbio /\ arg THEN value ELSE 0, reply |-> reply, fionbio |-> fionbio,
                             stored |-> IF reply # -1 /\ arg /\ ~fionbio THEN reply ELSE value, value |-> value, arg |-> arg])
Tried(replies, r) == [op |-> "tried", replies |-> replies, rc |-> r.rc, errno |-> r.errno]
ConnectReplies == {<<0, 0>>, <<-1, 0>>, <<WAIT, 0>>, <<WAIT, -1>>, <<WAIT, WAIT>>}
CallsThatFail ==
    /\ Ready
    /\ \/ \E hosts \in {"EMFILE", "EIO"} : SoEnd(SoCall({}), [op |-> "refused", rc |-> -1, errno |-> SocketErrno(hosts)])
       \/ \E replies \in ConnectReplies : SoEnd(SoCall({}), Tried(replies, ConnectRc(replies)))
listen == Ready /\ \E rc \in {-1, 0} : SoEnd(SoCall({}), [op |-> "listen", rc |-> rc, errno |-> IF rc = 0 THEN "" ELSE "host"])

\* The names of hosts: asked of the emulator, and kept for the thread,
\* HOSTN - 1 characters of them at most.
KeptName(name) == SubSeq(name, 1, Lesser(Len(name), HOSTN - 1))
getaddrbyname(name, hosts) == IF name = <<>> THEN 0 ELSE hosts
gethostbyname ==
    /\ Ready
    /\ \E n \in 0 .. HOSTN + 2, hosts \in {0, 5} :
          LET name == [i \in 1 .. n |-> i]
          IN  SoEnd(SoCall({}), [op |-> "hostbyname", name |-> name, addr |-> getaddrbyname(name, hosts), hosts |-> hosts,
                                 kept |-> IF getaddrbyname(name, hosts) = 0 THEN <<>> ELSE KeptName(name)])
gethostbyaddr ==
    /\ Ready
    /\ \E n \in 0 .. HOSTN + 2 :
          LET name == [i \in 1 .. n |-> i]
          IN  SoEnd(SoCall({}), [op |-> "hostbyaddr", name |-> name, addr |-> 5, hosts |-> 5, kept |-> IF n = 0 THEN <<>> ELSE KeptName(name)])

----------------------------------------------------------------------------
(* Addresses in text form.  A character is a digit 0 to 15 (10 and more    *)
(* are the letters of base 16), X, DOT, BLANK (or tab or newline) or what  *)
(* ends a text.  OCTET is 256 in the program.                              *)

CONSTANTS
    OCTET,              \* the values of a part of an address
    SoTexts,              \* texts
    Addresses           \* addresses, each a sequence of four parts

X == 16
DOT == 17
BLANK == 18
SoEnd0 == 99            \* the end of a text
CharAt(text, i) == IF i \in DOMAIN text THEN text[i] ELSE SoEnd0
Pow(base, n) == FoldLeft(LAMBDA p, i : p * base, 1, [i \in 1 .. n |-> i])

\* number: from position at, the value of the digits of its base and the
\* position after them, 0 when there is no number or it does not fit.
NoNumber == [val |-> 0, next |-> 0]
Base(text, at) == IF CharAt(text, at) # 0 THEN 10 ELSE IF CharAt(text, at + 1) = X THEN 16 ELSE 8
Lead1(text, at) == IF CharAt(text, at) # 0 THEN 0 ELSE IF CharAt(text, at + 1) = X THEN 2 ELSE 1
Digit(base, val, d) == IF val > (Pow(OCTET, 4) - 1 - d) \div base THEN -1 ELSE val * base + d
SoValue(text, base, from) ==
    LET val[i \in from .. Len(text) + 1] ==
            IF i = from THEN 0 ELSE IF val[i - 1] = -1 THEN -1 ELSE Digit(base, val[i - 1], text[i - 1])
    IN  val
DigitsEnd(text, base, from) == Min({i \in from .. Len(text) : text[i] >= base} \cup {Len(text) + 1})
NumberOf(text, base, from, to, any) ==
    IF SoValue(SubSeq(text, 1, to - 1), base, from)[to] = -1 \/ ~(any \/ to > from) THEN NoNumber
    ELSE [val |-> SoValue(SubSeq(text, 1, to - 1), base, from)[to], next |-> to]
NumberFrom(text, at, base, from) == NumberOf(text, base, from, DigitsEnd(text, base, from), base = 8)
inet_number(text, at) ==
    IF CharAt(text, at) > 9 THEN NoNumber ELSE NumberFrom(text, at, Base(text, at), at + Lead1(text, at))

\* inet_aton: one to four numbers; the last fills the parts left.
AtonBad == [ok |-> FALSE, parts |-> <<>>, next |-> 0]
AtonStep(text, n, so_far) ==
    IF n.next = 0 \/ (CharAt(text, n.next) = DOT /\ Len(so_far.parts) = 3) THEN AtonBad
    ELSE [ok |-> CharAt(text, n.next) # DOT, parts |-> Append(so_far.parts, n.val),
          next |-> IF CharAt(text, n.next) = DOT THEN n.next + 1 ELSE n.next]
AtonParts(text) ==
    LET parts[i \in 0 .. 4] ==
            IF i = 0 THEN [AtonBad EXCEPT !.next = 1]
            ELSE IF parts[i - 1].ok \/ parts[i - 1].next = 0 THEN parts[i - 1]
            ELSE AtonStep(text, inet_number(text, parts[i - 1].next), parts[i - 1])
    IN  parts[4]

AtonValid(text, p) ==
    /\ p.ok /\ CharAt(text, p.next) \in {BLANK, SoEnd0}
    /\ \A i \in 1 .. Len(p.parts) - 1 : p.parts[i] < OCTET
    /\ p.parts[Len(p.parts)] < Pow(OCTET, 5 - Len(p.parts))
AtonAddress(parts) ==
    [i \in 1 .. 4 |-> IF i < Len(parts) THEN parts[i] ELSE (parts[Len(parts)] \div Pow(OCTET, 4 - i)) % OCTET]
AtonResult(text, p) == IF AtonValid(text, p) THEN AtonAddress(p.parts) ELSE <<>>
inet_aton(text) == AtonResult(text, AtonParts(text))
\* inet_addr: INADDR_NONE when it is none.
INADDR_NONE == <<OCTET - 1, OCTET - 1, OCTET - 1, OCTET - 1>>
inet_addr(text) == IF inet_aton(text) = <<>> THEN INADDR_NONE ELSE inet_aton(text)

\* inet_pton: four decimal numbers without leading zeros.
PtonDigit(v, d) == IF v = -1 \/ v = 0 \/ (v = -2 /\ d > 9) THEN -1 ELSE IF v = -2 THEN d ELSE IF v * 10 + d < OCTET THEN v * 10 + d ELSE -1
PtonPart(chars) == IF \E i \in DOMAIN chars : chars[i] > 9 THEN -1 ELSE FoldLeft(PtonDigit, -2, chars)
PtonParts(text, dots) ==
    [i \in 1 .. Len(dots) - 1 |-> PtonPart(SubSeq(text, dots[i] + 1, dots[i + 1] - 1))]
Dots(text) == <<0>> \o SelectSeq([i \in DOMAIN text |-> i], LAMBDA i : text[i] = DOT) \o <<Len(text) + 1>>
PtonResult(parts) == IF Len(parts) = 4 /\ \A i \in DOMAIN parts : parts[i] >= 0 THEN parts ELSE <<>>
inet_pton(text) == PtonResult(PtonParts(text, Dots(text)))

\* inet_ntop: each part with the digits it needs, and the end of the text.
NtopPart(b) == IF b >= 100 THEN <<b \div 100, (b \div 10) % 10, b % 10>> ELSE IF b >= 10 THEN <<b \div 10, b % 10>> ELSE <<b>>
NtopText(a) == NtopPart(a[1]) \o <<DOT>> \o NtopPart(a[2]) \o <<DOT>> \o NtopPart(a[3]) \o <<DOT>> \o NtopPart(a[4])
inet_ntop(a, size) == IF Len(NtopText(a)) + 1 > size THEN <<>> ELSE NtopText(a)
\* inet_ntoa is inet_ntop into a buffer of the process.
INET_ADDRSTRLEN == 16
inet_ntoa(a) == inet_ntop(a, INET_ADDRSTRLEN)

inet_texts ==
    Ready /\ \E text \in SoTexts : SoEnd(SoCall({}), [op |-> "aton", text |-> text, aton |-> inet_aton(text), addr |-> inet_addr(text), pton |-> inet_pton(text)])
inet_addresses ==
    /\ Ready
    /\ \E a \in Addresses, size \in {7, 15, 16} :
          SoEnd(SoCall({}), [op |-> "ntop", a |-> a, size |-> size, ntop |-> inet_ntop(a, size),
                             aton |-> inet_aton(inet_ntoa(a)), pton |-> inet_pton(inet_ntoa(a))])

----------------------------------------------------------------------------
SoMoves == recv \/ CallsThatFail \/ send \/ selectex \/ ioctlsocket \/ listen \/ gethostbyname \/ gethostbyaddr \/ inet_texts \/ inet_addresses
SoNext ==
    \/ \E t \in SoTasks :
          \/ socket(t) \/ accept(t) \/ SockName(t) \/ AddSock(t) \/ PeerName(t) \/ Find(t) \/ PutNames(t)
          \/ bind(t) \/ connect(t) \/ Connected(t) \/ closesocket(t) \/ Unlist(t)
    \/ __soexit \/ NextProgram
    \/ so = SoClear /\ SoMoves
    \/ See /\ UNCHANGED so

SoSpec == LedgerInit /\ SoInit /\ [][SoNext]_<<ledger, result, so>>

SoOwns == OwnsSockets(so) \ {NULL}

\* What the emulator has open for the program is what the list has, each
\* once, in a block that is there, but for the sockets that could not be
\* listed: between the calls of all threads, in whatever order their
\* requests and their updates of the list came.  At the end of the program
\* nothing it listed stays open, and a socket of another program does.
SocketsAreListed ==
    LET own == {ss \in SoNumbers : so.host[ss].own}
    IN  /\ (\A t \in SoTasks : so.doing[t] = SoIdle) /\ ~so.ended =>
              /\ own = {so.entries[at].socket : at \in DOMAIN so.entries} \cup so.lost
              /\ Cardinality(DOMAIN so.entries) + Cardinality(so.lost) = Cardinality(own)
              /\ ListedSockets(so) = DOMAIN so.entries /\ so.array.count = Cardinality(own \ so.lost)
        /\ so.array.count =< so.array.size
        /\ result.op = "ended" /\ result.closed => own = so.lost /\ SoOwns = so.unlisted
        /\ \A ss \in SoForeign : so.host[ss].open /\ ~so.host[ss].own

\* getsockname() and getpeername() answer with an address of the socket,
\* the one the emulator has or the one given to bind(), however the list
\* came to remember it - unless the number was given again while the entry
\* of the former socket was still in the list, or a late __soupd() found
\* the block it writes given to this socket.
AnswersOwn(ss) ==
    /\ so.host[ss].name # "" => __75snam(so, ss) \in {so.host[ss].name, so.host[ss].given}
    /\ so.host[ss].peer # "" => __75pnam(so, ss) = so.host[ss].peer
AtRest(ss) == so.host[ss].open /\ \A t \in SoTasks : so.doing[t].step # "idle" => so.doing[t].ss # ss
NamesAreOwn == ~so.wild /\ \A ss \in SoNumbers \ so.mixed : AtRest(ss) => AnswersOwn(ss)

\* Nothing that arrived is lost: recv() answers with all the bytes up to
\* what was asked for, or to the end or an error; an error after bytes is
\* not reported.  send() gives up after SEND_STALL_MAX tries.
First(replies, stops) == Min({i \in DOMAIN replies : replies[i] \in stops} \cup {Len(replies) + 1})
Arrived(replies, upto) == FoldLeft(LAMBDA sum, x : sum + (IF x > 0 THEN Lesser(x, RECV_CHUNK) ELSE 0), 0, SubSeq(replies, 1, upto))
TransfersAreWhole ==
    /\ result.op = "recv" /\ result.errno # "EPERM" =>
          LET last == First(result.replies, {0, -1})
              got == Lesser(Arrived(result.replies, last - 1), result.len)
          IN  IF got > 0 THEN result.rc = got ELSE result.rc = IF last > Len(result.replies) \/ result.len = 0 THEN 0 ELSE result.replies[last]
    /\ result.op = "send" =>
          LET first == First(result.replies, 0 .. 100 \cup {-1})
          IN  IF first > SEND_STALL_MAX + 1 THEN result.rc = -1 /\ result.errno = "EWOULDBLOCK"
              ELSE result.rc = Lesser(result.replies[first], Lesser(result.len, SEND_SEG))

\* select() waits for its time and for less than one interval more, unless
\* a socket is ready or an ECB posted first, and gives back the sets it
\* was given in a conversation it ends.
SelectIsOnTime == result.op = "select" /\ result.why # "none" =>
    LET w == result.w
    IN  /\ result.why = "ready" <=> w.ready = result.tick
        /\ result.why = "timeout" =>
              result.tick * 80000 >= w.usec /\ w.usec > (result.tick - 1) * 80000 /\ w.ready > result.tick
        /\ result.why = "posted" => (w.timed => result.tick * 80000 < w.usec) /\ Posted(w, result.tick)
        /\ result.why # "posted" => ~Posted(w, result.tick - 1)
        /\ Head(result.codes) = 0 /\ result.codes[Len(result.codes)] = 8
        /\ \A i \in 1 .. 3 : i \in ToSet(result.codes) <=> i + 4 \in ToSet(result.codes)
        /\ result.rc = -1 <=> result.errno = "ENOTSOCK"

\* The forms of an address: what inet_aton() takes is one to four numbers
\* in range, up to a blank; inet_pton() takes some of these and agrees;
\* what inet_ntop() makes both take back.
Piece(text, i) == SubSeq(text, Dots(text)[i] + 1, Dots(text)[i + 1] - 1)
PieceBase(p) == IF Len(p) = 0 \/ p[1] # 0 THEN 10 ELSE IF Len(p) > 1 /\ p[2] = X THEN 16 ELSE 8
PieceDigits(p) == SubSeq(p, IF PieceBase(p) = 16 THEN 3 ELSE 1, Len(p))
PieceOk(p) == Len(PieceDigits(p)) > 0 /\ p[1] < 10 /\ \A i \in DOMAIN PieceDigits(p) : PieceDigits(p)[i] < PieceBase(p)
PieceValue(p) == FoldLeft(LAMBDA v, d : IF v > Pow(OCTET, 4) THEN v ELSE v * PieceBase(p) + d, 0, PieceDigits(p))
UpToBlank(text) == SubSeq(text, 1, First(text, {BLANK}) - 1)
IsAddress(text, n) ==
    /\ n \in 1 .. 4 /\ \A i \in 1 .. n : PieceOk(Piece(text, i))
    /\ \A i \in 1 .. n : PieceValue(Piece(text, i)) < Pow(OCTET, IF i = n THEN 5 - n ELSE 1)
Weighed(a) == FoldLeft(LAMBDA v, b : v * OCTET + b, 0, a)
AddressesAreTrue ==
    /\ result.op = "aton" =>
          LET text == UpToBlank(result.text)
              n == Len(Dots(text)) - 1
          IN  /\ (result.aton # <<>>) <=> IsAddress(text, n)
              /\ result.aton # <<>> =>
                    Weighed(result.aton) = FoldLeft(LAMBDA v, i : v + PieceValue(Piece(text, i)) * Pow(OCTET, IF i = n THEN 0 ELSE 4 - i),
                                                    0, [i \in 1 .. n |-> i])
              /\ result.pton # <<>> => result.aton = result.pton
    /\ result.op = "ntop" =>
          /\ result.aton = result.a /\ result.pton = result.a
          /\ result.ntop # <<>> <=> Len(NtopText(result.a)) < result.size

\* The list of a program (@@soadd.c, @@sodel.c, @@soupd.c) is what the
\* emulator has open for it, and remembers each socket's own addresses.
SocketsAreOwn == SocketsAreListed /\ NamesAreOwn

\* The calls that move data, wait or convert addresses do what they promise.
SocketCallsAreTrue ==
    /\ TransfersAreWhole /\ SelectIsOnTime /\ AddressesAreTrue
    /\ result.op = "tried" => (result.rc = 0 <=> \E i \in 1 .. 2 : result.replies[i] = 0 /\ \A j \in 1 .. i - 1 : result.replies[j] = WAIT)
    /\ result.op \in {"hostbyname", "hostbyaddr"} =>
          /\ IsPrefix(result.kept, result.name) /\ Len(result.kept) < HOSTN
          /\ result.name # <<>> /\ result.hosts # 0 => result.kept # <<>>

\* getsockname() and getpeername() answer with the addresses of the socket
\* whatever other threads do.
AddressesAreOwn == \A ss \in SoNumbers : AtRest(ss) => AnswersOwn(ss)
============================================================================
