------------------------------ MODULE JesSpool ------------------------------
(***************************************************************************)
(* src/src/mvs/jes2 jesjob.c, jesprint.c, jesprb.c: reading the spool.     *)
(*                                                                         *)
(* A spool data set is a chain of blocks: a header of 10 bytes with the    *)
(* next address, the job's key and the data set's id, then records.  A     *)
(* record is a line, or one part of a line that spans records and blocks.  *)
(* Nothing in a block is trusted: JES2 may have given the track to another *)
(* job, the chain may end in a block that is not written yet, or the block *)
(* may be cut short.  A record is given by the fields of its header and by *)
(* the line it was cut from; positions are bytes of the block.             *)
(***************************************************************************)
EXTENDS Array
LOCAL INSTANCE SequencesExt

CONSTANTS
    BUFSIZE,            \* the bytes of a block
    LINE_MAX,           \* the longest line handed to the caller of jesprint()
    JESPR_MAXBLK,       \* the blocks after which a walk stops
    Contents,           \* the records a block may have
    Checkpoints         \* the job queues jesjob() may find

VARIABLE spool          \* the jobs jesjob() returned, until they are freed

BlockHead == 10
PRLINE == 3
SPLINE == 4

----------------------------------------------------------------------------
(* The internal text of a job: one statement per line.  A statement is its *)
(* kind and its entries [key, len, size, text]; a line cut short has   *)
(* the entries that lie inside it.  ctx is what intxt_emit() carries from  *)
(* one statement to the next.                                              *)

NoName == ""
TextHead(kind) == IF kind = "JOB" THEN 6 ELSE 4
TXTPRE == 3
ValueHead == 3

\* Entry i: a key and a count, then its counted values.
At(stmt, i) ==
    LET pos[k \in 1 .. i] == IF k = 1 THEN TextHead(stmt.kind) ELSE pos[k - 1] + 2 + stmt.entries[k - 1].size
    IN  pos[i]
\* The longest value that is taken from a key.
Taken(key) == CASE key = "DSNAME" -> 44 [] key = "SYSOUT" -> 4 [] key = "SYSIN" -> 0 [] OTHER -> 8
\* The value of key inside the line, the last one counts; a value that is
\* cut off ends a JOB or EXEC statement and is skipped in a DD statement.
EntrySize(e) == IF e.len < Taken(e.key) THEN e.len ELSE Taken(e.key)
Whole(stmt, i, len) == At(stmt, i) + ValueHead + EntrySize(stmt.entries[i]) =< len
Readable(stmt, i, len) == /\ At(stmt, i) + ValueHead =< len
                         /\ IF stmt.kind = "DD" THEN Whole(stmt, i, len)
                            ELSE \A j \in 1 .. i : Whole(stmt, j, len)
LastOf(stmt, found, default) ==
    IF found = {} THEN default ELSE stmt.entries[CHOOSE i \in found : \A j \in found : j =< i].text
Value(stmt, len, key, default) ==
    LastOf(stmt, {i \in DOMAIN stmt.entries : stmt.entries[i].key = key /\ Readable(stmt, i, len)},
           default)

process_job(ctx, stmt, len) == [ctx EXCEPT !.userid = Value(stmt, len, "USER", NoName)]
ExecNamed(ctx, proc, name) ==
    IF proc THEN [ctx EXCEPT !.procstep = name] ELSE [ctx EXCEPT !.stepname = name, !.procstep = NoName]
process_exec(ctx, stmt, len) == ExecNamed(ctx, stmt.proc, Value(stmt, len, "EXEC", NoName))
\* A DD statement without a name of its own continues the one before.
process_dd(ctx, stmt, len) ==
    [ctx EXCEPT !.ddname = Value(stmt, len, "DD", @),
                !.dsname = Value(stmt, len, "DSNAME", <<"", 0>>),
                !.sysout = Value(stmt, len, "SYSOUT", NoName),
                !.sysin = Value(stmt, len, "SYSIN", NoName)]

\* The generated data set name says which data set of the job it is:
\* <<"SO", dsid>> or <<"SI", dsid>>.  The first DD with this id is named.
NameFirst(dds, ctx, ids, flag) ==
    IF ids = {} THEN dds
    ELSE [dds EXCEPT ![CHOOSE i \in ids : \A j \in ids : i =< j] =
             [@ EXCEPT !.ddname = ctx.ddname, !.stepname = ctx.stepname,
                       !.procstep = ctx.procstep, !.flag = flag]]
Name(dds, ctx, qualifier, flag) ==
    IF ctx.dsname[1] # qualifier \/ ctx.dsname[2] = 0 THEN dds
    ELSE NameFirst(dds, ctx, {i \in DOMAIN dds : dds[i].dsid = ctx.dsname[2]}, flag)
process_sysout(dds, ctx) == Name(dds, ctx, "SO", "SYSOUT")
process_sysin(dds, ctx) == Name(dds, ctx, "SI", "SYSIN")

\* -1 stops the walk: after the JOB statement of a job without DDs.
JobStatement(c, job) ==
    [c EXCEPT !.ctx = job, !.rc = IF c.job.dds = <<>> THEN -1 ELSE 0,
              !.job.owner = IF job.userid # NoName THEN job.userid ELSE @]
InNamed(dds, dd) == IF dd.sysin # NoName THEN process_sysin(dds, dd) ELSE dds
DDStatement(c, dd) ==
    [c EXCEPT !.rc = 0, !.ctx = dd,
              !.job.dds = InNamed(IF dd.sysout # NoName THEN process_sysout(@, dd) ELSE @, dd)]
intxt_emit(c, line) ==
    IF line.len < TXTPRE \/ line.text.kind = "PROC" THEN [c EXCEPT !.rc = 0]
    ELSE CASE line.text.kind = "JOB" -> JobStatement(c, process_job(c.ctx, line.text, line.len))
           [] line.text.kind = "EXEC" ->
                 [c EXCEPT !.rc = 0, !.ctx = IF line.len < TextHead("EXEC") THEN @
                                             ELSE process_exec(@, line.text, line.len)]
           [] line.text.kind = "DD" -> DDStatement(c, process_dd(c.ctx, line.text, line.len))

----------------------------------------------------------------------------
(* Where the lines of a data set go.                                        *)

\* Trailing blanks, long lines and unprintable characters are the caller's
\* business; an empty record goes out only with its control character.
\* c.stop is the line the callback refuses.
esc_print(c, line) ==
    IF line.len = 0 /\ ~(c.prtcc /\ line.cc) THEN [c EXCEPT !.rc = 0]
    ELSE [c EXCEPT !.out = Append(@, [line EXCEPT !.len = IF @ > LINE_MAX THEN LINE_MAX ELSE @,
                                                  !.text = <<>>]),
                   !.rc = IF Len(c.out) + 1 = c.stop THEN -1 ELSE 0]

\* The callback of the walk: of jesprint(), or of process_intxt().
Emit(c, line) == IF c.emit = "print" THEN esc_print(c, line) ELSE intxt_emit(c, line)

----------------------------------------------------------------------------
(* The records of one block.  c.pb is the JESPRB that lives across blocks, *)
(* c.at the position of the record and c.read the last byte looked at.     *)

NoLine == [parts |-> <<>>, len |-> 0, cc |-> FALSE, text |-> <<>>]
JESPRB == [prbuf |-> NULL, blksize |-> 0, total |-> 0, line |-> NoLine, lines |-> 0,
           reason |-> "OK", assembling |-> FALSE]

Look(c, upto) == [c EXCEPT !.read = IF upto > @ THEN upto ELSE @]

\* One line goes to emit(); a negative answer ends the whole walk.
Answered(c) == IF c.rc < 0 THEN [c EXCEPT !.go = "stop", !.pb.reason = "STOPPED"] ELSE c
Hand(c, line) ==
    Answered(Emit(IF line.len > 0 THEN [c EXCEPT !.pb.lines = @ + 1] ELSE c, line))

DropLine(c) == [c EXCEPT !.pb.line = NoLine, !.pb.assembling = FALSE]

\* What is assembled of a spanned line goes out, and the block ends here.
GivenUp(c, reason) ==
    IF c.go = "stop" THEN DropLine(c) ELSE [DropLine(c) EXCEPT !.go = "end", !.pb.reason = reason]
giveup(c, reason) ==
    GivenUp(IF c.pb.assembling /\ c.pb.line.len > 0 THEN Hand(c, c.pb.line) ELSE c, reason)

\* A FIRST part announces the length of the line; the buffer only grows.
Regrown(c, r) == [c EXCEPT !.pb.prbuf = c.got, !.pb.blksize = r.total]
Opened(c, r, grown) ==
    IF grown /\ c.pb.prbuf = NULL THEN [DropLine(c) EXCEPT !.go = "stop", !.pb.reason = "NOMEM"]
    ELSE [c EXCEPT !.pb.total = r.total, !.pb.assembling = TRUE,
                   !.pb.line = [NoLine EXCEPT !.cc = r.cc, !.text = r.text]]
Announce(c, r) ==
    Opened(IF r.total > c.pb.blksize THEN Regrown(Obtain(Release(c, c.pb.prbuf), "prbuf"), r) ELSE c,
           r, r.total > c.pb.blksize)

\* Where the data of a part begins.
Data(c, r) == c.at + SPLINE + (IF r.first THEN 2 + (IF r.cc THEN 1 ELSE 0) ELSE 0)

\* What is wrong with a part: no line is open, or it does not fit the block
\* or what the FIRST part of its line announced.
Refusal(c, r) ==
    CASE c.pb.prbuf = NULL \/ ~c.pb.assembling -> "NOBUF"
      [] c.pb.prbuf # NULL /\ c.pb.assembling /\ Data(c, r) + r.len2 > BUFSIZE -> "TRUNC"
      [] c.pb.prbuf # NULL /\ c.pb.assembling /\ Data(c, r) + r.len2 =< BUFSIZE
            /\ c.pb.line.len + r.len2 > c.pb.total -> "NOBUF"
      [] OTHER -> "fits"
Copied(c, r) ==
    [Look(c, Data(c, r) + r.len2) EXCEPT !.at = Data(c, r) + r.len2, !.pb.line.len = @ + r.len2,
                                         !.pb.line.parts = Append(@, r.part)]
HandLine(c) == IF c.go = "stop" THEN c ELSE DropLine(c)
LastPart(c, r) == IF r.last THEN HandLine(Hand(c, c.pb.line)) ELSE c
Part(c, r) ==
    IF c.go # "on" THEN c
    ELSE IF Refusal(c, r) # "fits" THEN giveup(c, Refusal(c, r))
    ELSE LastPart(Copied(c, r), r)
\* One part of a spanned line: what it says is measured before it is read.
\* The control character of a FIRST part is read only inside the block.
SpanHead(c, r) ==
    IF ~r.first THEN Look(c, c.at + SPLINE)
    ELSE Look(Announce(c, r), c.at + SPLINE + 2 + (IF r.cc /\ Data(c, r) =< BUFSIZE THEN 1 ELSE 0))
Span(c, r) ==
    IF c.at + SPLINE > BUFSIZE \/ (r.first /\ c.at + SPLINE + 2 > BUFSIZE) THEN giveup(c, "TRUNC")
    ELSE Part(SpanHead(c, r), r)

LineAt(c, r, d) ==
    IF d + r.len > BUFSIZE THEN giveup(c, "TRUNC")
    ELSE [Hand(Look(c, d + r.len), [parts |-> <<r.part>>, len |-> r.len, cc |-> r.cc, text |-> r.text])
             EXCEPT !.at = d + r.len]
Line(c, r) == LineAt(c, r, c.at + PRLINE + (IF r.cc THEN 1 ELSE 0))

\* A tail too short for a header, or an EOB byte, is the ordinary end.
Record(c, r) == IF r.span THEN Span(c, r) ELSE Line(c, r)
__jesprb(c, records) ==
    LET step(t, r) == IF t.go # "on" THEN t
                      ELSE IF t.at + PRLINE > BUFSIZE THEN [t EXCEPT !.go = "end"]
                      ELSE Record(Look(t, t.at + PRLINE), r)
    IN  FoldLeft(step, [c EXCEPT !.pb.reason = "OK", !.at = BlockHead, !.go = "on"], records)

----------------------------------------------------------------------------
(* jesprint(): the lines of one data set.                                  *)

\* The chain is followed from the PDDB's address.  chain[i] is the i-th
\* block: its key and id are this data set's or not, it can be read or not;
\* next is "on", "end" or "self".
Walked(w, b) ==
    CASE w.go = "stop" -> [w EXCEPT !.walk = "over", !.reason = w.pb.reason]
      [] w.go # "stop" /\ b.next = "self" -> [w EXCEPT !.walk = "over", !.reason = "LOOP"]
      [] OTHER -> [w EXCEPT !.walk = IF b.next = "end" THEN "over" ELSE @,
                            !.reason = IF w.pb.reason \in {"NOBUF", "TRUNC"} THEN w.pb.reason ELSE @]
OneBlock(t, b) ==
    IF t.walk = "over" THEN t
    ELSE IF t.blocks >= JESPR_MAXBLK THEN [t EXCEPT !.walk = "over", !.reason = "CAP"]
    ELSE IF b.is = "unreadable" THEN [t EXCEPT !.walk = "over", !.reason = "IOERR"]
    ELSE IF b.is # "ours"
         THEN [t EXCEPT !.walk = "over",
                        !.reason = IF t.blocks > 0 THEN "OPENEND"
                                   ELSE IF b.is = "foreign" THEN "FOREIGN" ELSE "DSID"]
    ELSE Walked(__jesprb([t EXCEPT !.blocks = @ + 1], b.records), b)
FreeWalk(t, buf) == Release(Release(t, t.pb.prbuf), buf)
PrintWith(c, found, chain) ==
    IF c.got = NULL THEN [c EXCEPT !.rc = 503, !.reason = "NOMEM"]
    ELSE IF ~found THEN [FreeWalk(c, c.got) EXCEPT !.rc = 404]
    ELSE IF chain = <<>> THEN [FreeWalk(c, c.got) EXCEPT !.rc = 0]
    ELSE [FreeWalk(FoldLeft(OneBlock, [c EXCEPT !.reason = "END"], chain), c.got) EXCEPT !.rc = 0]
prwalk(c, found, chain) == PrintWith(Obtain(c, "block"), found, chain)

jesprint(c, found, chain) == prwalk([c EXCEPT !.prtcc = FALSE], found, chain)
jesprtcc(c, found, chain) == prwalk([c EXCEPT !.prtcc = TRUE], found, chain)

----------------------------------------------------------------------------
NoCtx == [userid |-> NoName, stepname |-> NoName, procstep |-> NoName, ddname |-> NoName,
          dsname |-> <<"", 0>>, sysout |-> NoName, sysin |-> NoName]
TextBlock(t, b) ==
    LET walked(w) == [w EXCEPT !.inbuf3 = w.pb.prbuf,
                               !.walk = IF w.go # "stop" /\ b.next = "on" THEN "on" ELSE "over"]
    IN  IF t.walk = "over" THEN t
        ELSE IF t.blocks >= JESPR_MAXBLK \/ b.is # "ours" THEN [t EXCEPT !.walk = "over"]
        ELSE walked(__jesprb([t EXCEPT !.blocks = @ + 1], b.records))
ReadText(c, chain) ==
    IF c.got = NULL THEN c
    ELSE FreeWalk(FoldLeft(TextBlock, [c EXCEPT !.inbuf2 = c.got], chain), c.got)
process_intxt(c, chain) ==
    [ReadText(Obtain([c EXCEPT !.emit = "text", !.ctx = NoCtx, !.pb = JESPRB, !.walk = "on",
                               !.blocks = 0], "block"), chain)
        EXCEPT !.inbuf2 = NULL, !.inbuf3 = NULL]

----------------------------------------------------------------------------
(* jesjob(): the jobs of the queue.  An IOT has room for entries (PDDBs);  *)
(* pddbp is the IOT's own word for how many there are.                     *)

PDBINTXT == 5
Jes2Names == [d \in {1, 2, 3, 4, 5, 6} |->
                 <<"JESJCLIN", "JESMSGLG", "JESJCL", "JESYSMSG", "JESINTXT", "JESJRNL">>[d]]

\* An entry has to start below the IOT's bound, if that is a possible one.
pddb_end(iot) == IF iot.pddbp \in 0 .. Len(iot.entries) THEN iot.pddbp ELSE Len(iot.entries)

is_dup_dsid(dds, dsid) == \E i \in DOMAIN dds : dds[i].dsid = dsid

NewDD(block, pddb, jobname) ==
    [block |-> block, dsid |-> pddb.key, stepname |-> NoName, procstep |-> NoName,
     ddname |-> IF pddb.key \in DOMAIN Jes2Names THEN Jes2Names[pddb.key]
                ELSE IF jobname = "SYSLOG" THEN "JESnnnnn" ELSE NoName,
     flag |-> IF pddb.key \in DOMAIN Jes2Names THEN "JES2" ELSE NoName]
\* The DDs of a job are in an array of their own; err when one is refused.
DDAdded(c, dd, pddb, array) ==
    IF c.err # 0 THEN [Release(c, dd) EXCEPT !.array = array, !.job.array = c.array]
    ELSE [c EXCEPT !.array = array, !.job.array = c.array,
                   !.job.dds = Append(@, NewDD(dd, pddb, c.job.jobname))]
AddDD(c, pddb) ==
    IF c.got = NULL THEN [c EXCEPT !.err = -1]
    ELSE DDAdded(arrayadd([c EXCEPT !.array = c.job.array], c.got), c.got, pddb, c.array)
process_pddb(c, pddb) == AddDD(Obtain(c, "jesdd"), pddb)

\* A fault: the entries end with the buffer.
Entries_Buffer(iot) == iot.entries
\* The entries up to the bound or the first key of zero.
Entries(iot) ==
    LET n == pddb_end(iot)
        zero == {i \in 1 .. n : iot.entries[i].key = 0}
    IN  SubSeq(iot.entries, 1, IF zero = {} THEN n ELSE (CHOOSE i \in zero : \A j \in zero : i =< j) - 1)
ReadIots(c, iots) ==
    LET one(t, pddb) == IF t.err # 0 \/ pddb.mttr = 0 \/ is_dup_dsid(t.job.dds, pddb.key) THEN t
                        ELSE process_pddb(t, pddb)
        iot(t, i) == IF t.err # 0 \/ t.walk = "over" THEN t
                     ELSE IF ~i.ok THEN [t EXCEPT !.walk = "over"] ELSE FoldLeft(one, t, Entries(i))
    IN  FoldLeft(iot, [c EXCEPT !.walk = "on"], iots)

\* The internal text is found by its key in a scan that a key of zero does
\* not end; without DDs the scan goes on after it.
FindText(c, j) ==
    LET texts(i) == {k \in 1 .. pddb_end(i) : i.entries[k].key = PDBINTXT}
        first(i) == i.entries[CHOOSE k \in texts(i) : \A l \in texts(i) : k =< l]
        found(w) == IF w.job.dds = <<>> THEN w ELSE [w EXCEPT !.find = "over"]
        iot(t, i) ==
            IF t.find = "over" THEN t
            ELSE IF ~i.ok THEN [t EXCEPT !.find = "over"]
            ELSE IF texts(i) = {} THEN t
            ELSE found(process_intxt(t, IF first(i).mttr = 0 THEN <<>> ELSE j.text))
    IN  FoldLeft(iot, [c EXCEPT !.find = "on"], j.iots)

\* A DD without a name gets one, and the DDs are sorted by their id.
dsid_comp(a, b) == a.dsid < b.dsid
Sorted(job, dds) ==
    [job EXCEPT !.dds = dds,
                !.array.slots = [i \in DOMAIN @ |-> IF i \in DOMAIN dds THEN dds[i].block ELSE @[i]]]
Finish(job) ==
    Sorted(job, SortSeq([i \in DOMAIN job.dds |->
                            [job.dds[i] EXCEPT !.ddname = IF @ = NoName THEN "UNKnnnn" ELSE @]],
                        dsid_comp))

Owner(j) == CASE j.kind = "TSU" -> j.name [] j.kind = "STC" -> "SYSTEM" [] OTHER -> "submitter"

\* One element of the queue: skipped, or a job of the result.
NewJob(j, block) == [block |-> block, jobname |-> j.name, owner |-> Owner(j), array |-> NoArray, dds |-> <<>>]
Put(c) == [c EXCEPT !.jobs = Append(Front(@), c.job)]
JobText(c, j, dd) ==
    IF c.err # 0 THEN Put(c)
    ELSE Put([(IF dd \/ j.kind = "JOB" THEN FindText(c, j) ELSE c) EXCEPT !.job = Finish(@)])
JobDds(c, j, dd) == JobText(IF dd THEN ReadIots(ReadIots(c, j.iots), j.spin) ELSE c, j, dd)
Dds(c, j, dd) ==
    IF c.err # 0 THEN Release(c, c.job.block)
    ELSE JobDds([c EXCEPT !.injobs = c.array.block, !.jobs = Append(@, c.job)], j, dd)
ListJob(c, j, dd) ==
    IF c.got = NULL THEN [c EXCEPT !.err = -1]
    ELSE Dds(arrayadd([c EXCEPT !.injobs = NULL, !.job = NewJob(j, c.got)], c.got), j, dd)
OneJob(c, j, filter, dd) ==
    IF c.err # 0 \/ j.queue \in {"FREE", "PURGE"} \/ ~j.jct \/ filter \notin {"", j.name} THEN c
    ELSE ListJob(Obtain(c, "jesjob"), j, dd)

\* What has been found so far is the result, whatever is refused.
Jobs(c, queue, filter, dd) ==
    LET one(t, j) == OneJob(t, j, filter, dd)
    IN  IF c.got = NULL THEN [c EXCEPT !.err = -1]
        ELSE Release(FoldLeft(one, [c EXCEPT !.inbuf = c.got], queue), c.got)
jesjob(c, queue, filter, dd) ==
    [Jobs(Obtain(c, "inbuf"), queue, filter, dd) EXCEPT !.injobs = NULL, !.inbuf = NULL]

jesjobf1(c, job) ==
    Release(Release(ReleaseAll(c, SubSeq(job.array.slots, 1, job.array.count)), job.array.block), job.block)
jesjobfr(c, jobs) == arrayfree(FoldLeft(jesjobf1, c, jobs))

----------------------------------------------------------------------------
(* Calls.                                                                  *)

NoJobs == [jobs |-> <<>>, array |-> NoArray]
SpoolInit == spool = NoJobs
SpoolCall(faults) ==
    Begin(faults) @@ [array |-> spool.array, err |-> 0, rc |-> 0, pb |-> JESPRB, at |-> 0, read |-> 0,
                      go |-> "on", out |-> <<>>, stop |-> 0, emit |-> "print", prtcc |-> FALSE, reason |-> "EMPTY",
                      blocks |-> 0, walk |-> "on", ctx |-> NoCtx, job |-> 0, jobs |-> <<>>,
                      find |-> "on",
                      inbuf |-> NULL, inbuf2 |-> NULL, inbuf3 |-> NULL, injobs |-> NULL]

Numbered(records, b) == [i \in DOMAIN records |-> [records[i] EXCEPT !.part = <<b, i>>]]
Block(records, b, is, next) == [records |-> Numbered(records, b), is |-> is, next |-> next]
Chains ==
    {<<>>, <<Block(<<>>, 1, "unreadable", "end")>>, <<Block(<<>>, 1, "foreign", "end")>>,
     <<Block(<<>>, 1, "dsid", "end")>>}
    \cup {<<Block(a, 1, "ours", next)>> : a \in Contents, next \in {"end", "self"}}
    \cup {<<Block(a, 1, "ours", "on"), Block(b, 2, is, "end")>> :
             a, b \in Contents, is \in {"ours", "foreign", "unreadable"}}
    \cup {<<Block(a, 1, "ours", "on"), Block(b, 2, "ours", "on"), Block(c, 3, "ours", "on"),
            Block(<<>>, 4, "ours", "end")>> : a, b, c \in {d \in Contents : Len(d) = 1}}

Report(c) == [rc |-> c.rc, reason |-> c.reason, out |-> c.out, lines |-> c.pb.lines,
              read |-> c.read, stop |-> c.stop]
PrintCall(why) ==
    [SpoolCall(CASE why = "no storage" -> {1} [] why = "no buffer" -> {2} [] OTHER -> {})
        EXCEPT !.stop = IF why = "refused" THEN 1 ELSE 0]
Shown(d, chain, cc) == End(d, [op |-> "jesprint", chain |-> chain, cc |-> cc] @@ Report(d))
PrintSpool ==
    /\ Ready /\ spool = NoJobs
    /\ \E chain \in Chains, found \in BOOLEAN, why \in {"none", "no storage", "no buffer", "refused"} :
          /\ ~found => chain = <<>>
          /\ \/ Shown(jesprint(PrintCall(why), found, chain), chain, FALSE)
             \/ why = "none" /\ Shown(jesprtcc(PrintCall(why), found, chain), chain, TRUE)
    /\ UNCHANGED spool

JobsGiven(d, queue, filter, dd, faults) ==
    /\ spool' = [jobs |-> d.jobs, array |-> d.array]
    /\ End(d, [op |-> "jesjob", queue |-> queue, filter |-> filter, dd |-> dd,
               whole |-> d.err = 0, faults |-> faults,
               anchors |-> {d.inbuf, d.inbuf2, d.inbuf3, d.injobs}])
ListJobs ==
    /\ Ready /\ spool = NoJobs
    /\ \E queue \in Checkpoints, filter \in {"", "A"}, dd \in BOOLEAN, faults \in OneFault(MaxFault) :
          JobsGiven(jesjob(SpoolCall(faults), queue, filter, dd), queue, filter, dd, faults)
FreeJobs ==
    /\ Ready /\ spool # NoJobs
    /\ spool' = NoJobs
    /\ End(jesjobfr(SpoolCall({}), spool.jobs), [op |-> "jesjobfr"])

SpoolNext == PrintSpool \/ ListJobs \/ FreeJobs \/ (See /\ UNCHANGED spool)

SpoolOwns ==
    (UNION {{j.block, j.array.block} \cup {j.dds[i].block : i \in DOMAIN j.dds} : j \in Range(spool.jobs)}
     \cup {spool.array.block}) \ {NULL}

----------------------------------------------------------------------------
\* The walk never looks behind the block, and a line it hands out is one
\* that is on the spool: a whole line, or parts of one spanned line in
\* their order from its FIRST part on, with nothing of another spanned line
\* between and no longer than the FIRST part announced.  "END" is said only
\* when every line of the chain went out (empty ones, and a spanned line
\* that has no last part, apart); no fragment follows a refusal.
LinesAreTrue ==
    LET All == UNION {{r.part : r \in Range(b.records)} : b \in Range(result.chain)}
        Rec(p) == result.chain[p[1]].records[p[2]]
        Before(p, q) == p[1] < q[1] \/ (p[1] = q[1] /\ p[2] < q[2])
        Spans == {p \in All : Rec(p).span}
        True(line) ==
            LET ps == line.parts
            IN  \/ Len(ps) = 1 /\ ~Rec(ps[1]).span /\ line.len =< Rec(ps[1]).len
                \/ /\ Rec(ps[1]).span /\ Rec(ps[1]).first
                   /\ line.len =< Rec(ps[1]).total
                   /\ \A i \in 2 .. Len(ps) :
                         /\ Rec(ps[i]).span /\ ~Rec(ps[i]).first /\ Before(ps[i - 1], ps[i])
                         /\ ~\E p \in Spans : Before(ps[i - 1], p) /\ Before(p, ps[i])
        Out(p) == \E i \in DOMAIN result.out : p \in Range(result.out[i].parts)
    IN  result.op = "jesprint" =>
          /\ result.read =< BUFSIZE
          /\ \A i \in DOMAIN result.out : True(result.out[i])
          /\ result.stop > 0 => Len(result.out) =< result.stop
          /\ result.reason = "END" =>
                \A p \in All : ~Rec(p).span /\ Rec(p).len > 0 => Out(p)
          /\ result.reason = "END" =>
                \A p \in Spans : Rec(p).last /\ Rec(p).len2 > 0 => Out(p)

\* jesjob() finds what the queue and the spool say.  A DD of a job is an
\* entry of one of its IOTs below the IOT's own bound, none is listed
\* twice; when nothing was refused every entry is there, in the order of
\* the ids, with a name, and a name that is not JES2's or made up is that of
\* a DD statement for this very data set,
\* with the step and the procedure step the statement stands in.  The anchors for recovery are
\* dropped when the caller has the result.
JobsAreTrue ==
    LET q == SelectSeq(result.queue, LAMBDA j : j.queue = "EXEC" /\ j.jct /\ result.filter \in {"", j.name})
        Reached(iots) == {n \in DOMAIN iots : \A i \in 1 .. n : iots[i].ok}
        Ids(iots) == UNION {{iots[n].entries[i].key :
                                i \in {k \in 1 .. pddb_end(iots[n]) : /\ iots[n].entries[k].mttr # 0
                                        /\ \A l \in 1 .. k : iots[n].entries[l].key # 0}} : n \in Reached(iots)}
        Stmts(j) == FlattenSeq([n \in DOMAIN j.text |->
                       SelectSeq(j.text[n].records, LAMBDA r : ~r.span \/ r.first)])
        Keyed(r, key) == {i \in DOMAIN r.text.entries : r.text.entries[i].key = key}
        Has(r, key, text) == \E i \in Keyed(r, key) : r.text.entries[i].text = text
        Step(ss, k) == LET own == {i \in 1 .. k : ss[i].text.kind = "EXEC" /\ ~ss[i].text.proc}
                       IN  IF own = {} THEN 0 ELSE CHOOSE i \in own : \A l \in own : l =< i
        Named(j, dd) ==
            \/ dd.ddname \in Range(Jes2Names) \cup {"UNKnnnn", "JESnnnnn"}
            \/ \E k \in DOMAIN Stmts(j) :
                  LET ss == Stmts(j)
                      at == Step(ss, k)
                  IN  /\ ss[k].text.kind = "DD"
                      /\ \E q2 \in {"SO", "SI"} : Has(ss[k], "DSNAME", <<q2, dd.dsid>>)
                      /\ Has(ss[k], "DD", dd.ddname) \/ Keyed(ss[k], "DD") = {}
                      /\ IF at = 0 THEN dd.stepname = NoName ELSE Has(ss[at], "EXEC", dd.stepname)
                      /\ dd.procstep # NoName =>
                            \E i \in at + 1 .. k : ss[i].text.kind = "EXEC" /\ Has(ss[i], "EXEC", dd.procstep)
        jobs == spool.jobs
    IN  result.op = "jesjob" =>
          /\ result.anchors = {NULL}
          /\ Len(jobs) =< Len(q) /\ (result.whole => Len(jobs) = Len(q))
          /\ \A i \in DOMAIN jobs :
                LET ids == [k \in DOMAIN jobs[i].dds |-> jobs[i].dds[k].dsid]
                IN  /\ jobs[i].jobname = q[i].name
                    /\ Range(ids) \subseteq Ids(q[i].iots) \cup Ids(q[i].spin)
                    /\ \A k, l \in DOMAIN ids : k # l => ids[k] # ids[l]
                    /\ result.whole /\ result.dd =>
                          /\ Range(ids) = Ids(q[i].iots) \cup Ids(q[i].spin)
                          /\ \A k \in 2 .. Len(ids) : ids[k - 1] < ids[k]
                          /\ \A k \in DOMAIN ids : jobs[i].dds[k].ddname # NoName /\ Named(q[i], jobs[i].dds[k])
============================================================================
