------------------------------ MODULE EsSplit ------------------------------
(***************************************************************************)
(* cmd/astits-es-split/main.go: a client of the demuxer that writes every  *)
(* elementary stream to a file of its own, through a muxer of its own.     *)
(*                                                                         *)
(* The demuxer is that of module Demuxer, on a bufio.Reader, with nobody   *)
(* else calling it.  A PES is named by the place of the tape it starts at, *)
(* and a file is the sequence of the PES written to it; what WriteData     *)
(* makes of one is the matter of PESPacketizer and Muxer.  The body of a   *)
(* unit with a PMT also has pmt, the program number and the PIDs of the    *)
(* streams, and that of a PES has bare, whether it lacks OptionalHeader.   *)
(***************************************************************************)
EXTENDS Demuxer

VARIABLES
  turn,        \* "call", "called" and "handle", in a turn of the loop; then
               \* "done", "fatal" (log.Fatalf) or "panic" (a nil pointer)
  pat,         \* the programs of the last PAT, if any
  pmts,        \* by program number, the streams of the last PMT
  gotAllPMTs,
  files        \* by PID, what has been written

splitVars == <<turn, pat, pmts, gotAllPMTs, files>>
allVars == <<demuxVars, splitVars>>

Put(f, k, v) == [x \in DOMAIN f \cup {k} |-> IF x = k THEN v ELSE f[x]]

SplitInit ==
  /\ DemuxInit
  /\ turn = "call"
  /\ pat = <<>>
  /\ pmts = <<>>
  /\ gotAllPMTs = FALSE
  /\ files = <<>>

-----------------------------------------------------------------------------
(* d, err := demux.NextData() *)

Turned == turn' = IF pc' = "idle" THEN "handle" ELSE "called"

CallNextData ==
  /\ \/ turn = "call" /\ (PopData \/ BeginNextData)
     \/ turn = "called" /\ (LoopStep \/ DumpStep)
  /\ Turned
  /\ UNCHANGED <<pat, pmts, gotAllPMTs, files>>

-----------------------------------------------------------------------------
(* The rest of the loop's body, by what NextData returned. *)

Handles(next) == turn = "handle" /\ turn' = next /\ UNCHANGED demuxVars

Returned(kind) == ret.d # <<>> /\ ret.d[1].kind = kind

(* The loop is left, the files are flushed and closed. *)
EndOfStream ==
  /\ ret.err = "noMorePackets" /\ Handles("done")
  /\ UNCHANGED <<pat, pmts, gotAllPMTs, files>>

HandleError_goesOn ==
  /\ ret.err \notin {"none", "noMorePackets"} /\ Handles("call")
  /\ UNCHANGED <<pat, pmts, gotAllPMTs, files>>

HandleError ==
  /\ ret.err \notin {"none", "noMorePackets"} /\ Handles("fatal")
  /\ UNCHANGED <<pat, pmts, gotAllPMTs, files>>

(* Neither data nor an error: d.PAT is read through a nil pointer. *)
HandleNothing ==
  /\ ret.err = "none" /\ ret.d = <<>> /\ Handles("panic")
  /\ UNCHANGED <<pat, pmts, gotAllPMTs, files>>

HandlePAT_staysComplete ==
  /\ Returned("PAT") /\ Handles("call")
  /\ pat' = <<ret.d[1].programs>>
  /\ UNCHANGED <<pmts, gotAllPMTs, files>>

HandlePAT ==
  /\ Returned("PAT") /\ Handles("call")
  /\ pat' = <<ret.d[1].programs>>
  /\ gotAllPMTs' = FALSE
  /\ UNCHANGED <<pmts, files>>

(* A PMT is recorded.  When every program of the PAT has one, files are    *)
(* created for the streams that have none yet, of all PMTs recorded; a     *)
(* file that cannot be created ends the program.  Without a PAT, which a   *)
(* PMT on a reserved PID does not need, pat is a nil pointer.              *)
HandlePMT ==
  LET pmt == tape[ret.d[1].first].body.pmt
      known == Put(pmts, pmt.number, pmt.streams)
      complete == \A g \in pat[1] : g.number \in DOMAIN known
      streams == UNION {known[n] : n \in DOMAIN known}
  IN  /\ Returned("PMT")
      /\ pmts' = known
      /\ \/ /\ pat = <<>> \/ ~complete
            /\ Handles(IF pat = <<>> THEN "panic" ELSE "call")
            /\ gotAllPMTs' = (pat = <<>>)
            /\ UNCHANGED files
         \/ /\ pat # <<>> /\ complete
            /\ gotAllPMTs' = TRUE
            /\ \/ /\ Handles("call")
                  /\ files' = [pid \in DOMAIN files \cup streams |->
                                 IF pid \in DOMAIN files THEN files[pid] ELSE <<>>]
               \/ /\ streams \ DOMAIN files # {} /\ Handles("fatal")
                  /\ UNCHANGED files
      /\ UNCHANGED pat

(* Other data, and a PES too early or on a PID without a file, is skipped; *)
(* a PES without OptionalHeader is read through a nil pointer; writing may *)
(* fail.                                                                   *)
HandleOther ==
  LET d == ret.d[1]
      wanted == gotAllPMTs /\ d.kind = "PES" /\ d.pid \in DOMAIN files
  IN  /\ ret.d # <<>> /\ d.kind \notin {"PAT", "PMT"}
      /\ \/ ~wanted /\ Handles("call") /\ UNCHANGED files
         \/ wanted /\ tape[d.first].body.bare /\ Handles("panic") /\ UNCHANGED files
         \/ /\ wanted /\ ~tape[d.first].body.bare
            /\ \/ /\ Handles("call")
                  /\ files' = [files EXCEPT ![d.pid] = Append(@, d.first)]
               \/ Handles("fatal") /\ UNCHANGED files
      /\ UNCHANGED <<pat, pmts, gotAllPMTs>>

Handle == \/ EndOfStream \/ HandleError \/ HandleNothing
          \/ HandlePAT \/ HandlePMT \/ HandleOther

SplitNext == CallNextData \/ Handle

SplitSpec == SplitInit /\ [][SplitNext]_allVars

(* The program is one goroutine that goes on until it ends. *)
SplitFairSpec == SplitSpec /\ WF_allVars(SplitNext)

-----------------------------------------------------------------------------
(* What the files hold, told from the data the demuxer has returned.       *)

PMTOf(k) == tape[delivered[k].first].body.pmt

PMTsUpTo(m) == {k \in 1..m : delivered[k].kind = "PMT"}

IsLastPAT(a, m) == /\ delivered[a].kind = "PAT"
                   /\ \A k \in (a + 1)..m : delivered[k].kind # "PAT"

(* With datum m, a PMT, every program of the last PAT has its PMT. *)
CompletesTables(m) ==
  /\ delivered[m].kind = "PMT"
  /\ \E a \in 1..m : /\ IsLastPAT(a, m)
                     /\ \A g \in delivered[a].programs :
                          \E k \in PMTsUpTo(m) : PMTOf(k).number = g.number

(* The streams of the newest PMT of every program. *)
IsNewest(k, m) == \A j \in PMTsUpTo(m) : PMTOf(j).number = PMTOf(k).number => j <= k

StreamsAt(m) == UNION {PMTOf(k).streams : k \in {j \in PMTsUpTo(m) : IsNewest(j, m)}}

(* A PES goes to the file of its PID when the tables have been complete    *)
(* since the last PAT, and a PMT has listed its PID when they were.        *)
BelongsInFile(k) ==
  /\ delivered[k].kind = "PES"
  /\ \E m \in 1..(k - 1) : /\ CompletesTables(m)
                           /\ \A j \in m..k : delivered[j].kind # "PAT"
  /\ \E m \in 1..(k - 1) : CompletesTables(m) /\ delivered[k].pid \in StreamsAt(m)

(* Whenever the loop begins a turn and at the end, the file of a PID holds *)
(* exactly the PES of that PID that belong in it, each once and in the     *)
(* order they came: the k-th of them is the k-th of the file (main.go's    *)
(* gotAllPMTs, muxers and outfiles).                                       *)
FilesAreTheStreams ==
  turn \in {"call", "done"} =>
    \A pid \in PIDs :
      LET file == IF pid \in DOMAIN files THEN files[pid] ELSE <<>>
          ks == {k \in DOMAIN delivered : delivered[k].pid = pid /\ BelongsInFile(k)}
      IN  /\ Len(file) = Cardinality(ks)
          /\ \A k \in ks :
               file[Cardinality({m \in ks : m <= k})] = delivered[k].first

TableStarts(table) == {i \in DOMAIN tape : /\ tape[i].body.kind = "psi"
                                           /\ tape[i].body.sections[1].table = table
                                           /\ ArrivesWhole(i)}

(* On the tape: the PAT at a, and then the PMT at p of the one program it  *)
(* announces, are followed by their repetitions before place i; those are  *)
(* what makes the demuxer return them.  No other PAT comes after.          *)
SettledBefore(i, a, p) ==
  /\ NextStart(a) < NextStart(p) /\ NextStart(p) < i
  /\ tape[a].body.sections[1].programs
       = {[number |-> tape[p].body.pmt.number, map |-> tape[p].pid]}
  /\ \A j \in DOMAIN tape : /\ tape[j].pid = PIDPAT
                            => /\ j <= NextStart(a)
                               /\ j >= a => tape[j].body = tape[a].body

(* When the program has ended well, a PES that arrived whole after the     *)
(* tables had settled is in the file of its stream, whether it was closed  *)
(* by a later one or dumped at the end of the stream.  Its PID is above    *)
(* that of the PMT: dump goes by PID, the last PAT resets gotAllPMTs, and  *)
(* a last PES dumped before the last PMT is dropped.                       *)
WholePESKept ==
  turn = "done" =>
    \A p \in TableStarts("PMT") : \A a \in TableStarts("PAT"), i \in DOMAIN tape :
      /\ tape[i].body.kind = "pes"
      /\ tape[i].pid \in tape[p].body.pmt.streams
      /\ tape[i].pid > tape[p].pid
      /\ SettledBefore(i, a, p) /\ ArrivesWhole(i)
      => /\ tape[i].pid \in DOMAIN files
         /\ \E k \in DOMAIN files[tape[i].pid] : files[tape[i].pid][k] = i

(* The program ends, whatever the stream holds: each turn of the loop      *)
(* brings the end of the stream nearer or leaves the loop.                 *)
SplitEnds == <>(turn \in {"done", "fatal", "panic"})

=============================================================================
