------------------------------- MODULE Outbox -------------------------------
(***************************************************************************)
(* internal/outbox: the write-ahead log that Enqueue appends to and the    *)
(* goroutine of ReplayLoop that flushes it to the bus, under one mutex.    *)
(*                                                                         *)
(* An event stands for the Enqueue call that carries it.  A process crash  *)
(* keeps what was written to the file and loses the rest; the next process *)
(* opens the same file.  Faults names the faults of the run:               *)
(*   "crash"        the process dies and is restarted                      *)
(*   "late"         Publish reports an error, but the broker has the event *)
(*   "rewrite"      writing or renaming the new file fails                 *)
(*   "short_write"  an append stops part of the way through the line       *)
(*   "long_line"    a line, or a fragment and the line behind it, is over  *)
(*                  the 1 MiB that the scan of flush takes                 *)
(*   "read"         reading the file fails before its end                  *)
(***************************************************************************)
EXTENDS Naturals, SequencesExt

CONSTANTS Events, Faults

\* Holders of o.mu that are not an Enqueue call.
Nobody == "nobody"
Flush  == "flush"

ASSUME OutboxAssumption ==
  /\ Faults \subseteq 
       {"crash", "late", "rewrite", "short_write", "long_line", "read"}
  /\ Nobody \notin Events
  /\ Flush \notin Events

VARIABLES
  file,        \* the lines of the log that hold an event, oldest first
  overlong,    \* events whose line in the log is too long for the scan
  torn,        \* the log ends in a fragment without a newline
  mu,          \* who holds o.mu: an event's Enqueue call, flush, or nobody
  call,        \* progress of each Enqueue call
  records,     \* flush: records read and not yet published
  unread,      \* flush: the lines of the log behind the end of the scan
  remaining,   \* flush: records to carry forward
  delivered,   \* history: events the bus has
  again,       \* history: the bus has got an event more than once
  faulted,     \* history: something justifies a second delivery
  lost,        \* history: events whose line merged with a fragment, or was
               \* unread when the log was replaced
  calm         \* no fault occurs and the bus stays reachable from here on

fileVars    == <<file, overlong, torn>>
flushVars   == <<records, unread, remaining>>
busVars     == <<delivered, again, faulted>>
vars == <<fileVars, mu, call, flushVars, busVars, lost, calm>>

\* "acked" has returned nil, "failed" an error, "dead" never returned.
CallState == {"new", "waiting", "writing", "acked", "failed", "dead"}

Init ==
  /\ file = <<>>
  /\ overlong = {}
  /\ torn = FALSE
  /\ mu = Nobody
  /\ call = [e \in Events |-> "new"]
  /\ records = <<>>
  /\ unread = <<>>
  /\ remaining = <<>>
  /\ delivered = {}
  /\ again = FALSE
  /\ faulted = FALSE
  /\ lost = {}
  /\ calm = FALSE

May(fault) == ~calm /\ fault \in Faults

-----------------------------------------------------------------------------
(* Enqueue *)

Enqueue(e) ==
  /\ call[e] = "new"
  /\ call' = [call EXCEPT ![e] = "waiting"]
  /\ UNCHANGED <<fileVars, mu, flushVars, busVars, lost, calm>>

\* f.Write took the whole line of e.  A line after a fragment makes one
\* malformed line with it, which flush skips; a line that is too long, with or
\* without a fragment in front of it, stays where it is and ends every scan.
WriteLine(e) ==
  /\ torn' = FALSE
  /\ \/ ~torn
        /\ file' = Append(file, e)
        /\ UNCHANGED <<overlong, lost>>
     \/ torn
        /\ lost' = lost \cup {e}
        /\ UNCHANGED <<file, overlong>>
     \/ May("long_line")
        /\ file' = Append(file, e)
        /\ overlong' = overlong \cup {e}
        /\ UNCHANGED lost

\* Mutant: the append does not take o.mu.
AppendLineUnlocked(e) ==
  /\ call[e] = "waiting"
  /\ call' = [call EXCEPT ![e] = "acked"]
  /\ WriteLine(e)
  /\ UNCHANGED <<mu, flushVars, busVars, calm>>

AppendLine(e) ==
  /\ call[e] = "waiting"
  /\ mu = Nobody
  /\ mu' = e
  /\ call' = [call EXCEPT ![e] = "writing"]
  /\ WriteLine(e)
  /\ UNCHANGED <<flushVars, busVars, calm>>

\* Mutant: the error return leaves o.mu locked.
AppendFragmentKeepsLock(e) ==
  /\ May("short_write")
  /\ call[e] = "waiting"
  /\ mu = Nobody
  /\ mu' = "never unlocked"
  /\ call' = [call EXCEPT ![e] = "failed"]
  /\ torn' = TRUE
  /\ UNCHANGED <<file, overlong, flushVars, busVars, lost, calm>>

\* f.Write fails part of the way, and Enqueue returns the error.
AppendFragment(e) ==
  /\ May("short_write")
  /\ call[e] = "waiting"
  /\ mu = Nobody
  /\ call' = [call EXCEPT ![e] = "failed"]
  /\ torn' = TRUE
  /\ UNCHANGED <<file, overlong, mu, flushVars, busVars, lost, calm>>

\* f.Sync has returned.
EnqueueReturns(e) ==
  /\ mu = e
  /\ mu' = Nobody
  /\ call' = [call EXCEPT ![e] = "acked"]
  /\ UNCHANGED <<fileVars, flushVars, busVars, lost, calm>>

-----------------------------------------------------------------------------
(* flush *)

\* The scan takes the first n lines: all of them, unless it meets one that is
\* too long or cannot read on.  flush does not look at scanner.Err().
ScanTakes(n) ==
  /\ \A i \in 1..n : file[i] \notin overlong
  /\ n < Len(file) => file[n + 1] \in overlong \/ May("read")

StartFlush ==
  /\ mu = Nobody
  /\ mu' = Flush
  /\ \E n \in 0..Len(file) :
       /\ ScanTakes(n)
       /\ records' = SubSeq(file, 1, n)
       /\ unread' = SubSeq(file, n + 1, Len(file))
  /\ remaining' = <<>>
  /\ UNCHANGED <<fileVars, call, busVars, lost, calm>>

BusGets(e) ==
  /\ delivered' = delivered \cup {e}
  /\ again' = (again \/ e \in delivered)

PublishOk ==
  /\ mu = Flush
  /\ records # <<>>
  /\ records' = Tail(records)
  /\ BusGets(Head(records))
  /\ UNCHANGED <<fileVars, mu, call, unread, remaining, faulted, lost, calm>>

\* Mutants: a failed record is dropped; it is put in front of the others.
PublishFailsDrops ==
  /\ mu = Flush /\ ~calm /\ records # <<>>
  /\ records' = Tail(records)
  /\ UNCHANGED <<fileVars, mu, call, unread, remaining, busVars, lost, calm>>

PublishFailsPrepends ==
  /\ mu = Flush /\ ~calm /\ records # <<>>
  /\ records' = Tail(records)
  /\ remaining' = <<Head(records)>> \o remaining
  /\ UNCHANGED <<fileVars, mu, call, unread, busVars, lost, calm>>

\* Publish fails: the record is carried forward and the loop goes on with
\* the next one.
PublishFails ==
  /\ mu = Flush
  /\ ~calm
  /\ records # <<>>
  /\ records' = Tail(records)
  /\ remaining' = Append(remaining, Head(records))
  /\ \/ UNCHANGED busVars
     \/ May("late") /\ BusGets(Head(records)) /\ faulted' = TRUE
  /\ UNCHANGED <<fileVars, mu, call, unread, lost, calm>>

\* Mutants: the carry-forward list is not emptied; a flush that published
\* everything does not compact the log.
RewriteKeepsRemaining ==
  /\ mu = Flush /\ records = <<>>
  /\ mu' = Nobody
  /\ file' = remaining
  /\ torn' = FALSE
  /\ unread' = <<>>
  /\ overlong' = {}
  /\ lost' = lost \cup ToSet(unread)
  /\ UNCHANGED <<call, records, remaining, busVars, calm>>

RewriteOnlyIfRemaining ==
  /\ mu = Flush /\ records = <<>>
  /\ mu' = Nobody
  /\ file' = IF remaining = <<>> THEN file ELSE remaining
  /\ torn' = FALSE
  /\ unread' = <<>>
  /\ remaining' = <<>>
  /\ overlong' = {}
  /\ lost' = lost \cup ToSet(unread)
  /\ UNCHANGED <<call, records, busVars, calm>>

\* The new file replaces the old one when it is renamed; the lines the scan did
\* not reach are gone.
Rewrite ==
  /\ mu = Flush
  /\ records = <<>>
  /\ mu' = Nobody
  /\ file' = remaining
  /\ torn' = FALSE
  /\ unread' = <<>>
  /\ remaining' = <<>>
  /\ overlong' = {}
  /\ lost' = lost \cup ToSet(unread)
  /\ UNCHANGED <<call, records, busVars, calm>>

RewriteFails ==
  /\ May("rewrite")
  /\ mu = Flush
  /\ records = <<>>
  /\ mu' = Nobody
  /\ unread' = <<>>
  /\ remaining' = <<>>
  /\ faulted' = TRUE
  /\ UNCHANGED <<fileVars, call, records, delivered, again, lost, calm>>

-----------------------------------------------------------------------------
(* The environment *)

\* The process dies at any point and is started again.
Crash ==
  /\ May("crash")
  /\ mu' = Nobody
  /\ call' = [e \in Events |->
                IF call[e] \in {"waiting", "writing"} THEN "dead" ELSE call[e]]
  /\ records' = <<>>
  /\ unread' = <<>>
  /\ remaining' = <<>>
  /\ faulted' = (faulted \/ mu = Flush)
  /\ UNCHANGED <<fileVars, delivered, again, lost, calm>>

Calm ==
  /\ ~calm
  /\ calm' = TRUE
  /\ UNCHANGED <<fileVars, mu, call, flushVars, busVars, lost>>

EnqueueStep(e) ==
  Enqueue(e) \/ AppendLine(e) \/ AppendFragment(e) \/ EnqueueReturns(e)

FlushStep == StartFlush \/ PublishOk \/ PublishFails \/ Rewrite \/ RewriteFails

Next == (\E e \in Events : EnqueueStep(e)) \/ FlushStep \/ Crash \/ Calm

Spec == Init /\ [][Next]_vars

(***************************************************************************)
(* ReplayLoop's ticker keeps starting flushes, Publish returns within its  *)
(* timeout, and Go's mutex serves its waiters in turn.  No Enqueue need be *)
(* called and the bus need never come back.                                *)
(***************************************************************************)
Fairness ==
  /\ WF_vars(FlushStep)
  /\ \A e \in Events : SF_vars(AppendLine(e)) /\ WF_vars(EnqueueReturns(e))

FairSpec == Spec /\ Fairness

-----------------------------------------------------------------------------
(* Properties *)

\* Types, and what o.mu protects: only its holder writes a line, and a flush
\* leaves nothing behind for the next one.
TypeOK ==
  /\ file \in Seq(Events)
  /\ overlong \in SUBSET Events
  /\ torn \in BOOLEAN
  /\ mu \in Events \cup {Nobody, Flush}
  /\ mu \in Events => call[mu] = "writing"
  /\ mu # Flush => records = <<>> /\ unread = <<>> /\ remaining = <<>>
  /\ call \in [Events -> CallState]
  /\ records \in Seq(Events)
  /\ unread \in Seq(Events)
  /\ remaining \in Seq(Events)
  /\ delivered \in SUBSET Events
  /\ again \in BOOLEAN
  /\ faulted \in BOOLEAN
  /\ lost \in SUBSET Events
  /\ calm \in BOOLEAN

\* An event whose Enqueue returned nil is in the log until the bus has it,
\* whatever crashes and failed rewrites come in between (outbox.go, 1-10):
\* "survives a process crash".
AckedNotLost ==
  \A e \in Events :
    call[e] = "acked" => e \in ToSet(file) \cup delivered

\* An acknowledged event is lost in two ways only: its line merged with a
\* fragment, or the scan of a flush ended in front of it and the log was then
\* replaced.  Every other one survives the crashes, the failed rewrites, the
\* failed publishes and the fragments of others.
LossIsContained ==
  \A e \in Events :
    call[e] = "acked" /\ e \notin lost
      => e \in ToSet(file) \cup delivered

\* A flush in progress can account for every line it is about to replace: the
\* bus has it, it is still to be published, it is carried forward, or the scan
\* ended in front of it.  Nothing is appended behind the back of a flush.
FlushCoversFile ==
  mu = Flush =>
    ToSet(file) \subseteq
      ToSet(records) \cup ToSet(remaining) \cup delivered \cup ToSet(unread)

\* The bus gets an event twice only after a late acknowledgement, a failed
\* rewrite or a crash in the middle of a flush.
NoSpuriousDuplicate == again => faulted

\* An Enqueue call returns, however long the flushes hold o.mu and even if
\* the bus never comes back, unless the process dies first.
EnqueueTerminates ==
  \A e \in Events : call[e] = "waiting" ~> call[e] \notin {"waiting", "writing"}

\* Lines no flush gets to: those the running one has not read, and those at
\* or behind one that is too long.
OutOfReach ==
  ToSet(unread) \cup
    {file[j] : j \in {k \in DOMAIN file : \E i \in 1..k : file[i] \in overlong}}

\* Once the bus stays reachable and the disk works, every acknowledged event
\* that is neither lost already nor out of reach gets to the bus, and leaves
\* the log.
BacklogDrains ==
  \A e \in Events :
    calm /\ call[e] = "acked" /\ e \notin lost \cup OutOfReach
      ~> e \in delivered /\ e \notin ToSet(file)

\* "Keep this and everything after it, preserving order" (outbox.go,
\* 114-115): an event never overtakes one that is ahead of it in the log.
ReplayInOrder ==
  [][\A i, j \in 1..Len(file) :
       i < j /\ file[j] \notin delivered
             /\ file[j] \in delivered'
         => file[i] \in delivered]_vars

\* The log is a durable queue with these faults: every step of the outbox is a
\* step of the abstract queue of its lines, or none.  Enqueue returns nil only
\* for an event the queue accepted or spoiled.
Queue == INSTANCE DurableQueue
           WITH queue <- file, acked <- {e \in Events : call[e] = "acked"}
ImplementsQueue == Queue!DQSpec
=============================================================================
