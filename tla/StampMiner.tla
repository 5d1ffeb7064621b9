----------------------------- MODULE StampMiner -----------------------------
(***************************************************************************)
(* One call of GenerateStamp: workers draw stamps at random until one is   *)
(* good enough or the context ends; a channel with room for one stamp      *)
(* carries it to the caller, and is closed when the last worker has gone.  *)
(*                                                                         *)
(* Source: GenerateStamp, StampValid and StampValue of core/stamper.go.    *)
(* A stamp is its digest with the workblock, of Bits bits (256).           *)
(* rand.Read does not fail with the Go version that go.mod asks for.       *)
(***************************************************************************)
EXTENDS Integers, FiniteSets

CONSTANTS
  NumCPU,       \* runtime.NumCPU()
  Bits,         \* the width of a digest
  StampCosts,   \* the costs that may be asked
  None          \* no stamp

\* The bits of a digest from the most significant one: bit i weighs 2^(Bits-1-i).
Place  == 0..(Bits - 1)
Digest == [Place -> {0, 1}]

\* What GenerateStamp returns with a nil error.
Mined == [stamp : Digest, value : 0..Bits]

ASSUME MinerAssumption ==
  /\ NumCPU \in Nat /\ Bits \in Nat \ {0} /\ StampCosts \subseteq Int
  /\ None \notin Digest \cup Mined

\* Half of many processors, one at least.
Workers == IF NumCPU > 12 THEN NumCPU \div 2 ELSE IF NumCPU < 1 THEN 1 ELSE NumCPU
Worker  == 1..Workers

VARIABLES
  stampCost,   \* the argument
  ctx,         \* the caller's context: "live" or "done"
  cancelled,   \* cancel() of the derived context was called
  worker,      \* where each goroutine stands
  drawn,       \* what a worker that found a stamp found
  resultCh,    \* what is in the channel
  closed,      \* the channel is closed
  caller,      \* where the caller stands: "starting", "waiting", "returned"
  result,      \* what the caller returns: None is an error
  found        \* history: a worker has found a stamp

vars == <<stampCost, ctx, cancelled, worker, drawn, resultCh, closed, caller,
          result, found>>

TypeOK ==
  /\ stampCost \in StampCosts
  /\ ctx \in {"live", "done"} /\ cancelled \in BOOLEAN
  /\ worker \in [Worker -> {"unborn", "select", "draw", "send", "cancel", "gone"}]
  /\ drawn \in [Worker -> Digest \cup {None}]
  /\ resultCh \subseteq Digest /\ closed \in BOOLEAN
  /\ caller \in {"starting", "waiting", "returned"}
  /\ result \in Mined \cup {None}
  /\ found \in BOOLEAN

-----------------------------------------------------------------------------
\* 1 << (Bits - cost)
Target(cost) == [i \in Place |-> IF i = cost - 1 THEN 1 ELSE 0]

\* val.Cmp(target) <= 0
AtMost(d, target) ==
  \/ d = target
  \/ \E i \in Place : d[i] < target[i] /\ \A j \in 0..(i - 1) : d[j] = target[j]

\* Variant: the target is shifted one bit too far.
StampValidLow(d, cost) ==
  cost \in 1..(Bits - 1) /\ (cost = 1 \/ AtMost(d, Target(cost - 1)))

StampValid(d, cost) == cost \in 1..(Bits - 1) /\ AtMost(d, Target(cost))

\* How many bits the loop passes before it ends at one that is set.
StampValue(d) == Cardinality({u \in Place : \A v \in 0..u : d[v] = 0})

\* The derived context is done.
Done == ctx = "done" \/ cancelled

Init ==
  /\ stampCost \in StampCosts
  /\ ctx \in {"live", "done"}
  /\ cancelled = FALSE
  /\ worker = [w \in Worker |-> "unborn"]
  /\ drawn = [w \in Worker |-> None]
  /\ resultCh = {}
  /\ closed = FALSE
  /\ caller = "starting"
  /\ result = None
  /\ found = FALSE

-----------------------------------------------------------------------------
(* The caller and its context.                                             *)

\* The context given to GenerateStamp ends.
CallerCancels ==
  /\ ctx = "live"
  /\ ctx' = "done"
  /\ UNCHANGED <<stampCost, cancelled, worker, drawn, resultCh, closed, caller,
                 result, found>>

StartWorker(w) ==
  /\ caller = "starting" /\ worker[w] = "unborn"
  /\ \A v \in Worker : v < w => worker[v] # "unborn"
  /\ worker' = [worker EXCEPT ![w] = "select"]
  /\ caller' = IF w = Workers THEN "waiting" ELSE "starting"
  /\ UNCHANGED <<stampCost, ctx, cancelled, drawn, resultCh, closed, result, found>>

\* res, ok := <-resultCh, and the deferred cancel.
Return ==
  /\ caller = "waiting"
  /\ \/ \E d \in resultCh :
          /\ result' = [stamp |-> d, value |-> StampValue(d)]
          /\ resultCh' = resultCh \ {d}
     \/ /\ resultCh = {} /\ closed
        /\ UNCHANGED <<result, resultCh>>
  /\ caller' = "returned"
  /\ cancelled' = TRUE
  /\ UNCHANGED <<stampCost, ctx, worker, drawn, closed, found>>

-----------------------------------------------------------------------------
(* A worker.                                                               *)

Goto(w, pc) == worker' = [worker EXCEPT ![w] = pc]

\* Variant: the context is not looked at.
NeverDone(w) ==
  /\ worker[w] = "select"
  /\ Goto(w, "draw")
  /\ UNCHANGED <<stampCost, ctx, cancelled, drawn, resultCh, closed, caller,
                 result, found>>

CheckContext(w) ==
  /\ worker[w] = "select"
  /\ Goto(w, IF Done THEN "gone" ELSE "draw")
  /\ UNCHANGED <<stampCost, ctx, cancelled, drawn, resultCh, closed, caller,
                 result, found>>

Draw(w, d) ==
  /\ worker[w] = "draw"
  /\ IF StampValid(d, stampCost)
     THEN /\ Goto(w, "send")
          /\ drawn' = [drawn EXCEPT ![w] = d]
          /\ found' = TRUE
     ELSE Goto(w, "select") /\ UNCHANGED <<drawn, found>>
  /\ UNCHANGED <<stampCost, ctx, cancelled, resultCh, closed, caller, result>>

\* Variant: no buffer, so that the caller must be receiving.
HasReceiver == caller = "waiting"

HasRoom == resultCh = {}

\* Variant: a send that waits for room.
SendBlocking(w) ==
  /\ worker[w] = "send" /\ resultCh = {}
  /\ resultCh' = {drawn[w]}
  /\ Goto(w, "cancel")
  /\ UNCHANGED <<stampCost, ctx, cancelled, drawn, closed, caller, result, found>>

\* The send that does not block: into the channel, or the stamp is dropped.
SendResult(w) ==
  /\ worker[w] = "send"
  /\ IF HasRoom
     THEN resultCh' = resultCh \cup {drawn[w]} /\ Goto(w, "cancel")
     ELSE Goto(w, "gone") /\ UNCHANGED resultCh
  /\ UNCHANGED <<stampCost, ctx, cancelled, drawn, closed, caller, result, found>>

Cancel(w) ==
  /\ worker[w] = "cancel"
  /\ cancelled' = TRUE
  /\ Goto(w, "gone")
  /\ UNCHANGED <<stampCost, ctx, drawn, resultCh, closed, caller, result, found>>

\* Variant: workers count only once they run.
CloseEarly ==
  /\ ~closed /\ caller # "starting"
  /\ \A w \in Worker : worker[w] \in {"select", "gone"}
  /\ closed' = TRUE
  /\ UNCHANGED <<stampCost, ctx, cancelled, worker, drawn, resultCh, caller,
                 result, found>>

\* The goroutine that waits for all workers.
CloseResults ==
  /\ ~closed /\ caller # "starting"
  /\ \A w \in Worker : worker[w] = "gone"
  /\ closed' = TRUE
  /\ UNCHANGED <<stampCost, ctx, cancelled, worker, drawn, resultCh, caller,
                 result, found>>

Step(w) == CheckContext(w) \/ (\E d \in Digest : Draw(w, d)) \/ SendResult(w) \/ Cancel(w)

Next ==
  \/ CallerCancels \/ Return \/ CloseResults
  \/ \E w \in Worker : StartWorker(w) \/ Step(w)

Spec == Init /\ [][Next]_vars

\* Goroutines are scheduled, and draws that can succeed do so some day.
Find(w) == \E d \in Digest : StampValid(d, stampCost) /\ Draw(w, d)

Fairness ==
  /\ WF_vars(Return) /\ WF_vars(CloseResults)
  /\ \A w \in Worker : /\ WF_vars(StartWorker(w))
                       /\ WF_vars(Step(w))
                       /\ SF_vars(Find(w))

FairSpec == Spec /\ Fairness

-----------------------------------------------------------------------------
(* Properties.                                                             *)

\* A stamp that was found is on its way to the caller until the caller has one.
FoundIsCarried ==
  found => \/ \E w \in Worker : worker[w] = "send"
           \/ resultCh # {}
           \/ result # None

\* A worker sends what it has drawn, and cancels after that.
FinderHasStamp ==
  \A w \in Worker : /\ worker[w] = "send" => drawn[w] # None
                    /\ worker[w] \in {"send", "cancel"} => found

\* The channel is closed, and the caller told that there is no stamp, only
\* after the last worker.
ClosedLast ==
  /\ closed => \A w \in Worker : worker[w] = "gone"
  /\ caller = "returned" /\ result = None => closed /\ resultCh = {}

\* Until the context ends or a stamp is found no worker goes, and nothing is
\* sent or cancelled.
GoneForCause ==
  \/ ctx = "done" \/ found
  \/ ~cancelled /\ resultCh = {} /\ \A w \in Worker : worker[w] # "gone"

\* Whatever is on its way to the caller was checked against the cost, and the
\* value is that of the stamp it comes with.
StampsAreValid ==
  /\ \A w \in Worker : drawn[w] # None => StampValid(drawn[w], stampCost)
  /\ \A d \in resultCh : StampValid(d, stampCost)
  /\ result # None => /\ StampValid(result.stamp, stampCost)
                      /\ result.value = StampValue(result.stamp)

MinerInv ==
  /\ TypeOK /\ StampsAreValid
  /\ FoundIsCarried /\ FinderHasStamp /\ ClosedLast /\ GoneForCause

\* stamper.go:149 "Pass a cancellable context to abort generation early": the
\* caller is told that there is no stamp only if its context ended and no worker
\* had found one, however workers, channel and cancellation interleave.
ErrorMeansNoneFound ==
  caller = "returned" /\ result = None => ctx = "done" /\ ~found

\* The value reported with a stamp, counted in leading zero bits, reaches the
\* cost that was asked, counted as a bound on the digest; except for the one
\* digest that equals the bound, which has one leading zero bit less.
ValueMeetsCost ==
  result # None =>
    \/ result.value >= stampCost
    \/ result.stamp = Target(stampCost) /\ result.value = stampCost - 1

Attainable == \E d \in Digest : StampValid(d, stampCost)

\* The call ends when its context does, and ends anyway when the cost can be
\* met.  A cost of 0 or of more than 255 bits cannot: Send, which mines with
\* context.Background(), never returns with one.
Returns == (ctx = "done" \/ Attainable) ~> caller = "returned"

\* After the call no worker stays behind, and neither does the goroutine that
\* waits for them, though several may hold a stamp and one is received.
NoneLeftBehind == caller = "returned" ~> closed
=============================================================================
