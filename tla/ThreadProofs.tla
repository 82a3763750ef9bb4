--------------------------- MODULE ThreadProofs -----------------------------
(***************************************************************************)
(* Theorems about what crosses threads, for any workers, tasks,            *)
(* registrations and bounds.  Handoff: nothing is stranded, everything     *)
(* arrives once and in order, and every step maps to a step of Mailbox or  *)
(* a stutter.  Executor: a task with something to do has a turn of the     *)
(* driver coming.  Callback: whatever a framework may call with is still   *)
(* there.                                                                  *)
(***************************************************************************)
EXTENDS Handoff, Executor, Callback, SequenceTheorems, TLAPS

-----------------------------------------------------------------------------
(* Handoff. *)

\* What the mutex is for: it is held exactly between emptying the vector and
\* clearing the flag, and nothing is pushed meanwhile.
Exclusion == /\ locked <=> main = "clearing"
             /\ locked => held = <<>>

\* No value is in the log that its worker has not sent.
OnlySent == \A i \in DOMAIN Log : Log[i][2] <= sent[Log[i][1]]

\* The inductive invariant.  NothingStranded needs Exclusion at Clear, where
\* the flag goes down: the vector is still as empty as Empty left it.
\* InOrderOnce needs OnlySent at Push: what is appended comes after it all.
HandoffInv == TypeOK /\ Exclusion /\ NothingStranded /\ OnlySent /\ InOrderOnce

-----------------------------------------------------------------------------
\* The log is a sequence of values, and has a position for every one of them.
LEMMA LogType ==
  ASSUME TypeOK
  PROVE  /\ Log \in Seq(Value)
         /\ DOMAIN Log = 1 .. Len(Log)
         /\ \A i \in DOMAIN Log : Log[i] \in Value
BY ConcatProperties DEF TypeOK, Log

\* A batch is a sequence of values of its worker's, the next ones in line.
LEMMA BatchType ==
  ASSUME TypeOK, NEW w \in Worker, NEW n \in Nat
  PROVE  /\ Batch(w, n) \in Seq(Value)
         /\ Len(Batch(w, n)) = n
         /\ \A k \in 1 .. n : Batch(w, n)[k] = <<w, sent[w] + k>>
BY DEF TypeOK, Batch, Value

\* Pushing a batch appends it to the log; taking moves values within it.
LEMMA PushAppends ==
  ASSUME TypeOK, NEW w \in Worker, NEW n \in Nat,
         held' = held \o Batch(w, n), taken' = taken
  PROVE  Log' = Log \o Batch(w, n)
<1>1. taken \in Seq(Value) /\ held \in Seq(Value) /\ Batch(w, n) \in Seq(Value)
  BY BatchType DEF TypeOK
<1>2. (taken \o held) \o Batch(w, n) = taken \o (held \o Batch(w, n))
  BY <1>1, ConcatAssociative
<1>3. QED
  BY <1>2 DEF Log

LEMMA TakeKeepsLog ==
  ASSUME TypeOK, taken' = taken \o held, held' = <<>>
  PROVE  Log' = Log
<1>1. taken \o held \in Seq(Value)
  BY ConcatProperties DEF TypeOK
<1>2. QED
  BY <1>1, ConcatEmptySeq DEF Log

-----------------------------------------------------------------------------
\* Every variable keeps its type at every step of the code.
LEMMA HandoffTypeStep == ASSUME TypeOK, [Next]_vars PROVE TypeOK'
<1>1. ASSUME NEW w \in Worker, Push(w) PROVE TypeOK'
  <2>1. PICK n \in 1 .. MaxBatch :
           /\ held' = held \o Batch(w, n)
           /\ sent' = [sent EXCEPT ![w] = @ + n]
    BY <1>1 DEF Push
  <2>2. n \in Nat
    BY SendsAssumption
  <2>3. held' \in Seq(Value)
    BY <2>1, <2>2, BatchType, ConcatProperties DEF TypeOK
  <2>4. QED
    BY <1>1, <2>1, <2>2, <2>3 DEF Push, TypeOK
<1>2. ASSUME NEW w \in Worker, Flag(w) PROVE TypeOK'
  BY <1>2 DEF Flag, TypeOK
<1>3. ASSUME NEW w \in Worker, WakeMain(w) PROVE TypeOK'
  BY <1>3 DEF WakeMain, TypeOK
<1>4. CASE OtherWake
  BY <1>4 DEF OtherWake, TypeOK
<1>5. CASE BeginPass
  BY <1>5 DEF BeginPass, TypeOK
<1>6. CASE Ready
  BY <1>6 DEF Ready, TypeOK
<1>7. CASE Empty
  <2>1. taken' \in Seq(Value) /\ held' \in Seq(Value)
    BY <1>7, ConcatProperties DEF Empty, TypeOK
  <2>2. QED
    BY <1>7, <2>1 DEF Empty, TypeOK
<1>8. CASE Clear
  BY <1>8 DEF Clear, TypeOK
<1>9. CASE UNCHANGED vars
  BY <1>9 DEF vars, TypeOK
<1>10. QED
  BY <1>1, <1>2, <1>3, <1>4, <1>5, <1>6, <1>7, <1>8, <1>9 DEF Next, Send, Pass

\* The mutex does what it is held for, and the flag and the wakes keep up.
LEMMA WakeStep ==
  ASSUME TypeOK, Exclusion, NothingStranded, [Next]_vars
  PROVE  Exclusion' /\ NothingStranded'
<1> USE DEF Exclusion, NothingStranded
<1>1. ASSUME NEW w \in Worker, Push(w) PROVE Exclusion' /\ NothingStranded'
  BY <1>1 DEF Push, TypeOK
<1>2. ASSUME NEW w \in Worker, Flag(w) PROVE Exclusion' /\ NothingStranded'
  <2>1. worker'[w] = "flagged" /\ landed'
    BY <1>2 DEF Flag, TypeOK
  <2>2. QED
    BY <1>2, <2>1 DEF Flag
<1>3. ASSUME NEW w \in Worker, WakeMain(w) PROVE Exclusion' /\ NothingStranded'
  <2>1. /\ worker[w] = "flagged" /\ signalled'
        /\ \A v \in Worker : worker[v] = "pushed" => worker'[v] = "pushed"
    BY <1>3 DEF WakeMain, TypeOK
  <2>2. QED
    BY <1>3, <2>1 DEF WakeMain
<1>4. CASE OtherWake
  BY <1>4 DEF OtherWake
<1>5. CASE BeginPass
  BY <1>5 DEF BeginPass
<1>6. CASE Ready
  BY <1>6 DEF Ready, TypeOK
<1>7. CASE Empty
  BY <1>7 DEF Empty
<1>8. CASE Clear
  BY <1>8 DEF Clear
<1>9. CASE UNCHANGED vars
  BY <1>9 DEF vars
<1>10. QED
  BY <1>1, <1>2, <1>3, <1>4, <1>5, <1>6, <1>7, <1>8, <1>9 DEF Next, Send, Pass

\* A push puts the worker's next values behind everything already there.
LEMMA PushKeepsOrder ==
  ASSUME TypeOK, OnlySent, InOrderOnce, NEW w \in Worker, Push(w)
  PROVE  OnlySent' /\ InOrderOnce'
<1>1. PICK n \in 1 .. MaxBatch :
         /\ held' = held \o Batch(w, n)
         /\ sent' = [sent EXCEPT ![w] = @ + n]
  BY DEF Push
<1>2. n \in Nat
  BY SendsAssumption
<1> DEFINE B == Batch(w, n)
           L == Len(Log)
<1>3. /\ B \in Seq(Value) /\ Len(B) = n
      /\ \A k \in 1 .. n : B[k] = <<w, sent[w] + k>>
  BY <1>2, BatchType
<1>4. Log \in Seq(Value) /\ DOMAIN Log = 1 .. L /\ L \in Nat
  BY LogType
<1>5. Log' = Log \o B
  BY <1>1, <1>2, PushAppends DEF Push
<1> HIDE DEF B
<1>6. /\ DOMAIN Log' = 1 .. L + n
      /\ \A i \in 1 .. L : Log'[i] = Log[i]
      /\ \A k \in 1 .. n : Log'[L + k] = <<w, sent[w] + k>>
  <2>1. /\ Len(Log \o B) = L + n /\ Log \o B \in Seq(Value)
        /\ \A i \in 1 .. L + n : (Log \o B)[i] = IF i <= L THEN Log[i] ELSE B[i - L]
    BY <1>3, <1>4, ConcatProperties
  <2>2. DOMAIN Log' = 1 .. L + n
    BY <1>5, <2>1
  <2>3. \A i \in 1 .. L : Log'[i] = Log[i]
    BY <1>2, <1>4, <1>5, <2>1
  <2>4. ASSUME NEW k \in 1 .. n PROVE Log'[L + k] = <<w, sent[w] + k>>
    <3>1. L + k \in 1 .. L + n /\ ~(L + k <= L) /\ (L + k) - L = k
      BY <1>2, <1>4
    <3>2. QED
      BY <1>3, <1>5, <2>1, <3>1
  <2>5. QED
    BY <2>2, <2>3, <2>4
<1>7. \A i \in 1 .. L + n :
         \/ i \in 1 .. L /\ Log'[i] = Log[i] /\ Log[i] \in Value
         \/ \E k \in 1 .. n : i = L + k /\ Log'[i] = <<w, sent[w] + k>>
  <2>1. TAKE i \in 1 .. L + n
  <2>2. CASE i <= L
    BY <2>2, <1>4, <1>6, LogType
  <2>3. CASE i > L
    <3>1. i - L \in 1 .. n /\ i = L + (i - L)
      BY <2>3, <1>2, <1>4
    <3>2. QED
      BY <3>1, <1>6
  <2>4. QED
    BY <2>2, <2>3, <1>4
<1>8. /\ \A v \in Worker : sent'[v] = IF v = w THEN sent[w] + n ELSE sent[v]
      /\ \A v \in Worker : sent[v] \in Nat
  BY <1>1, <1>2 DEF TypeOK
<1>9. OnlySent'
  <2>1. SUFFICES ASSUME NEW i \in 1 .. L + n
                 PROVE  Log'[i][2] <= sent'[Log'[i][1]]
    BY <1>6 DEF OnlySent
  <2>2. CASE i \in 1 .. L /\ Log'[i] = Log[i] /\ Log[i] \in Value
    <3>1. Log[i][1] \in Worker /\ Log[i][2] \in Nat /\ Log[i][2] <= sent[Log[i][1]]
      BY <2>2, <1>4 DEF OnlySent, Value
    <3>2. PICK v \in Worker, m \in Nat : v = Log[i][1] /\ m = Log[i][2] /\ m <= sent[v]
      BY <3>1
    <3>3. m <= sent'[v]
      BY <3>2, <1>2, <1>8
    <3>4. QED
      BY <2>2, <3>2, <3>3
  <2>3. CASE \E k \in 1 .. n : i = L + k /\ Log'[i] = <<w, sent[w] + k>>
    BY <2>3, <1>2, <1>8
  <2>4. QED
    BY <1>7, <2>2, <2>3
<1>10. ASSUME NEW i \in 1 .. L + n, NEW j \in 1 .. L + n,
              i < j, Log'[i][1] = Log'[j][1]
       PROVE  Log'[i][2] < Log'[j][2]
  <2>1. CASE j \in 1 .. L
    <3>1. i \in 1 .. L
      BY <2>1, <1>4, <1>10
    <3>2. QED
      BY <2>1, <3>1, <1>4, <1>6, <1>10 DEF InOrderOnce
  <2>2. CASE i \in 1 .. L /\ j \notin 1 .. L
    <3>1. PICK k \in 1 .. n : Log'[j] = <<w, sent[w] + k>>
      BY <2>2, <1>7
    <3>2. Log'[i] = Log[i] /\ Log[i] \in Value /\ Log[i][2] <= sent[w]
      BY <2>2, <3>1, <1>4, <1>6, <1>10, LogType DEF OnlySent
    <3>3. QED
      BY <3>1, <3>2, <1>2, <1>8 DEF Value
  <2>3. CASE i \notin 1 .. L /\ j \notin 1 .. L
    <3>1. PICK k \in 1 .. n : i = L + k /\ Log'[i] = <<w, sent[w] + k>>
      BY <2>3, <1>7
    <3>2. PICK m \in 1 .. n : j = L + m /\ Log'[j] = <<w, sent[w] + m>>
      BY <2>3, <1>7
    <3>3. QED
      BY <3>1, <3>2, <1>2, <1>4, <1>8, <1>10
  <2>4. QED
    BY <2>1, <2>2, <2>3
<1>11. ASSUME NEW v \in Worker, NEW k \in 1 .. sent'[v]
       PROVE  \E i \in 1 .. L + n : Log'[i] = <<v, k>>
  <2>1. CASE k \in 1 .. sent[v]
    <3>1. PICK i \in 1 .. L : Log[i] = <<v, k>>
      BY <2>1, <1>4 DEF InOrderOnce
    <3>2. i \in 1 .. L + n /\ Log'[i] = Log[i]
      BY <1>2, <1>4, <1>6
    <3>3. QED
      BY <3>1, <3>2
  <2>2. CASE k \notin 1 .. sent[v]
    <3>1. v = w /\ k - sent[w] \in 1 .. n
      BY <2>2, <1>2, <1>8
    <3>2. Log'[L + (k - sent[w])] = <<w, sent[w] + (k - sent[w])>>
      BY <3>1, <1>6
    <3>3. sent[w] + (k - sent[w]) = k /\ L + (k - sent[w]) \in 1 .. L + n
      BY <3>1, <1>2, <1>4, <1>8
    <3>4. QED
      BY <3>1, <3>2, <3>3
  <2>3. QED
    BY <2>1, <2>2
<1>12. QED
  BY <1>6, <1>9, <1>10, <1>11 DEF InOrderOnce

\* Taking changes nothing about what was sent and in which order.
LEMMA OrderStep ==
  ASSUME TypeOK, OnlySent, InOrderOnce, [Next]_vars
  PROVE  OnlySent' /\ InOrderOnce'
<1>1. ASSUME Log' = Log, sent' = sent PROVE OnlySent' /\ InOrderOnce'
  BY <1>1 DEF OnlySent, InOrderOnce
<1>2. CASE Empty
  BY <1>1, <1>2, TakeKeepsLog DEF Empty
<1>3. ASSUME UNCHANGED <<held, taken, sent>> PROVE OnlySent' /\ InOrderOnce'
  BY <1>1, <1>3 DEF Log
<1>4. ASSUME NEW w \in Worker, Push(w) PROVE OnlySent' /\ InOrderOnce'
  BY <1>4, PushKeepsOrder
<1>5. ASSUME NEW w \in Worker, Flag(w) \/ WakeMain(w)
      PROVE  UNCHANGED <<held, taken, sent>>
  BY <1>5 DEF Flag, WakeMain
<1>6. CASE OtherWake \/ BeginPass \/ Ready \/ Clear \/ UNCHANGED vars
  BY <1>6, <1>3 DEF OtherWake, BeginPass, Ready, Clear, vars
<1>7. QED
  BY <1>2, <1>3, <1>4, <1>5, <1>6 DEF Next, Send, Pass

-----------------------------------------------------------------------------
\* Nobody has sent anything: the invariant holds of the initial state.
LEMMA HandoffStart == ASSUME Init PROVE HandoffInv
<1>0. <<>> \in Seq(Value)
  OBVIOUS
<1>1. TypeOK /\ Exclusion /\ NothingStranded
  BY <1>0 DEF Init, TypeOK, Exclusion, NothingStranded
<1>2. Log = <<>>
  BY ConcatEmptySeq DEF Init, Log
<1>3. DOMAIN Log = {} /\ \A w \in Worker : 1 .. sent[w] = {}
  BY <1>2 DEF Init
<1>4. QED
  BY <1>1, <1>3 DEF HandoffInv, OnlySent, InOrderOnce

\* The invariant is inductive and holds of every behaviour.
LEMMA HandoffHolds == Spec => []HandoffInv
<1>1. Init => HandoffInv
  BY HandoffStart
<1>2. HandoffInv /\ [Next]_vars => HandoffInv'
  BY HandoffTypeStep, WakeStep, OrderStep DEF HandoffInv
<1>3. QED
  BY <1>1, <1>2, PTL DEF Spec

\* The types of the mutex's contents, the flag, the two threads' positions.
THEOREM HandoffTyped == Spec => []TypeOK
<1>1. HandoffInv => TypeOK
  BY DEF HandoffInv
<1>2. QED
  BY <1>1, HandoffHolds, PTL

\* pool.rs: a result pushed between the take and the clear is not lost, and the
\* pass a send causes does not arrive to find the flag still down.
THEOREM NeverStranded == Spec => []NothingStranded
<1>1. HandoffInv => NothingStranded
  BY DEF HandoffInv
<1>2. QED
  BY <1>1, HandoffHolds, PTL

\* Whatever the workers and however many, everything arrives exactly once and
\* each worker's results in the order it sent them.
THEOREM ArrivesInOrderOnce == Spec => []InOrderOnce
<1>1. HandoffInv => InOrderOnce
  BY DEF HandoffInv
<1>2. QED
  BY <1>1, HandoffHolds, PTL

\* A push is a Put, and the emptying of a vector with something in it a Collect.
LEMMA MailboxStart == Init => Abstract!Init
BY DEF Init, Abstract!Init

LEMMA MailboxStep == HandoffInv /\ [Next]_vars => [Abstract!Next]_(Abstract!vars)
<1> SUFFICES ASSUME HandoffInv, [Next]_vars PROVE [Abstract!Next]_(Abstract!vars)
  OBVIOUS
<1> USE DEF Abstract!vars
<1>0. TypeOK
  BY DEF HandoffInv
<1>1. ASSUME NEW w \in Worker, Push(w) PROVE Abstract!Put
  <2>1. PICK n \in 1 .. MaxBatch : held' = held \o Batch(w, n)
    BY <1>1 DEF Push
  <2>2. n \in Nat /\ n > 0
    BY SendsAssumption
  <2>3. Batch(w, n) \in Seq(Value) /\ Len(Batch(w, n)) = n
    BY <1>0, <2>2, BatchType
  <2>4. held \in Seq(Value)
    BY <1>0 DEF TypeOK
  <2>5. /\ held' \in Seq(Value) /\ Len(held) < Len(held')
        /\ \A i \in 1 .. Len(held) : held'[i] = held[i]
    BY <2>1, <2>2, <2>3, <2>4, ConcatProperties
  <2>6. QED
    BY <1>1, <2>5 DEF Push, Abstract!Put
<1>2. CASE Empty
  <2>1. CASE held = <<>>
    BY <1>0, <1>2, <2>1, ConcatEmptySeq DEF Empty, TypeOK
  <2>2. CASE held # <<>>
    BY <1>2, <2>2 DEF Empty, Abstract!Collect, Abstract!Next
  <2>3. QED
    BY <2>1, <2>2
<1>3. ASSUME NEW w \in Worker, Flag(w) \/ WakeMain(w)
      PROVE  UNCHANGED <<held, taken>>
  BY <1>3 DEF Flag, WakeMain
<1>4. CASE OtherWake \/ BeginPass \/ Ready \/ Clear \/ UNCHANGED vars
  BY <1>4 DEF OtherWake, BeginPass, Ready, Clear, vars
<1>5. QED
  BY <1>1, <1>2, <1>3, <1>4 DEF Next, Send, Pass, Abstract!Next

\* The mutex, the flag and the wake implement the Mailbox: a push is a Put, the
\* emptying of a vector with something in it is a Collect, all else a stutter.
THEOREM SafelyImplements == Spec => ImplementsMailboxSafety
BY MailboxStart, MailboxStep, HandoffHolds, PTL DEF Spec, ImplementsMailboxSafety, Abstract!Safety

-----------------------------------------------------------------------------
(* Executor. *)

Frame == {"pass", "drain", "schedule", "drive", "ring"}
TaskStages == {"unmade", "sent", "idle", "woken", "aborting", "gone"}

\* The tasks that there are, or were.
Spawned == {t \in Local \cup Calls : task[t] \notin {"unmade", "sent"}}

ExecutorTypes ==
  /\ stack \in Seq(Frame) /\ landing \subseteq Errands
  /\ slot \in [Errands -> {"unmade", "waiting", "arrived", "dropped"}]
  /\ task \in [Local \cup Calls -> TaskStages]

\* Only a pass and its drain are ever left for something inside them.
Outer == \A k \in 1 .. Len(stack) - 1 : stack[k] \in {"pass", "drain"}

\* A task that was spawned was spawned on a driver, and one that waits was
\* polled by it, which is when the local set got its waker.
Driven ==
  /\ \A t \in Local : task[t] \in {"idle", "woken", "aborting"} => built
  /\ \A t \in Local : task[t] = "idle" => listening
  /\ On("drive") => listening

\* A handle is there only for a task that was spawned.
Made == \A t \in Errands : slot[t] = "arrived" \/ t \in landing => task[t] \notin {"unmade", "sent"}

\* The inductive invariant.
ExecutorInv == ExecutorTypes /\ Outer /\ Driven /\ Made /\ NoTaskStranded

-----------------------------------------------------------------------------
\* The driver is at work only where its frame is the innermost.
LEMMA DriveIsLast ==
  ASSUME ExecutorTypes, Outer
  PROVE  Inside("drive") <=> On("drive")
<1>1. stack \in Seq(Frame) /\ Len(stack) \in Nat /\ (stack # <<>> => Len(stack) # 0)
  BY DEF ExecutorTypes
<1>2. ASSUME Inside("drive") PROVE On("drive")
  <2>1. PICK k \in 1 .. Len(stack) : stack[k] = "drive"
    BY <1>1, <1>2 DEF Inside, ToSet
  <2>2. ~(k \in 1 .. Len(stack) - 1)
    BY <2>1 DEF Outer
  <2>3. k = Len(stack) /\ stack # <<>>
    BY <1>1, <2>1, <2>2
  <2>4. QED
    BY <2>1, <2>3 DEF On, Last
<1>3. ASSUME On("drive") PROVE Inside("drive")
  <2>1. Len(stack) \in 1 .. Len(stack) /\ stack[Len(stack)] = "drive"
    BY <1>1, <1>3 DEF On, Last
  <2>2. QED
    BY <1>1, <2>1 DEF Inside, ToSet
<1>4. QED
  BY <1>2, <1>3

\* What is entered from the parked loop, or from a pass or its drain.
LEMMA Entering ==
  ASSUME ExecutorTypes, Outer, NEW f \in Frame, Enqueue(f), stack = <<>> \/ On("drain") \/ On("pass")
  PROVE  /\ stack' \in Seq(Frame) /\ Outer'
         /\ \A g \in Frame : On(g)' <=> g = f
<1>1. stack \in Seq(Frame) /\ Len(stack) \in Nat /\ stack' = Append(stack, f)
  BY DEF ExecutorTypes, Enqueue
<1>2. /\ stack' \in Seq(Frame) /\ Len(stack') = Len(stack) + 1 /\ stack'[Len(stack) + 1] = f
      /\ \A k \in 1 .. Len(stack) : stack'[k] = stack[k]
  BY <1>1
<1>3. \A k \in 1 .. Len(stack) : stack[k] \in {"pass", "drain"}
  <2>1. CASE stack = <<>>
    BY <2>1
  <2>2. CASE On("drain") \/ On("pass")
    BY <1>1, <2>2 DEF On, Last, Outer
  <2>3. QED
    BY <2>1, <2>2
<1>4. Outer'
  BY <1>1, <1>2, <1>3 DEF Outer
<1>5. stack' # <<>> /\ Last(stack') = f
  BY <1>1, <1>2 DEF Last
<1>6. QED
  BY <1>2, <1>4, <1>5 DEF On

\* All but the innermost frame.
LEMMA FrontOf ==
  ASSUME NEW s \in Seq(Frame), s # <<>>
  PROVE  /\ Front(s) \in Seq(Frame) /\ Len(Front(s)) = Len(s) - 1
         /\ \A k \in 1 .. Len(s) - 1 : Front(s)[k] = s[k]
<1>1. Len(s) \in Nat \ {0} /\ \A k \in 1 .. Len(s) - 1 : s[k] \in Frame
  OBVIOUS
<1> DEFINE n == Len(s) - 1
<1>2. n \in Nat /\ 1 \in Int /\ n \in Int
  BY <1>1
<1>3. /\ SubSeq(s, 1, n) \in Seq(Frame) /\ Len(SubSeq(s, 1, n)) = IF 1 <= n THEN n - 1 + 1 ELSE 0
      /\ \A k \in 1 .. n - 1 + 1 : SubSeq(s, 1, n)[k] = s[1 + k - 1]
  <2>1. \A k \in 1 .. n : s[k] \in Frame
    BY <1>1
  <2> HIDE DEF n
  <2>2. QED
    BY <1>2, <2>1, SubSeqProperties
<1>4. n - 1 + 1 = n /\ (\A k \in 1 .. n : (1 + k) - 1 = k) /\ (IF 1 <= n THEN n ELSE 0) = n
  <2> HIDE DEF n
  <2>1. QED
    BY <1>2
<1>5. Front(s) = SubSeq(s, 1, n)
  BY DEF Front
<1> HIDE DEF n
<1>6. /\ Front(s) \in Seq(Frame) /\ Len(Front(s)) = n
      /\ \A k \in 1 .. n : Front(s)[k] = s[k]
  BY <1>3, <1>4, <1>5
<1>7. QED
  BY <1>6 DEF n

\* What is left is left for the loop, or for a pass or its drain.
LEMMA Leaving ==
  ASSUME ExecutorTypes, Outer, stack # <<>>, Pop
  PROVE  /\ stack' \in Seq(Frame) /\ Outer'
         /\ \A g \in Frame \ {"pass", "drain"} : ~On(g)'
         /\ stack' = <<>> \/ On("pass")' \/ On("drain")'
<1>1. stack \in Seq(Frame) /\ Len(stack) \in Nat \ {0} /\ stack' = Front(stack)
  BY DEF ExecutorTypes, Pop
<1>2. /\ stack' \in Seq(Frame) /\ Len(stack') = Len(stack) - 1
      /\ \A k \in 1 .. Len(stack) - 1 : stack'[k] = stack[k]
  BY <1>1, FrontOf
<1>3. Outer'
  BY <1>1, <1>2 DEF Outer
<1>4. stack' # <<>> => Last(stack') \in {"pass", "drain"}
  BY <1>1, <1>2 DEF Last, Outer
<1>5. QED
  BY <1>2, <1>3, <1>4 DEF On

\* One frame gives way to another in the same place.
LEMMA Replacing ==
  ASSUME ExecutorTypes, Outer, stack # <<>>, NEW f \in Frame, stack' = Append(Front(stack), f)
  PROVE  /\ stack' \in Seq(Frame) /\ Outer'
         /\ \A g \in Frame : On(g)' <=> g = f
<1>1. stack \in Seq(Frame) /\ Len(stack) \in Nat \ {0}
  BY DEF ExecutorTypes
<1>2. PICK s \in Seq(Frame) : /\ s = Front(stack) /\ Len(s) = Len(stack) - 1
                              /\ \A k \in 1 .. Len(stack) - 1 : s[k] = stack[k]
  BY <1>1, FrontOf
<1>3. /\ stack' \in Seq(Frame) /\ Len(stack') = Len(stack) /\ stack'[Len(stack)] = f
      /\ \A k \in 1 .. Len(stack) - 1 : stack'[k] = s[k]
  BY <1>1, <1>2
<1>4. Outer'
  BY <1>1, <1>2, <1>3 DEF Outer
<1>5. stack' # <<>> /\ Last(stack') = f
  BY <1>1, <1>3 DEF Last
<1>6. QED
  BY <1>3, <1>4, <1>5 DEF On

\* An abort of a task that was spawned has the driver take it up.
LEMMA AbortStep ==
  ASSUME ExecutorInv, NEW t \in Local, task[t] \notin {"unmade", "sent"}, Abort(t),
         UNCHANGED <<stack, built, listening>>
  PROVE  /\ task' \in [Local \cup Calls -> TaskStages]
         /\ Spawned \subseteq Spawned'
         /\ Driven' /\ NoTaskStranded'
<1>1. /\ \A u \in Local \cup Calls :
           task'[u] = IF u = t THEN (IF task[t] = "gone" THEN "gone" ELSE "aborting") ELSE task[u]
      /\ pending \subseteq pending' /\ (listening => "DRIVER" \in pending')
      /\ task' \in [Local \cup Calls -> TaskStages]
  BY DEF Abort, ExecutorInv, ExecutorTypes, Local, TaskStages
<1>2. \A f : (On(f)' <=> On(f)) /\ (Inside(f)' <=> Inside(f))
  BY DEF On, Inside
<1>3. task[t] \in {"idle", "woken", "aborting", "gone"}
  BY DEF ExecutorInv, ExecutorTypes, Local, TaskStages
<1>4. Driven'
  BY <1>1, <1>2, <1>3 DEF ExecutorInv, Driven, Local
<1>5. ASSUME NEW u \in Local, task'[u] \in {"woken", "aborting"}
      PROVE  "DRIVER" \in pending' \/ Inside("drive")'
  <2>1. task[u] = "idle" => listening
    BY DEF ExecutorInv, Driven
  <2>2. task[u] \in {"woken", "aborting"} => "DRIVER" \in pending \/ Inside("drive")
    BY DEF ExecutorInv, NoTaskStranded, Queued
  <2>3. task[u] \in {"idle", "woken", "aborting"}
    BY <1>1, <1>3, <1>5 DEF Local
  <2>4. QED
    BY <1>1, <1>2, <2>1, <2>2, <2>3
<1>6. NoTaskStranded'
  BY <1>2, <1>5 DEF ExecutorInv, NoTaskStranded, Queued
<1>7. QED
  BY <1>1, <1>4, <1>6 DEF Spawned

\* A spawn signals the driver it is on.
LEMMA SpawnStep ==
  ASSUME ExecutorInv, NEW t \in Local, Spawn(t), UNCHANGED <<stack, listening>>
  PROVE  /\ task' \in [Local \cup Calls -> TaskStages]
         /\ task'[t] = "woken"
         /\ Spawned \subseteq Spawned'
         /\ Driven' /\ NoTaskStranded'
<1>1. /\ \A u \in Local \cup Calls : task'[u] = IF u = t THEN "woken" ELSE task[u]
      /\ built' = TRUE /\ "DRIVER" \in pending'
      /\ task' \in [Local \cup Calls -> TaskStages]
  BY DEF Spawn, ExecutorInv, ExecutorTypes, Local, TaskStages
<1>2. \A f : (On(f)' <=> On(f)) /\ (Inside(f)' <=> Inside(f))
  BY DEF On, Inside
<1>3. Driven'
  BY <1>1, <1>2 DEF ExecutorInv, Driven, Local
<1>4. NoTaskStranded'
  BY <1>1, <1>2 DEF ExecutorInv, NoTaskStranded
<1>5. QED
  BY <1>1, <1>3, <1>4 DEF Local, Spawned

-----------------------------------------------------------------------------
\* What other threads do.
LEMMA ElsewhereStep ==
  ASSUME ExecutorInv, NEW t \in Local \cup Calls,
         \/ t \in Errands /\ (SendErrand(t) \/ DropErrand(t))
         \/ t \in Calls /\ SendCall(t)
         \/ t \in Local /\ WakeTask(t)
         \/ Ring(t)
  PROVE  ExecutorInv'
<1>1. UNCHANGED <<stack, built, listening, landing>>
  BY DEF SendErrand, DropErrand, SendCall, WakeTask, Ring
<1>2. \A f : (On(f)' <=> On(f)) /\ (Inside(f)' <=> Inside(f)) /\ (Outer' <=> Outer)
  BY <1>1 DEF On, Inside, Outer
<1>3. CASE t \in Errands /\ SendErrand(t)
  <2>1. /\ task[t] = "unmade" /\ task' = [task EXCEPT ![t] = "sent"]
        /\ slot' = [slot EXCEPT ![t] = "waiting"] /\ pending' = pending
    BY <1>3 DEF SendErrand
  <2>2. \A u \in Local \cup Calls : task'[u] = IF u = t THEN "sent" ELSE task[u]
    BY <2>1 DEF ExecutorInv, ExecutorTypes
  <2>3. ExecutorTypes'
    BY <1>1, <1>3, <2>1 DEF ExecutorInv, ExecutorTypes, Local, TaskStages
  <2>4. Made'
    BY <1>1, <1>3, <2>1, <2>2 DEF ExecutorInv, Made, ExecutorTypes, Local
  <2>5. Driven' /\ NoTaskStranded'
    BY <1>1, <1>2, <2>1, <2>2 DEF ExecutorInv, Driven, NoTaskStranded, Queued
  <2>6. QED
    BY <1>2, <2>3, <2>4, <2>5 DEF ExecutorInv
<1>4. CASE t \in Errands /\ DropErrand(t)
  <2>1. slot' = [slot EXCEPT ![t] = "dropped"] /\ slot[t] \in {"waiting", "arrived"}
    BY <1>4 DEF DropErrand
  <2>2. \A u \in Errands : slot'[u] = "arrived" => slot[u] = "arrived"
    BY <2>1 DEF ExecutorInv, ExecutorTypes
  <2>3. CASE slot[t] = "arrived"
    <3>1. Abort(t) /\ task[t] \notin {"unmade", "sent"} /\ t \in Local
      BY <1>4, <2>3 DEF DropErrand, ExecutorInv, Made, Local
    <3>2. /\ task' \in [Local \cup Calls -> TaskStages]
          /\ Spawned \subseteq Spawned'
          /\ Driven' /\ NoTaskStranded'
      BY <1>1, <3>1, AbortStep
    <3>3. Made'
      BY <1>1, <2>2, <3>2 DEF ExecutorInv, Made, Local, Spawned
    <3>4. ExecutorTypes'
      BY <1>1, <1>4, <2>1, <3>2 DEF ExecutorInv, ExecutorTypes
    <3>5. QED
      BY <1>2, <3>2, <3>3, <3>4 DEF ExecutorInv
  <2>4. CASE slot[t] # "arrived"
    <3>1. UNCHANGED <<task, pending>>
      BY <1>4, <2>4 DEF DropErrand
    <3>2. ExecutorTypes' /\ Made'
      BY <1>1, <1>4, <2>1, <2>2, <3>1 DEF ExecutorInv, ExecutorTypes, Made
    <3>3. QED
      BY <1>1, <1>2, <3>1, <3>2 DEF ExecutorInv, Driven, NoTaskStranded, Queued
  <2>5. QED
    BY <2>3, <2>4
<1>5. CASE t \in Calls /\ SendCall(t)
  <2>1. task' = [task EXCEPT ![t] = "sent"] /\ UNCHANGED <<slot, pending>>
    BY <1>5 DEF SendCall
  <2>2. t \notin Local
    BY <1>5, ExecutorAssumption DEF Local
  <2>3. \A u \in Local : task'[u] = task[u]
    BY <2>1, <2>2 DEF ExecutorInv, ExecutorTypes
  <2>4. ExecutorTypes' /\ Made'
    BY <1>1, <2>1, <2>3 DEF ExecutorInv, ExecutorTypes, Made, Local, TaskStages
  <2>5. QED
    BY <1>1, <1>2, <2>1, <2>3, <2>4 DEF ExecutorInv, Driven, NoTaskStranded, Queued
<1>6. CASE t \in Local /\ WakeTask(t)
  <2>1. /\ task[t] = "idle" /\ task' = [task EXCEPT ![t] = "woken"] /\ slot' = slot
        /\ pending' = pending \cup (IF listening THEN {"DRIVER"} ELSE {})
    BY <1>6 DEF WakeTask
  <2>2. \A u \in Local \cup Calls : task'[u] = IF u = t THEN "woken" ELSE task[u]
    BY <2>1 DEF ExecutorInv, ExecutorTypes
  <2>3. listening /\ built /\ "DRIVER" \in pending'
    BY <1>6, <2>1 DEF ExecutorInv, Driven
  <2>4. ExecutorTypes' /\ Made'
    BY <1>1, <2>1, <2>2 DEF ExecutorInv, ExecutorTypes, Made, Local, TaskStages
  <2>5. QED
    BY <1>1, <1>2, <2>2, <2>3, <2>4 DEF ExecutorInv, Driven, NoTaskStranded, Local
<1>7. CASE Ring(t)
  <2>1. UNCHANGED <<task, slot>> /\ pending \subseteq pending'
    BY <1>7 DEF Ring
  <2>2. QED
    BY <1>1, <1>2, <2>1 DEF ExecutorInv, ExecutorTypes, Made, Driven, NoTaskStranded, Queued
<1>8. QED
  BY <1>3, <1>4, <1>5, <1>6, <1>7

\* What the driver does to its tasks, within its frame.
LEMMA PollStep ==
  ASSUME ExecutorInv, NEW t \in Local, PollTask(t)
  PROVE  ExecutorInv'
<1>1. /\ UNCHANGED <<stack, built, listening, landing, slot, pending>> /\ On("drive")
      /\ task[t] \in {"woken", "aborting"}
      /\ \E s \in {"idle", "gone"} : task' = [task EXCEPT ![t] = s]
  BY DEF PollTask
<1>2. \A f : (On(f)' <=> On(f)) /\ (Inside(f)' <=> Inside(f)) /\ (Outer' <=> Outer)
  BY <1>1 DEF On, Inside, Outer
<1>3. PICK s \in {"idle", "gone"} : \A u \in Local \cup Calls : task'[u] = IF u = t THEN s ELSE task[u]
  BY <1>1 DEF ExecutorInv, ExecutorTypes
<1>4. ExecutorTypes' /\ Made'
  BY <1>1, <1>3 DEF ExecutorInv, ExecutorTypes, Made, Local, TaskStages
<1>5. Driven'
  BY <1>1, <1>2, <1>3 DEF ExecutorInv, Driven, Local
<1>6. Inside("drive")
  BY <1>1, DriveIsLast DEF ExecutorInv
<1>7. QED
  BY <1>2, <1>4, <1>5, <1>6 DEF ExecutorInv, NoTaskStranded

\* The same after a step.
LEMMA DriveIsLastNext == (ExecutorTypes /\ Outer)' => (Inside("drive") <=> On("drive"))'
<1>1. ExecutorTypes /\ Outer => (Inside("drive") <=> On("drive"))
  BY DriveIsLast
<1>2. QED
  BY <1>1, PTL

\* The loop's thread goes in or out of something, and no task changes: the
\* driver's turn, signalled or begun, is not lost while a task wants it.
LEMMA FrameStep ==
  ASSUME ExecutorInv, UNCHANGED <<task, slot, built, landing>>, stack' \in Seq(Frame), Outer',
         listening => listening', On("drive")' => listening',
         "DRIVER" \in pending \/ On("drive") =>
           \/ "DRIVER" \in pending' \/ On("drive")' \/ ~built
           \/ \A t \in Local : ~Queued(t)
  PROVE  ExecutorInv'
<1>1. ExecutorTypes'
  BY DEF ExecutorInv, ExecutorTypes
<1>2. Inside("drive") <=> On("drive")
  BY DriveIsLast DEF ExecutorInv
<1>3. Inside("drive")' <=> On("drive")'
  BY <1>1, DriveIsLastNext
<1>4. ASSUME NEW t \in Local, Queued(t) PROVE "DRIVER" \in pending' \/ Inside("drive")'
  <2>1. built
    BY <1>4 DEF ExecutorInv, Driven, Queued
  <2>2. "DRIVER" \in pending \/ On("drive")
    BY <1>2, <1>4 DEF ExecutorInv, NoTaskStranded
  <2>3. QED
    BY <1>3, <1>4, <2>1, <2>2
<1>5. On("ring")' \/ On("pass")' \/ On("schedule")' => ~Inside("drive")'
  BY <1>3 DEF On
<1>6. NoTaskStranded'
  BY <1>4, <1>5 DEF NoTaskStranded, Queued
<1>7. Made' /\ Driven'
  BY DEF ExecutorInv, Made, Driven
<1>8. QED
  BY <1>1, <1>6, <1>7 DEF ExecutorInv

\* What the loop's thread does with an errand: neither lets one be spawned
\* that the driver does not hear of.
LEMMA RingStep ==
  ASSUME ExecutorInv, PerformRing \/ RunCall \/ RunErrand \/ RingEnds \/ \E t \in Errands : Land(t)
  PROVE  ExecutorInv'
<1>1. CASE PerformRing
  <2>1. /\ UNCHANGED <<task, slot, built, landing, listening>> /\ pending' = pending \ {"RING"}
        /\ Enqueue("ring") /\ (stack = <<>> \/ On("drain"))
    BY <1>1 DEF PerformRing, Perform, Performs
  <2>2. stack' \in Seq(Frame) /\ Outer' /\ ~On("drive")' /\ ~On("drive")
    BY <2>1, Entering DEF ExecutorInv, Frame, On
  <2>3. QED
    BY <2>1, <2>2, FrameStep
<1>2. CASE RunCall
  <2>1. /\ UNCHANGED <<stack, slot, built, listening, landing, pending>>
        /\ \E c \in Calls : task' = [task EXCEPT ![c] = "gone"]
    BY <1>2 DEF RunCall
  <2>2. \A t \in Local : t \notin Calls
    BY ExecutorAssumption DEF Local
  <2>3. \A t \in Local : task'[t] = task[t]
    BY <2>1, <2>2 DEF ExecutorInv, ExecutorTypes
  <2>4. \A f : (On(f)' <=> On(f)) /\ (Inside(f)' <=> Inside(f)) /\ (Outer' <=> Outer)
    BY <2>1 DEF On, Inside, Outer
  <2>5. ExecutorTypes' /\ Made'
    BY <2>1, <2>3 DEF ExecutorInv, ExecutorTypes, Made, Local, TaskStages
  <2>6. QED
    BY <2>1, <2>3, <2>4, <2>5 DEF ExecutorInv, Driven, NoTaskStranded, Queued
<1>3. CASE RunErrand
  <2>1. PICK t \in Errands : landing' = {t} /\ Spawn(t)
    BY <1>3 DEF RunErrand
  <2>2. UNCHANGED <<stack, slot, listening>>
    BY <1>3 DEF RunErrand
  <2>3. /\ task' \in [Local \cup Calls -> TaskStages]
        /\ task'[t] = "woken"
        /\ Spawned \subseteq Spawned'
        /\ Driven' /\ NoTaskStranded'
    BY <2>1, <2>2, SpawnStep DEF Local
  <2>4. Made' /\ ExecutorTypes' /\ Outer'
    BY <2>1, <2>2, <2>3 DEF ExecutorInv, Made, ExecutorTypes, Outer, Local, Spawned
  <2>5. QED
    BY <2>3, <2>4 DEF ExecutorInv
<1>4. CASE RingEnds
  <2>1. /\ UNCHANGED <<task, slot, built, landing, listening, pending>>
        /\ Pop /\ On("ring") /\ stack # <<>>
    BY <1>4 DEF RingEnds, On
  <2>2. stack' \in Seq(Frame) /\ Outer' /\ ~On("drive")' /\ ~On("drive")
    BY <2>1, Leaving DEF ExecutorInv, Frame, On
  <2>3. QED
    BY <2>1, <2>2, FrameStep
<1>5. ASSUME NEW t \in Errands, Land(t) PROVE ExecutorInv'
  <2>1. /\ UNCHANGED <<stack, built, listening>> /\ landing' = {} /\ Arrive(t)
        /\ task[t] \notin {"unmade", "sent"} /\ t \in Local
    BY <1>5 DEF Land, ExecutorInv, Made, Local
  <2>2. CASE slot[t] = "dropped"
    <3>1. Abort(t) /\ slot' = slot
      BY <2>1, <2>2 DEF Arrive
    <3>2. /\ task' \in [Local \cup Calls -> TaskStages]
          /\ Spawned \subseteq Spawned'
          /\ Driven' /\ NoTaskStranded'
      BY <2>1, <3>1, AbortStep
    <3>3. Made' /\ ExecutorTypes' /\ Outer'
      BY <2>1, <3>1, <3>2 DEF ExecutorInv, Made, ExecutorTypes, Outer, Local, Spawned
    <3>4. QED
      BY <3>2, <3>3 DEF ExecutorInv
  <2>3. CASE slot[t] # "dropped"
    <3>1. slot' = [slot EXCEPT ![t] = "arrived"] /\ UNCHANGED <<task, pending>>
      BY <2>1, <2>3 DEF Arrive
    <3>2. Made' /\ ExecutorTypes' /\ Outer'
      BY <2>1, <3>1 DEF ExecutorInv, Made, ExecutorTypes, Outer, Local
    <3>3. \A f : (On(f)' <=> On(f)) /\ (Inside(f)' <=> Inside(f))
      BY <2>1 DEF On, Inside
    <3>4. QED
      BY <2>1, <3>1, <3>2, <3>3 DEF ExecutorInv, Driven, NoTaskStranded, Queued
  <2>4. QED
    BY <2>2, <2>3
<1>6. QED
  BY <1>1, <1>2, <1>3, <1>4, <1>5

\* The driver's turn begins and ends.
LEMMA DriveStep ==
  ASSUME ExecutorInv, PerformDrive \/ DriveEnds
  PROVE  ExecutorInv'
<1>1. CASE PerformDrive
  <2>1. UNCHANGED <<task, slot, built, landing>> /\ (stack = <<>> \/ On("drain"))
    BY <1>1 DEF PerformDrive, Perform, Performs
  <2>2. ~Inside("drive")
    BY <2>1, DriveIsLast DEF ExecutorInv, On
  <2>3. CASE built
    <3>1. Enqueue("drive") /\ listening'
      BY <1>1, <2>2, <2>3 DEF PerformDrive
    <3>2. stack' \in Seq(Frame) /\ Outer' /\ On("drive")'
      BY <2>1, <3>1, Entering DEF ExecutorInv, Frame
    <3>3. QED
      BY <2>1, <3>1, <3>2, FrameStep
  <2>4. CASE ~built
    <3>1. UNCHANGED <<stack, listening>>
      BY <1>1, <2>4 DEF PerformDrive
    <3>2. stack' \in Seq(Frame) /\ Outer' /\ ~On("drive")'
      BY <2>1, <3>1 DEF ExecutorInv, ExecutorTypes, Outer, On
    <3>3. QED
      BY <2>1, <2>4, <3>1, <3>2, FrameStep
  <2>5. QED
    BY <2>3, <2>4
<1>2. CASE DriveEnds
  <2>1. /\ UNCHANGED <<task, slot, built, landing, listening>> /\ Pop /\ stack # <<>>
        /\ pending' = pending \cup (IF \E t \in Local : Queued(t) THEN {"DRIVER"} ELSE {})
    BY <1>2 DEF DriveEnds, On
  <2>2. stack' \in Seq(Frame) /\ Outer' /\ ~On("drive")'
    BY <2>1, Leaving DEF ExecutorInv, Frame
  <2>3. QED
    BY <2>1, <2>2, FrameStep
<1>3. QED
  BY <1>1, <1>2

\* A pass, its drain and its schedule.
LEMMA PassStep ==
  ASSUME ExecutorInv, PerformPass \/ Drain \/ DrainEnds \/ PassEnds
  PROVE  ExecutorInv'
<1>1. UNCHANGED <<task, slot, built, landing, listening>> /\ ("DRIVER" \in pending => "DRIVER" \in pending')
  BY DEF PerformPass, Perform, Drain, DrainEnds, PassEnds
<1>2. CASE PerformPass
  <2>1. (stack = <<>> \/ On("drain")) /\ (stack' = stack \/ Enqueue("pass"))
    BY <1>2 DEF PerformPass, Perform, Performs
  <2>2. stack' \in Seq(Frame) /\ Outer' /\ ~On("drive")' /\ ~On("drive")
    <3>1. CASE stack' = stack
      BY <2>1, <3>1 DEF ExecutorInv, ExecutorTypes, Outer, On
    <3>2. CASE Enqueue("pass")
      BY <2>1, <3>2, Entering DEF ExecutorInv, Frame, On
    <3>3. QED
      BY <2>1, <3>1, <3>2
  <2>3. QED
    BY <1>1, <2>2, FrameStep
<1>3. CASE Drain
  <2>1. On("pass") /\ Enqueue("drain")
    BY <1>3 DEF Drain
  <2>2. stack' \in Seq(Frame) /\ Outer' /\ ~On("drive")' /\ ~On("drive")
    BY <2>1, Entering DEF ExecutorInv, Frame, On
  <2>3. QED
    BY <1>1, <2>2, FrameStep
<1>4. CASE DrainEnds
  <2>1. On("drain") /\ stack' = Append(Front(stack), "schedule")
    BY <1>4 DEF DrainEnds
  <2>2. stack' \in Seq(Frame) /\ Outer' /\ ~On("drive")' /\ ~On("drive")
    BY <2>1, Replacing DEF ExecutorInv, Frame, On
  <2>3. QED
    BY <1>1, <2>2, FrameStep
<1>5. CASE PassEnds
  <2>1. On("schedule") /\ stack' = <<>>
    BY <1>5 DEF PassEnds
  <2>2. stack' \in Seq(Frame) /\ Outer' /\ ~On("drive")' /\ ~On("drive")
    BY <2>1 DEF Outer, On
  <2>3. QED
    BY <1>1, <2>2, FrameStep
<1>6. QED
  BY <1>2, <1>3, <1>4, <1>5

\* What the schedule spawns and drops.
LEMMA ScheduleStep ==
  ASSUME ExecutorInv, NEW t \in Deadlines, ScheduleSpawns(t) \/ ScheduleDrops(t)
  PROVE  ExecutorInv'
<1>1. UNCHANGED <<stack, listening, landing, slot>> /\ t \in Local
  BY DEF ScheduleSpawns, ScheduleDrops, Local
<1>2. /\ task' \in [Local \cup Calls -> TaskStages]
      /\ Spawned \subseteq Spawned'
      /\ Driven' /\ NoTaskStranded'
  <2>1. CASE ScheduleSpawns(t)
    BY <1>1, <2>1, SpawnStep DEF ScheduleSpawns
  <2>2. CASE ScheduleDrops(t)
    <3>1. Abort(t) /\ task[t] \notin {"unmade", "sent"} /\ built' = built
      BY <2>2 DEF ScheduleDrops
    <3>2. QED
      BY <1>1, <3>1, AbortStep
  <2>3. QED
    BY <2>1, <2>2
<1>3. ExecutorTypes' /\ Outer' /\ Made'
  BY <1>1, <1>2 DEF ExecutorInv, ExecutorTypes, Outer, Made, Local, Spawned
<1>4. QED
  BY <1>2, <1>3 DEF ExecutorInv

\* Nothing was sent and nothing runs.
LEMMA ExecutorStart == ExecutorInit => ExecutorInv
<1> SUFFICES ASSUME ExecutorInit PROVE ExecutorInv
  OBVIOUS
<1>1. stack = <<>> /\ landing = {}
  BY DEF ExecutorInit
<1>2. ExecutorTypes
  BY <1>1 DEF ExecutorInit, ExecutorTypes, TaskStages
<1>3. Outer /\ \A f : ~On(f)
  BY <1>1 DEF Outer, On
<1>4. \A t \in Local : task[t] = "unmade"
  BY DEF ExecutorInit
<1>5. Driven /\ Made
  BY <1>1, <1>3, <1>4 DEF ExecutorInit, Driven, Made
<1>6. NoTaskStranded
  BY <1>3, <1>4 DEF NoTaskStranded, Queued
<1>7. QED
  BY <1>2, <1>3, <1>5, <1>6 DEF ExecutorInv

\* Every step, on the loop's thread and on any other.
LEMMA ExecutorStep == ExecutorInv /\ [ExecutorNext]_executorVars => ExecutorInv'
<1> SUFFICES ASSUME ExecutorInv, [ExecutorNext]_executorVars PROVE ExecutorInv'
  OBVIOUS
<1>1. ASSUME NEW t \in Local \cup Calls,
             \/ t \in Errands /\ (SendErrand(t) \/ DropErrand(t))
             \/ t \in Calls /\ SendCall(t)
             \/ t \in Local /\ WakeTask(t)
             \/ Ring(t)
      PROVE  ExecutorInv'
  BY <1>1, ElsewhereStep
<1>2. CASE AskForPass \/ Turn \/ UNCHANGED executorVars
  <2>1. UNCHANGED <<task, slot, built, landing, listening, stack>> /\ pending \subseteq pending'
    BY <1>2 DEF AskForPass, Turn, executorVars
  <2>2. stack' \in Seq(Frame) /\ Outer' /\ (On("drive")' <=> On("drive"))
    BY <2>1 DEF ExecutorInv, ExecutorTypes, Outer, On
  <2>3. On("drive")' => listening'
    BY <2>1, <2>2 DEF ExecutorInv, Driven
  <2>4. QED
    BY <2>1, <2>2, <2>3, FrameStep
<1>3. CASE PerformRing \/ RunCall \/ RunErrand \/ RingEnds \/ \E t \in Errands : Land(t)
  BY <1>3, RingStep
<1>4. CASE PerformDrive \/ DriveEnds
  BY <1>4, DriveStep
<1>5. CASE PerformPass \/ Drain \/ DrainEnds \/ PassEnds
  BY <1>5, PassStep
<1>6. ASSUME NEW t \in Local, PollTask(t) PROVE ExecutorInv'
  BY <1>6, PollStep
<1>7. ASSUME NEW t \in Deadlines, ScheduleSpawns(t) \/ ScheduleDrops(t) PROVE ExecutorInv'
  BY <1>7, ScheduleStep
<1>8. CASE ExecutorNext
  BY <1>1, <1>2, <1>3, <1>4, <1>5, <1>6, <1>7, <1>8 DEF ExecutorNext, Local, Sent
<1>9. QED
  BY <1>2, <1>8

\* A task that has something to do, and be it to end because its owner let go,
\* has a turn of the driver coming, on whatever thread and inside of whatever it
\* was sent, woken or dropped.
THEOREM TasksAreDriven == ExecutorSpec => []NoTaskStranded
<1>1. ExecutorInv => NoTaskStranded
  BY DEF ExecutorInv
<1>2. QED
  BY <1>1, ExecutorStart, ExecutorStep, PTL DEF ExecutorSpec

-----------------------------------------------------------------------------
(* Callback. *)

\* Who owns a reference to a registration's state, and who may still call with
\* the pointer: the owner has one strong reference, a call that found the state
\* another, and the weak one is only ever taken back from a registration whose
\* teardown is certain, after that teardown.
References(r) ==
  /\ strong[r] = (IF phase[r] \in {"live", "stopped"} THEN 1 ELSE 0)
                 + (IF calling[r] = "inside" THEN 1 ELSE 0)
  /\ phase[r] \in {"live", "stopped"} => weak[r] = 1
  /\ phase[r] = "dropped" /\ r \in Outliving => weak[r] = 1
  /\ knows[r] => \/ phase[r] = "live"
                 \/ r \in Outliving /\ phase[r] \in {"stopped", "dropped"}

\* The task at a relay's other end is there from the registration on, and ends
\* only when nobody can post any more.
ReaderStands(r) ==
  /\ phase[r] \in {"none", "refused"} => calling[r] = "no" /\ reader[r] = "none"
  /\ phase[r] \in {"live", "stopped", "dropped"} => reader[r] # "none"
  /\ reader[r] = "ended" => strong[r] = 0 /\ relayed[r] = <<>>

\* What was posted is with the task or on its way to it, in order.
Relays(r) == collected[r] \o relayed[r] = [n \in 1 .. posted[r] |-> n]

IsSound(r) == References(r) /\ ReaderStands(r) /\ Relays(r)

Counted(h) == kept[h] <= count[h] /\ (handed[h] = "none" => kept[h] = 0)

\* The inductive invariant.
CallbackInv ==
  /\ CallbackTypeOK
  /\ ~dangled
  /\ \A r \in Registered : IsSound(r)
  /\ \A h \in Handlers : Counted(h)

-----------------------------------------------------------------------------
\* The owner's pointer stands for as long as anything may call with it, so no
\* call finds it freed.
LEMMA KnownStands ==
  ASSUME CallbackTypeOK, NEW r \in Registered, References(r), knows[r]
  PROVE  Stands(r)
<1>1. weak[r] = 1 /\ strong[r] \in 0 .. 2
  BY DEF References, CallbackTypeOK
<1>2. QED
  BY <1>1 DEF Stands

\* Appending to the second of two sequences appends to both together.
LEMMA AppendsToBoth ==
  ASSUME NEW S, NEW c \in Seq(S), NEW q \in Seq(S), NEW e \in S
  PROVE  c \o Append(q, e) = Append(c \o q, e)
<1>1. Append(q, e) = q \o <<e>>
  BY AppendIsConcat
<1>2. c \o q \in Seq(S) /\ <<e>> \in Seq(S)
  BY ConcatProperties
<1>3. Append(c \o q, e) = (c \o q) \o <<e>>
  BY <1>2, AppendIsConcat
<1>4. (c \o q) \o <<e>> = c \o (q \o <<e>>)
  BY <1>2, ConcatAssociative
<1>5. QED
  BY <1>1, <1>3, <1>4

\* Taking a batch moves it from one to the other.
LEMMA BatchSplits ==
  ASSUME NEW S, NEW c \in Seq(S), NEW q \in Seq(S), NEW n \in 0 .. Len(q)
  PROVE  /\ (c \o SubSeq(q, 1, n)) \o SubSeq(q, n + 1, Len(q)) = c \o q
         /\ c \o SubSeq(q, 1, n) \in Seq(S)
         /\ SubSeq(q, n + 1, Len(q)) \in Seq(S)
<1> DEFINE front == SubSeq(q, 1, n)
           back == SubSeq(q, n + 1, Len(q))
<1>1. front \in Seq(S) /\ back \in Seq(S)
  BY SubSeqProperties
<1>2. front \o back = SubSeq(q, 1, Len(q))
  <2>1. /\ 1 \in 1 .. Len(q) + 1 /\ n \in 1 - 1 .. Len(q) /\ Len(q) \in n .. Len(q)
    BY LenProperties
  <2>2. QED
    BY <2>1, ConcatAdjacentSubSeq, Zenon DEF front, back
<1>3. SubSeq(q, 1, Len(q)) = q
  BY SubSeqFull
<1> HIDE DEF front, back
<1>4. (c \o front) \o back = c \o (front \o back)
  BY <1>1, ConcatAssociative
<1>5. c \o front \in Seq(S)
  BY <1>1, ConcatProperties
<1>6. QED
  BY <1>1, <1>2, <1>3, <1>4, <1>5, Zenon DEF front, back

-----------------------------------------------------------------------------
\* Every variable keeps its type at every step.
LEMMA CallbackTypeStep ==
  ASSUME CallbackInv, [CallbackNext]_callbackVars
  PROVE  CallbackTypeOK'
<1> USE DEF CallbackTypeOK, Registered
<1>1. ASSUME NEW r \in Registered, Install(r) PROVE CallbackTypeOK'
  <2>1. /\ phase' \in [Registered -> {"none", "live", "stopped", "dropped", "refused"}]
        /\ strong' \in [Registered -> 0 .. 2] /\ weak' \in [Registered -> 0 .. 1]
    <3>1. CASE /\ phase' = [phase EXCEPT ![r] = "live"]
               /\ strong' = [strong EXCEPT ![r] = 1] /\ weak' = [weak EXCEPT ![r] = 1]
      BY <3>1 DEF CallbackInv
    <3>2. CASE phase' = [phase EXCEPT ![r] = "refused"] /\ UNCHANGED <<strong, weak>>
      BY <3>2 DEF CallbackInv
    <3>3. QED
      BY <1>1, <3>1, <3>2 DEF Install
  <2>2. /\ knows' \in [Registered -> BOOLEAN]
        /\ reader' \in [Registered -> {"none", "reading", "ended"}]
    BY <1>1 DEF CallbackInv, Install
  <2>3. QED
    BY <1>1, <2>1, <2>2 DEF CallbackInv, Install
<1>2. ASSUME NEW r \in Registered, Enter(r) PROVE CallbackTypeOK'
  <2>1. strong[r] \in 0 .. 1
    BY <1>2 DEF CallbackInv, Enter, IsSound, References
  <2>2. /\ strong' \in [Registered -> 0 .. 2] /\ weak' \in [Registered -> 0 .. 1]
    <3>1. CASE strong' = [strong EXCEPT ![r] = @ + 1] /\ UNCHANGED weak
      BY <2>1, <3>1 DEF CallbackInv
    <3>2. CASE UNCHANGED <<strong, weak>>
      BY <3>2 DEF CallbackInv
    <3>3. QED
      BY <1>2, <3>1, <3>2 DEF Enter, WithBorrows
  <2>3. calling' \in [Registered -> {"no", "inside", "inert"}]
    BY <1>2 DEF CallbackInv, Enter
  <2>4. dangled' \in BOOLEAN
    BY <1>2 DEF CallbackInv, Enter
  <2>5. QED
    BY <1>2, <2>2, <2>3, <2>4 DEF CallbackInv, Enter
<1>3. ASSUME NEW r \in Registered, Post(r) PROVE CallbackTypeOK'
  <2>1. posted[r] + 1 \in 1 .. MaxPosts /\ posted[r] + 1 \in 0 .. MaxPosts
    BY <1>3, CallbackAssumption DEF CallbackInv, Post
  <2>2. Append(relayed[r], posted[r] + 1) \in Seq(1 .. MaxPosts)
    BY <2>1, AppendProperties DEF CallbackInv
  <2>3. relayed' \in [Registered -> Seq(1 .. MaxPosts)]
    BY <1>3, <2>2 DEF CallbackInv, Post
  <2>4. QED
    BY <1>3, <2>1, <2>3 DEF CallbackInv, Post
<1>4. ASSUME NEW r \in Registered, Leave(r) PROVE CallbackTypeOK'
  <2>1. calling[r] = "inside" => strong[r] - 1 \in 0 .. 2
    BY <1>4 DEF CallbackInv, Leave, IsSound, References
  <2>2. QED
    BY <1>4, <2>1 DEF CallbackInv, Leave
<1>5. ASSUME NEW r \in Registered, Stop(r) PROVE CallbackTypeOK'
  BY <1>5 DEF CallbackInv, Stop, Deregister
<1>6. ASSUME NEW r \in Registered, DropCallback(r) PROVE CallbackTypeOK'
  <2>1. strong[r] - 1 \in 0 .. 2
    <3>1. References(r) /\ strong[r] \in 0 .. 2 /\ phase[r] \in {"live", "stopped"}
      BY <1>6 DEF CallbackInv, IsSound, DropCallback
    <3>2. QED
      BY <3>1 DEF References
  <2>2. knows' \in [Registered -> BOOLEAN]
    BY <1>6 DEF CallbackInv, DropCallback, Deregister
  <2>3. QED
    BY <1>6, <2>1, <2>2 DEF CallbackInv, DropCallback
<1>7. ASSUME NEW r \in Registered, TakeBatch(r) PROVE CallbackTypeOK'
  <2> DEFINE n == IF Len(relayed[r]) < BatchMost THEN Len(relayed[r]) ELSE BatchMost
  <2>1. n \in 0 .. Len(relayed[r])
    BY CallbackAssumption DEF CallbackInv
  <2>2. /\ collected[r] \o SubSeq(relayed[r], 1, n) \in Seq(1 .. MaxPosts)
        /\ SubSeq(relayed[r], n + 1, Len(relayed[r])) \in Seq(1 .. MaxPosts)
    BY <2>1, BatchSplits DEF CallbackInv
  <2> HIDE DEF n
  <2>3. /\ collected' = [collected EXCEPT ![r] = @ \o SubSeq(relayed[r], 1, n)]
        /\ relayed' = [relayed EXCEPT ![r] = SubSeq(@, n + 1, Len(@))]
    BY <1>7 DEF TakeBatch, n
  <2>4. QED
    <3>1. /\ collected' \in [Registered -> Seq(1 .. MaxPosts)]
          /\ relayed' \in [Registered -> Seq(1 .. MaxPosts)]
      BY <2>2, <2>3 DEF CallbackInv
    <3>2. QED
      BY <1>7, <3>1 DEF CallbackInv, TakeBatch
<1>8. ASSUME NEW r \in Registered, ReaderEnds(r) PROVE CallbackTypeOK'
  BY <1>8 DEF CallbackInv, ReaderEnds
<1>9. ASSUME NEW h \in Handlers, ManualSource(h) PROVE CallbackTypeOK'
  <2>1. /\ handed' \in [Handlers -> {"none", "installed", "refused", "dropped"}]
        /\ count' \in [Handlers -> 0 .. 2] /\ kept' \in [Handlers -> 0 .. 1]
    <3>1. CASE handed' = [handed EXCEPT ![h] = "installed"]
               /\ kept' = [kept EXCEPT ![h] = 1] /\ count' = [count EXCEPT ![h] = 1]
      BY <3>1 DEF CallbackInv
    <3>2. CASE handed' = [handed EXCEPT ![h] = "refused"] /\ UNCHANGED <<kept, count>>
      BY <3>2 DEF CallbackInv
    <3>3. QED
      BY <1>9, <3>1, <3>2 DEF ManualSource
  <2>2. QED
    BY <1>9, <2>1 DEF CallbackInv, ManualSource
<1>10. ASSUME NEW h \in Handlers, MachInstall(h) PROVE CallbackTypeOK'
  <2>1. handed' \in [Handlers -> {"none", "installed", "refused", "dropped"}]
    BY <1>10 DEF CallbackInv, MachInstall
  <2>2. PICK n \in 0 .. 2, m \in 0 .. 1 :
          count' = [count EXCEPT ![h] = n] /\ kept' = [kept EXCEPT ![h] = m]
    <3>1. kept = [kept EXCEPT ![h] = kept[h]] /\ kept[h] \in 0 .. 1
      BY DEF CallbackInv
    <3>2. QED
      BY <1>10, <3>1 DEF MachInstall
  <2>3. count' \in [Handlers -> 0 .. 2] /\ kept' \in [Handlers -> 0 .. 1]
    BY <2>2 DEF CallbackInv
  <2>4. QED
    BY <1>10, <2>1, <2>3 DEF CallbackInv, MachInstall
<1>11. ASSUME NEW h \in Handlers, DropSource(h) PROVE CallbackTypeOK'
  <2>1. count[h] \in 0 .. 2 /\ kept[h] \in 0 .. 1 /\ kept[h] <= count[h]
    BY <1>11 DEF CallbackInv, Counted
  <2>2. count[h] - kept[h] \in 0 .. 2
    BY <2>1
  <2>3. count' \in [Handlers -> 0 .. 2] /\ kept' \in [Handlers -> 0 .. 1]
    BY <1>11, <2>2 DEF CallbackInv, DropSource
  <2>4. handed' \in [Handlers -> {"none", "installed", "refused", "dropped"}]
    BY <1>11 DEF CallbackInv, DropSource
  <2>5. QED
    BY <1>11, <2>3, <2>4 DEF CallbackInv, DropSource
<1>12. CASE UNCHANGED callbackVars
  BY <1>12 DEF CallbackInv, callbackVars
<1>13. QED
  BY <1>1, <1>2, <1>3, <1>4, <1>5, <1>6, <1>7, <1>8, <1>9, <1>10, <1>11, <1>12
  DEF CallbackNext

-----------------------------------------------------------------------------
\* A registration a step leaves alone stays as sound as it was.
LEMMA OtherStands ==
  ASSUME NEW s \in Registered, IsSound(s),
         /\ phase'[s] = phase[s] /\ strong'[s] = strong[s] /\ weak'[s] = weak[s]
         /\ knows'[s] = knows[s] /\ calling'[s] = calling[s] /\ posted'[s] = posted[s]
         /\ relayed'[s] = relayed[s] /\ collected'[s] = collected[s]
         /\ reader'[s] = reader[s]
  PROVE  IsSound(s)'
BY DEF IsSound, References, ReaderStands, Relays

\* What was posted does not change without a post or a batch.
LEMMA RelaysKept ==
  ASSUME NEW s \in Registered, Relays(s), UNCHANGED <<posted, relayed, collected>>
  PROVE  Relays(s)'
BY DEF Relays

LEMMA InstallSound ==
  ASSUME CallbackInv, NEW r \in Registered, Install(r), NEW s \in Registered
  PROVE  IsSound(s)'
<1> USE DEF CallbackTypeOK
<1>1. CASE s # r
  BY <1>1, OtherStands DEF CallbackInv, Install
<1>2. CASE s = r
  <2>1. Relays(r)'
    BY RelaysKept DEF CallbackInv, IsSound, Install
  <2>2. IsSound(r) /\ phase[r] = "none" /\ calling' = calling
    BY DEF CallbackInv, Install
  <2>3. References(r)' /\ ReaderStands(r)'
    <3>1. CASE phase' = [phase EXCEPT ![r] = "live"]
      <4>1. /\ phase'[r] = "live" /\ strong'[r] = 1 /\ weak'[r] = 1
            /\ knows'[r] /\ reader'[r] = "reading"
        BY <3>1 DEF CallbackInv, Install
      <4>2. QED
        BY <2>2, <4>1 DEF IsSound, References, ReaderStands
    <3>2. CASE phase' = [phase EXCEPT ![r] = "refused"] /\ UNCHANGED <<strong, weak, knows, reader>>
      <4>1. phase'[r] = "refused" /\ UNCHANGED relayed
        BY <3>2 DEF CallbackInv, Install
      <4>2. QED
        BY <2>2, <3>2, <4>1 DEF IsSound, References, ReaderStands
    <3>3. QED
      BY <3>1, <3>2 DEF Install
  <2>4. QED
    BY <1>2, <2>1, <2>3 DEF IsSound
<1>3. QED
  BY <1>1, <1>2

LEMMA EnterSound ==
  ASSUME CallbackInv, NEW r \in Registered, Enter(r), NEW s \in Registered
  PROVE  IsSound(s)' /\ ~dangled'
<1> USE DEF CallbackTypeOK
<1>1. IsSound(r) /\ knows[r] /\ calling[r] = "no" /\ Stands(r)
  BY KnownStands DEF CallbackInv, IsSound, Enter
<1>2. ~dangled'
  BY <1>1 DEF CallbackInv, Enter
<1>3. CASE s # r
  BY <1>2, <1>3, OtherStands DEF CallbackInv, Enter, WithBorrows
<1>4. CASE s = r
  <2>1. Relays(r)'
    BY RelaysKept DEF CallbackInv, IsSound, Enter
  <2>2. phase' = phase /\ knows' = knows /\ reader' = reader /\ weak' = weak
        /\ relayed' = relayed
    BY DEF Enter, WithBorrows
  <2>3. \/ strong[r] > 0 /\ strong'[r] = strong[r] + 1 /\ calling'[r] = "inside"
        \/ strong[r] = 0 /\ strong'[r] = strong[r] /\ calling'[r] = "inert"
    <3>1. strong[r] \in 0 .. 2
      BY DEF CallbackInv
    <3>2. calling'[r] = IF strong[r] > 0 THEN "inside" ELSE "inert"
      BY DEF CallbackInv, Enter
    <3>3. strong'[r] = IF strong[r] > 0 THEN strong[r] + 1 ELSE strong[r]
      BY DEF CallbackInv, Enter, WithBorrows
    <3>4. QED
      BY <3>1, <3>2, <3>3
  <2>4. strong[r] \in 0 .. 2 /\ weak[r] \in 0 .. 1
    BY DEF CallbackInv
  <2>5. QED
    BY <1>1, <1>2, <1>4, <2>1, <2>2, <2>3, <2>4 DEF IsSound, References, ReaderStands
<1>5. QED
  BY <1>3, <1>4, <1>2

LEMMA PostSound ==
  ASSUME CallbackInv, NEW r \in Registered, Post(r), NEW s \in Registered
  PROVE  IsSound(s)'
<1> USE DEF CallbackTypeOK
<1>1. CASE s # r
  BY <1>1, OtherStands DEF CallbackInv, Post
<1>2. CASE s = r
  <2>1. IsSound(r) /\ calling[r] = "inside" /\ strong[r] \in 0 .. 2
    BY DEF CallbackInv, Post
  <2>2. reader[r] = "reading" /\ phase[r] \notin {"none", "refused"}
    BY <2>1 DEF CallbackInv, IsSound, ReaderStands, References
  <2>3. posted[r] \in Nat /\ posted[r] + 1 \in 1 .. MaxPosts
    BY CallbackAssumption DEF CallbackInv, Post
  <2>4. /\ posted'[r] = posted[r] + 1 /\ collected' = collected
        /\ relayed'[r] = Append(relayed[r], posted[r] + 1)
    BY <2>2 DEF CallbackInv, Post
  <2>5. Relays(r)'
    <3>1. collected[r] \in Seq(1 .. MaxPosts) /\ relayed[r] \in Seq(1 .. MaxPosts)
      BY DEF CallbackInv
    <3>2. collected[r] \o Append(relayed[r], posted[r] + 1)
          = [k \in 1 .. posted[r] + 1 |-> k]
      <4>1. PICK c \in Seq(1 .. MaxPosts), q \in Seq(1 .. MaxPosts), n \in Nat,
                  e \in 1 .. MaxPosts :
              c = collected[r] /\ q = relayed[r] /\ n = posted[r] /\ e = n + 1
        BY <2>3, <3>1
      <4>2. c \o Append(q, e) = Append(c \o q, e)
        BY AppendsToBoth
      <4>3. c \o q = [k \in 1 .. n |-> k]
        BY <2>1, <4>1 DEF IsSound, Relays
      <4>4. Append([k \in 1 .. n |-> k], e) = [k \in 1 .. e |-> k]
        BY <4>1
      <4>5. c \o Append(q, e) = [k \in 1 .. e |-> k]
        BY <4>2, <4>3, <4>4, Zenon
      <4>6. QED
        BY <4>1, <4>5, Zenon
    <3>3. QED
      BY <2>4, <3>2 DEF Relays
  <2>6. References(r)' /\ ReaderStands(r)'
    <3>1. phase' = phase /\ strong' = strong /\ weak' = weak /\ knows' = knows
          /\ calling' = calling /\ reader' = reader
      BY DEF Post
    <3>2. QED
      BY <2>1, <2>2, <3>1 DEF IsSound, References, ReaderStands
  <2>7. QED
    BY <1>2, <2>5, <2>6 DEF IsSound
<1>3. QED
  BY <1>1, <1>2

LEMMA LeaveSound ==
  ASSUME CallbackInv, NEW r \in Registered, Leave(r), NEW s \in Registered
  PROVE  IsSound(s)'
<1> USE DEF CallbackTypeOK
<1>1. CASE s # r
  BY <1>1, OtherStands DEF CallbackInv, Leave
<1>2. CASE s = r
  <2>1. Relays(r)'
    BY RelaysKept DEF CallbackInv, IsSound, Leave
  <2>2. IsSound(r) /\ strong[r] \in 0 .. 2
    BY DEF CallbackInv
  <2>3. phase' = phase /\ knows' = knows /\ reader' = reader /\ weak' = weak
        /\ relayed' = relayed
    BY DEF Leave
  <2>4. /\ calling[r] # "no" /\ calling'[r] = "no"
        /\ strong'[r] = IF calling[r] = "inside" THEN strong[r] - 1 ELSE strong[r]
    BY DEF CallbackInv, Leave
  <2>5. QED
    BY <1>2, <2>1, <2>2, <2>3, <2>4 DEF IsSound, References, ReaderStands
<1>3. QED
  BY <1>1, <1>2

LEMMA StopSound ==
  ASSUME CallbackInv, NEW r \in Registered, Stop(r), NEW s \in Registered
  PROVE  IsSound(s)'
<1> USE DEF CallbackTypeOK
<1>1. CASE s # r
  BY <1>1, OtherStands DEF CallbackInv, Stop, Deregister
<1>2. CASE s = r
  <2>1. Relays(r)'
    BY RelaysKept DEF CallbackInv, IsSound, Stop
  <2>2. IsSound(r)
    BY DEF CallbackInv
  <2>3. /\ strong' = strong /\ weak' = weak /\ calling' = calling /\ reader' = reader
        /\ relayed' = relayed
    BY DEF Stop
  <2>4. phase[r] = "live" /\ phase'[r] = "stopped"
    BY DEF CallbackInv, Stop
  <2>5. knows'[r] => r \in Outliving
    BY DEF CallbackInv, Stop, Deregister
  <2>6. QED
    BY <1>2, <2>1, <2>2, <2>3, <2>4, <2>5 DEF IsSound, References, ReaderStands
<1>3. QED
  BY <1>1, <1>2

LEMMA DropSound ==
  ASSUME CallbackInv, NEW r \in Registered, DropCallback(r), NEW s \in Registered
  PROVE  IsSound(s)'
<1> USE DEF CallbackTypeOK
<1>1. CASE s # r
  BY <1>1, OtherStands DEF CallbackInv, DropCallback, Deregister
<1>2. CASE s = r
  <2>1. Relays(r)'
    BY RelaysKept DEF CallbackInv, IsSound, DropCallback
  <2>2. IsSound(r) /\ strong[r] \in 0 .. 2
    BY DEF CallbackInv
  <2>3. calling' = calling /\ reader' = reader /\ relayed' = relayed
    BY DEF DropCallback
  <2>4. /\ phase[r] \in {"live", "stopped"} /\ phase'[r] = "dropped"
        /\ strong'[r] = strong[r] - 1
        /\ weak'[r] = IF Reclaims(r) THEN 0 ELSE weak[r]
    BY DEF CallbackInv, DropCallback
  <2>5. knows'[r] => r \in Outliving
    <3>1. CASE phase[r] = "live"
      BY <3>1 DEF CallbackInv, DropCallback, Deregister
    <3>2. CASE phase[r] = "stopped"
      BY <2>2, <3>2 DEF DropCallback, IsSound, References
    <3>3. QED
      BY <2>4, <3>1, <3>2
  <2>6. r \in Outliving => ~Reclaims(r)
    BY CallbackAssumption DEF Reclaims
  <2>7. QED
    BY <1>2, <2>1, <2>2, <2>3, <2>4, <2>5, <2>6 DEF IsSound, References, ReaderStands
<1>3. QED
  BY <1>1, <1>2

LEMMA TakeBatchSound ==
  ASSUME CallbackInv, NEW r \in Registered, TakeBatch(r), NEW s \in Registered
  PROVE  IsSound(s)'
<1> USE DEF CallbackTypeOK
<1>1. CASE s # r
  BY <1>1, OtherStands DEF CallbackInv, TakeBatch
<1>2. CASE s = r
  <2> DEFINE n == IF Len(relayed[r]) < BatchMost THEN Len(relayed[r]) ELSE BatchMost
  <2>1. n \in 0 .. Len(relayed[r])
    BY CallbackAssumption DEF CallbackInv
  <2>2. /\ collected'[r] = collected[r] \o SubSeq(relayed[r], 1, n)
        /\ relayed'[r] = SubSeq(relayed[r], n + 1, Len(relayed[r]))
    BY DEF CallbackInv, TakeBatch
  <2> HIDE DEF n
  <2>3. collected'[r] \o relayed'[r] = collected[r] \o relayed[r]
    <3>1. collected[r] \in Seq(1 .. MaxPosts) /\ relayed[r] \in Seq(1 .. MaxPosts)
      BY DEF CallbackInv
    <3>2. (collected[r] \o SubSeq(relayed[r], 1, n))
            \o SubSeq(relayed[r], n + 1, Len(relayed[r]))
          = collected[r] \o relayed[r]
      BY <2>1, <3>1, BatchSplits
    <3>3. QED
      BY <2>2, <3>2, Zenon
  <2>4. /\ phase' = phase /\ strong' = strong /\ weak' = weak /\ knows' = knows
        /\ calling' = calling /\ posted' = posted /\ reader' = reader
        /\ reader[r] = "reading"
    BY DEF TakeBatch
  <2>5. IsSound(r)
    BY DEF CallbackInv
  <2>6. Relays(r)'
    BY <2>3, <2>4, <2>5 DEF IsSound, Relays
  <2>7. References(r)' /\ ReaderStands(r)'
    BY <2>4, <2>5 DEF IsSound, References, ReaderStands
  <2>8. QED
    BY <1>2, <2>6, <2>7 DEF IsSound
<1>3. QED
  BY <1>1, <1>2

LEMMA ReaderEndsSound ==
  ASSUME CallbackInv, NEW r \in Registered, ReaderEnds(r), NEW s \in Registered
  PROVE  IsSound(s)'
<1> USE DEF CallbackTypeOK
<1>1. CASE s # r
  BY <1>1, OtherStands DEF CallbackInv, ReaderEnds
<1>2. CASE s = r
  <2>1. Relays(r)'
    BY RelaysKept DEF CallbackInv, IsSound, ReaderEnds
  <2>2. IsSound(r)
    BY DEF CallbackInv
  <2>3. /\ phase' = phase /\ strong' = strong /\ weak' = weak /\ knows' = knows
        /\ calling' = calling /\ relayed' = relayed
    BY DEF ReaderEnds
  <2>4. /\ reader[r] = "reading" /\ reader'[r] = "ended"
        /\ strong[r] = 0 /\ relayed[r] = <<>>
    BY DEF CallbackInv, ReaderEnds, EndsWhen
  <2>5. QED
    BY <1>2, <2>1, <2>2, <2>3, <2>4 DEF IsSound, References, ReaderStands
<1>3. QED
  BY <1>1, <1>2

\* CoreFoundation never holds more references to a handler than it counts.
LEMMA HandlersCounted ==
  ASSUME CallbackInv, NEW h \in Handlers,
         ManualSource(h) \/ MachInstall(h) \/ DropSource(h), NEW g \in Handlers
  PROVE  Counted(g)'
<1> USE DEF CallbackTypeOK
<1>1. Counted(g) /\ Counted(h) /\ count[h] \in 0 .. 2 /\ kept[h] \in 0 .. 1
  BY DEF CallbackInv
<1>2. CASE g # h
  <2>1. handed'[g] = handed[g] /\ count'[g] = count[g] /\ kept'[g] = kept[g]
    BY <1>2 DEF CallbackInv, ManualSource, MachInstall, DropSource
  <2>2. QED
    BY <1>1, <2>1 DEF Counted
<1>3. CASE g = h
  <2>1. ASSUME ManualSource(h) PROVE kept'[h] <= count'[h] /\ handed'[h] # "none"
    BY <1>1, <2>1 DEF CallbackInv, ManualSource, Counted
  <2>2. ASSUME MachInstall(h) PROVE kept'[h] <= count'[h] /\ handed'[h] # "none"
    <3>1. handed[h] = "none" /\ kept[h] = 0
      BY <1>1, <2>2 DEF MachInstall, Counted
    <3>2. CASE kept' = [kept EXCEPT ![h] = 1] /\ count' = [count EXCEPT ![h] = 2]
               /\ handed' = [handed EXCEPT ![h] = "installed"]
      BY <3>2 DEF CallbackInv
    <3>3. ASSUME NEW orphaned \in BOOLEAN, UNCHANGED kept,
                 count' = [count EXCEPT ![h] = IF orphaned THEN 0 ELSE 1],
                 handed' = [handed EXCEPT ![h] = "refused"]
          PROVE  kept'[h] <= count'[h] /\ handed'[h] # "none"
      BY <3>1, <3>3 DEF CallbackInv
    <3>4. QED
      BY <2>2, <3>2, <3>3 DEF MachInstall
  <2>3. ASSUME DropSource(h) PROVE kept'[h] <= count'[h] /\ handed'[h] # "none"
    <3>1. kept'[h] = 0 /\ count'[h] = count[h] - kept[h] /\ handed'[h] = "dropped"
      BY <2>3 DEF CallbackInv, DropSource
    <3>2. QED
      BY <1>1, <3>1 DEF Counted
  <2>4. QED
    BY <1>3, <2>1, <2>2, <2>3 DEF Counted
<1>4. QED
  BY <1>2, <1>3

-----------------------------------------------------------------------------
LEMMA CallbackStart == CallbackInit => CallbackInv
<1> SUFFICES ASSUME CallbackInit PROVE CallbackInv
  OBVIOUS
<1>1. CallbackTypeOK
  <2>1. 0 \in 0 .. MaxPosts
    BY CallbackAssumption
  <2>2. <<>> \in Seq(1 .. MaxPosts)
    OBVIOUS
  <2>3. posted \in [Registered -> 0 .. MaxPosts]
        /\ relayed \in [Registered -> Seq(1 .. MaxPosts)]
        /\ collected \in [Registered -> Seq(1 .. MaxPosts)]
    BY <2>1, <2>2 DEF CallbackInit
  <2>4. /\ phase \in [Registered -> {"none", "live", "stopped", "dropped", "refused"}]
        /\ knows \in [Registered -> BOOLEAN] /\ dangled \in BOOLEAN
    BY DEF CallbackInit
  <2>5. strong \in [Registered -> 0 .. 2] /\ weak \in [Registered -> 0 .. 1]
    BY DEF CallbackInit
  <2>6. calling \in [Registered -> {"no", "inside", "inert"}]
    BY DEF CallbackInit
  <2>7. reader \in [Registered -> {"none", "reading", "ended"}]
    BY DEF CallbackInit
  <2>8. handed \in [Handlers -> {"none", "installed", "refused", "dropped"}]
    BY DEF CallbackInit
  <2>9. count \in [Handlers -> 0 .. 2] /\ kept \in [Handlers -> 0 .. 1]
    BY DEF CallbackInit
  <2>10. QED
    BY <2>3, <2>4, <2>5, <2>6, <2>7, <2>8, <2>9 DEF CallbackTypeOK
<1>2. ASSUME NEW r \in Registered PROVE IsSound(r)
  <2>1. References(r) /\ ReaderStands(r)
    BY DEF CallbackInit, References, ReaderStands
  <2>2. <<>> \o <<>> = [n \in 1 .. 0 |-> n]
    OBVIOUS
  <2>3. Relays(r)
    BY <2>2 DEF CallbackInit, Relays
  <2>4. QED
    BY <2>1, <2>3 DEF IsSound
<1>3. \A h \in Handlers : Counted(h)
  BY DEF CallbackInit, Counted
<1>4. QED
  BY <1>1, <1>2, <1>3 DEF CallbackInv, CallbackInit

LEMMA CallbackStep == CallbackInv /\ [CallbackNext]_callbackVars => CallbackInv'
<1> SUFFICES ASSUME CallbackInv, [CallbackNext]_callbackVars PROVE CallbackInv'
  OBVIOUS
<1>1. CallbackTypeOK'
  BY CallbackTypeStep
<1> DEFINE OfRegistration(r) ==
             \/ Install(r) \/ Enter(r) \/ Post(r) \/ Leave(r)
             \/ Stop(r) \/ DropCallback(r) \/ TakeBatch(r) \/ ReaderEnds(r)
<1>2. ASSUME NEW r \in Registered, OfRegistration(r) PROVE CallbackInv'
  <2>1. ASSUME NEW s \in Registered PROVE IsSound(s)'
    BY <1>2, InstallSound, EnterSound, PostSound, LeaveSound, StopSound, DropSound,
       TakeBatchSound, ReaderEndsSound
  <2>2. ~dangled'
    <3>1. CASE Enter(r)
      BY <3>1, EnterSound
    <3>2. CASE ~Enter(r)
      BY <1>2, <3>2
      DEF CallbackInv, Install, Post, Leave, Stop, DropCallback, TakeBatch, ReaderEnds
    <3>3. QED
      BY <3>1, <3>2
  <2>3. UNCHANGED <<handed, count, kept>>
    BY <1>2 DEF Install, Enter, Post, Leave, Stop, DropCallback, TakeBatch, ReaderEnds
  <2>4. \A h \in Handlers : Counted(h)'
    BY <2>3 DEF CallbackInv, Counted
  <2>5. QED
    BY <1>1, <2>1, <2>2, <2>4 DEF CallbackInv, Registered
<1>3. ASSUME NEW h \in Handlers, ManualSource(h) \/ MachInstall(h) \/ DropSource(h)
      PROVE  CallbackInv'
  <2>1. UNCHANGED <<phase, strong, weak, knows, calling, dangled, posted, relayed,
                    collected, reader>>
    BY <1>3 DEF ManualSource, MachInstall, DropSource
  <2>2. ASSUME NEW s \in Registered PROVE IsSound(s)'
    BY <2>1, OtherStands DEF CallbackInv
  <2>3. \A g \in Handlers : Counted(g)'
    BY <1>3, HandlersCounted
  <2>4. QED
    BY <1>1, <2>1, <2>2, <2>3 DEF CallbackInv, Registered
<1>4. CASE UNCHANGED callbackVars
  <2>1. ASSUME NEW s \in Registered PROVE IsSound(s)'
    BY <1>4, OtherStands DEF CallbackInv, callbackVars
  <2>2. \A g \in Handlers : Counted(g)'
    BY <1>4 DEF CallbackInv, callbackVars, Counted
  <2>3. QED
    BY <1>1, <1>4, <2>1, <2>2 DEF CallbackInv, callbackVars, Registered
<1>5. QED
  BY <1>2, <1>3, <1>4 DEF CallbackNext

LEMMA CallbackHolds == CallbackSpec => []CallbackInv
BY CallbackStart, CallbackStep, PTL DEF CallbackSpec

-----------------------------------------------------------------------------
\* Every variable of Callback keeps its type, so no registration's or handler's
\* references go below zero or beyond two.
THEOREM CallbackTyped == CallbackSpec => []CallbackTypeOK
<1>1. CallbackInv => CallbackTypeOK
  BY DEF CallbackInv
<1>2. QED
  BY <1>1, CallbackHolds, PTL

\* References that are counted and readers that stand leave no pointer dangling.
LEMMA SoundSuffices == CallbackInv => NeverDangling
<1> SUFFICES ASSUME CallbackInv PROVE NeverDangling
  OBVIOUS
<1>1. ASSUME NEW r \in Registered
      PROVE  /\ knows[r] => Stands(r)
             /\ calling[r] = "inside" => strong[r] > 0
             /\ collected[r] \o relayed[r] = [n \in 1 .. posted[r] |-> n]
             /\ reader[r] = "ended" => relayed[r] = <<>> /\ calling[r] # "inside"
  <2>1. CallbackTypeOK /\ References(r) /\ ReaderStands(r) /\ Relays(r)
    BY DEF CallbackInv, IsSound
  <2>2. knows[r] => Stands(r)
    BY <2>1, KnownStands
  <2>3. calling[r] = "inside" => strong[r] > 0
    BY <2>1 DEF References
  <2>4. QED
    BY <2>1, <2>2, <2>3 DEF ReaderStands, Relays
<1>2. \A h \in Handlers : kept[h] <= count[h]
  BY DEF CallbackInv, Counted
<1>3. QED
  BY <1>1, <1>2 DEF CallbackInv, NeverDangling

\* No call of a framework's finds its pointer freed or its state gone under it,
\* nothing posted is lost or reordered, and a relay's task ends only after the
\* last of it.
THEOREM NothingDangles == CallbackSpec => []NeverDangling
BY SoundSuffices, CallbackHolds, PTL
=============================================================================
