----------------------------- MODULE PumpProofs -----------------------------
(***************************************************************************)
(* Theorems about Pump, for any clients and captures, any limit on the     *)
(* drain and any refresh rates: no request and no undrawn surface is ever  *)
(* left with nothing on its way to serve it, and no permit outlives the    *)
(* wait it was left in.                                                    *)
(***************************************************************************)
EXTENDS Pump, SequenceTheorems, TLAPS

\* The frame task is past its await exactly while the main thread is in a frame.
OneFrame == InFrame <=> task \in {"running", "resumed"}

\* A frame task that waits is in the queue, or has been handed the connection
\* and signalled.
HandedOver == task = "acquiring" => Waiting(Frame) \/ (holder = Frame /\ passSig)

\* Whatever is behind is known to its gate or remembered by the budget.
Remembering == undrawn \subseteq want \cup dirty

\* A frame that leaves something undrawn leaves a deadline that is not spent.
Deferred == (main = "closing" /\ undrawn # {}) => wake = "armed"

TaskInv == TypeOK /\ OneFrame /\ HandedOver /\ NoExtraFrame

\* The inductive invariant.  A frame may consume a signal only because the task
\* it resumes is the one the signal was for: OneFrame and HandedOver; and a pass
\* may end with something undrawn only because of Remembering and Deferred.
IInv == TaskInv /\ NoStrandedRequest /\ Remembering /\ Deferred /\ UndrawnIsScheduled

-----------------------------------------------------------------------------
(* Who waits for the connection.                                            *)

\* Whoever joins the queue is in it.
LEMMA JoinQueue ==
  ASSUME NEW T, NEW q \in Seq(T), NEW c \in T
  PROVE  /\ Append(q, c) \in Seq(T)
         /\ \E i \in DOMAIN Append(q, c) : Append(q, c)[i] = c
         /\ \A w : (\E i \in DOMAIN q : q[i] = w)
                     => \E i \in DOMAIN Append(q, c) : Append(q, c)[i] = w
<1>1. /\ Append(q, c) \in Seq(T) /\ Len(Append(q, c)) = Len(q) + 1
      /\ Append(q, c)[Len(q) + 1] = c
      /\ \A i \in 1 .. Len(q) : Append(q, c)[i] = q[i]
  BY AppendProperties
<1>2. DOMAIN q = 1 .. Len(q) /\ Len(q) \in Nat /\ DOMAIN Append(q, c) = 1 .. Len(q) + 1
  BY <1>1, LenProperties
<1>3. QED
  BY <1>1, <1>2

\* Whoever is not at the head stays in the queue.
LEMMA LeaveHead ==
  ASSUME NEW T, NEW q \in Seq(T), q # <<>>
  PROVE  /\ Head(q) \in T /\ Tail(q) \in Seq(T)
         /\ \A w : (\E i \in DOMAIN q : q[i] = w) /\ Head(q) # w
                     => \E i \in DOMAIN Tail(q) : Tail(q)[i] = w
<1>1. /\ Head(q) \in T /\ Tail(q) \in Seq(T) /\ Len(Tail(q)) = Len(q) - 1
      /\ \A i \in 1 .. Len(Tail(q)) : Tail(q)[i] = q[i + 1]
      /\ Head(q) = q[1]
  BY HeadTailProperties
<1>2. DOMAIN q = 1 .. Len(q) /\ Len(q) \in Nat /\ DOMAIN Tail(q) = 1 .. Len(q) - 1
  BY <1>1, LenProperties
<1>3. ASSUME NEW w, NEW i \in DOMAIN q, q[i] = w, Head(q) # w
      PROVE  \E j \in DOMAIN Tail(q) : Tail(q)[j] = w
  <2>1. i - 1 \in DOMAIN Tail(q) /\ Tail(q)[i - 1] = q[i]
    BY <1>1, <1>2, <1>3
  <2>2. QED
    BY <1>3, <2>1
<1>4. QED
  BY <1>1, <1>3

\* Whoever is not the one that gives up stays in the queue.
LEMMA GiveUp ==
  ASSUME NEW T, NEW q \in Seq(T), NEW i \in DOMAIN q
  PROVE  LET r == SubSeq(q, 1, i - 1) \o SubSeq(q, i + 1, Len(q)) IN
         /\ r \in Seq(T)
         /\ \A w : (\E j \in DOMAIN q : q[j] = w) /\ q[i] # w
                     => \E j \in DOMAIN r : r[j] = w
<1> DEFINE a == SubSeq(q, 1, i - 1)
           b == SubSeq(q, i + 1, Len(q))
<1> HIDE DEF a, b
<1>1. DOMAIN q = 1 .. Len(q) /\ Len(q) \in Nat
  BY LenProperties
<1>2. a \in Seq(T) /\ Len(a) = i - 1 /\ \A j \in 1 .. i - 1 : a[j] = q[j]
  BY <1>1, SubSeqProperties DEF a
<1>3. b \in Seq(T) /\ Len(b) = Len(q) - i /\ \A j \in 1 .. Len(q) - i : b[j] = q[i + j]
  BY <1>1, SubSeqProperties DEF b
<1>4. /\ a \o b \in Seq(T) /\ Len(a \o b) = Len(a) + Len(b)
      /\ \A n \in 1 .. Len(a) + Len(b) :
           (a \o b)[n] = IF n <= Len(a) THEN a[n] ELSE b[n - Len(a)]
  <2>1. a \in Seq(T) /\ b \in Seq(T)
    BY <1>2, <1>3
  <2>2. QED
    BY <2>1, ConcatProperties
<1>5. Len(a) + Len(b) = Len(q) - 1 /\ DOMAIN (a \o b) = 1 .. Len(q) - 1
  <2>1. Len(a) + Len(b) = Len(q) - 1
    BY <1>1, <1>2, <1>3
  <2>2. QED
    BY <1>4, <2>1, LenProperties
<1>6. ASSUME NEW j \in 1 .. i - 1 PROVE (a \o b)[j] = q[j]
  <2>1. j \in 1 .. Len(q) - 1 /\ j <= Len(a)
    BY <1>1, <1>2
  <2>2. (a \o b)[j] = a[j]
    BY <1>4, <1>5, <2>1
  <2>3. QED
    BY <1>2, <2>2
<1>7. ASSUME NEW l \in 1 .. Len(q) - i PROVE (a \o b)[l + (i - 1)] = q[i + l]
  <2>1. /\ l + (i - 1) \in 1 .. Len(q) - 1 /\ ~(l + (i - 1) <= Len(a))
        /\ (l + (i - 1)) - Len(a) = l
    BY <1>1, <1>2
  <2>2. (a \o b)[l + (i - 1)] = b[l]
    BY <1>4, <1>5, <2>1
  <2>3. QED
    BY <1>3, <2>2
<1>8. ASSUME NEW w, NEW j \in DOMAIN q, q[j] = w, q[i] # w
      PROVE  \E l \in DOMAIN (a \o b) : (a \o b)[l] = w
  <2>1. CASE j < i
    <3>1. j \in 1 .. i - 1 /\ j \in 1 .. Len(q) - 1
      BY <1>1, <2>1
    <3>2. QED
      BY <1>5, <1>6, <1>8, <3>1
  <2>2. CASE j > i
    <3>1. PICK l \in 1 .. Len(q) - i : j = i + l
      <4>1. j - i \in 1 .. Len(q) - i /\ j = i + (j - i)
        BY <1>1, <2>2
      <4>2. QED
        BY <4>1
    <3>2. l + (i - 1) \in 1 .. Len(q) - 1
      BY <1>1, <3>1
    <3>3. QED
      BY <1>5, <1>7, <1>8, <3>1, <3>2
  <2>3. QED
    BY <1>1, <1>8, <2>1, <2>2
<1>9. QED
  BY <1>4, <1>8 DEF a, b

-----------------------------------------------------------------------------
\* What `PassOn` does to the queue: everybody but the one it hands the
\* connection to stays in it, and the frame task is signalled when it is that one.
LEMMA PassOnKeeps ==
  ASSUME TypeOK, PassOn
  PROVE  /\ holder' \in Capture \cup {Frame, Nobody}
         /\ queue' \in Seq(Capture \cup {Frame}) /\ passSig' \in BOOLEAN
         /\ passSig => passSig'
         /\ Waiting(Frame) => Waiting(Frame)' \/ (holder' = Frame /\ passSig')
<1>1. CASE queue = <<>>
  <2>1. ~Waiting(Frame)
    BY <1>1 DEF Waiting
  <2>2. QED
    BY <1>1, <2>1 DEF PassOn, TypeOK
<1>2. CASE queue # <<>>
  <2>1. /\ holder' = Head(queue) /\ queue' = Tail(queue)
        /\ passSig' = (passSig \/ Head(queue) = Frame)
    BY <1>2 DEF PassOn, WakeTaker
  <2>2. /\ Head(queue) \in Capture \cup {Frame}
        /\ Tail(queue) \in Seq(Capture \cup {Frame})
        /\ (\E i \in DOMAIN queue : queue[i] = Frame) /\ Head(queue) # Frame
             => \E i \in DOMAIN Tail(queue) : Tail(queue)[i] = Frame
    <3>1. queue \in Seq(Capture \cup {Frame})
      BY DEF TypeOK
    <3>2. QED
      BY <1>2, <3>1, LeaveHead
  <2>3. passSig' \in BOOLEAN /\ (passSig => passSig') /\ (Head(queue) = Frame => passSig')
    BY <2>1 DEF TypeOK
  <2>4. Waiting(Frame) => Waiting(Frame)' \/ (holder' = Frame /\ passSig')
    BY <2>1, <2>2, <2>3 DEF Waiting
  <2>5. QED
    BY <2>1, <2>2, <2>3, <2>4
<1>3. QED
  BY <1>1, <1>2

\* `run_frame` up to its await: it has the connection or is in the queue for it.
LEMMA AskKeeps ==
  ASSUME TypeOK, NEW has \in Capture \cup {Frame, Nobody},
         NEW waiting \in Seq(Capture \cup {Frame}),
         AskForConnection(has, waiting)
  PROVE  /\ holder' \in Capture \cup {Frame, Nobody}
         /\ queue' \in Seq(Capture \cup {Frame})
         /\ \/ main' = "draining" /\ task' = "running" /\ turns' = 0
            \/ main' = "base" /\ task' = "acquiring" /\ turns' = turns /\ Waiting(Frame)'
<1>1. CASE has = Nobody
  BY <1>1 DEF AskForConnection, Frame
<1>2. CASE has # Nobody
  BY <1>2, JoinQueue DEF AskForConnection, Waiting
<1>3. QED
  BY <1>1, <1>2

\* A frame that ends with a permit left asks for the connection anew, behind
\* whoever it has just let pass.
LEMMA GoesRoundAgain ==
  ASSUME TypeOK, EndFrame, permit
  PROVE  \E has \in Capture \cup {Frame, Nobody}, waiting \in Seq(Capture \cup {Frame}) :
           AskForConnection(has, waiting)
<1>1. queue \in Seq(Capture \cup {Frame})
  BY DEF TypeOK
<1>2. CASE queue = <<>>
  BY <1>2, EmptySeq DEF EndFrame
<1>3. CASE queue # <<>>
  <2>1. Head(queue) \in Capture \cup {Frame} /\ Tail(queue) \in Seq(Capture \cup {Frame})
    BY <1>1, <1>3, LeaveHead
  <2>2. AskForConnection(Head(queue), Tail(queue))
    BY <1>3 DEF EndFrame
  <2>3. QED
    BY <2>1, <2>2
<1>4. QED
  BY <1>2, <1>3

\* `pass`, outside a frame: a frame begins, or its task is in the queue.
LEMMA PollKeeps ==
  ASSUME TaskInv, ~InFrame, Poll
  PROVE  /\ holder' \in Capture \cup {Frame, Nobody}
         /\ queue' \in Seq(Capture \cup {Frame})
         /\ permit' \in BOOLEAN /\ turns' \in 0 .. CoalesceLimit
         /\ permit' => task' \in {"acquiring", "resumed"}
         /\ \/ main' = "draining" /\ task' \in {"running", "resumed"}
            \/ main' = "base" /\ task' = "acquiring" /\ Waiting(Frame)'
<1>1. /\ holder \in Capture \cup {Frame, Nobody} /\ queue \in Seq(Capture \cup {Frame})
      /\ permit \in BOOLEAN /\ turns \in 0 .. CoalesceLimit /\ 0 \in 0 .. CoalesceLimit
  BY LimitAssumption DEF TaskInv, TypeOK
<1>2. CASE task = "idle" /\ AskForConnection(holder, queue) /\ UNCHANGED permit
  <2>1. ~permit
    BY <1>2 DEF TaskInv, NoExtraFrame
  <2>2. QED
    BY <1>1, <1>2, <2>1, AskKeeps DEF TaskInv
<1>3. CASE /\ task = "acquiring" /\ holder = Frame
           /\ main' = "draining" /\ turns' = 0 /\ task' = "resumed" /\ permit' = TRUE
           /\ UNCHANGED lockVars
  BY <1>1, <1>3 DEF lockVars
<1>4. CASE /\ task = "acquiring" /\ holder # Frame
           /\ permit' = TRUE /\ main' = "base" /\ UNCHANGED <<task, turns, lockVars>>
  <2>1. Waiting(Frame)
    BY <1>4 DEF TaskInv, HandedOver
  <2>2. QED
    BY <1>1, <1>4, <2>1 DEF lockVars, Waiting
<1>5. QED
  BY <1>2, <1>3, <1>4 DEF Poll

-----------------------------------------------------------------------------
\* Every variable keeps its type at every step.
LEMMA TypeStep == ASSUME TaskInv, Next PROVE TypeOK'
<1> USE LimitAssumption DEF TaskInv
<1>1. ASSUME ~InFrame, Poll,
             passSig' \in BOOLEAN, exitSig' \in BOOLEAN, exitMsg' \in 0 .. 2,
             UNCHANGED <<token, stop, client, asks, port, inbox,
                         dirty, undrawn, want, interval, age, wake, deadline>>
      PROVE  TypeOK'
  BY <1>1, PollKeeps DEF TypeOK
<1>2. CASE FirstPass
  BY <1>1, <1>2 DEF FirstPass, InFrame, TypeOK, ipcVars, budgetVars
<1>3. CASE HandlePass
  BY <1>1, <1>3 DEF HandlePass, Parked, InFrame, TypeOK, ipcVars, budgetVars
<1>4. CASE HandleExit
  <2>1. ~InFrame
    BY <1>4 DEF HandleExit, Parked, InFrame
  <2>2. passSig' \in BOOLEAN /\ exitSig' \in BOOLEAN
    BY <1>4 DEF HandleExit, TypeOK
  <2>3. exitMsg' \in 0 .. 2
    BY <1>4 DEF HandleExit
  <2>4. QED
    BY <1>1, <1>4, <2>1, <2>2, <2>3 DEF HandleExit, ipcVars
<1>5. CASE Enter \/ LoopReturns
  BY <1>5 DEF Enter, LoopReturns, TypeOK, ipcVars, frameVars, lockVars, budgetVars
<1>6. CASE NestedPass \/ NestedExit
  <2>1. turns' \in 0 .. CoalesceLimit
    BY <1>6 DEF NestedPass, NestedExit, Nested, CountTurn, TypeOK
  <2>2. passSig' \in BOOLEAN /\ exitSig' \in BOOLEAN
    BY <1>6 DEF NestedPass, NestedExit, TypeOK
  <2>3. QED
    BY <1>6, <2>1, <2>2 DEF NestedPass, NestedExit, Reentered, TypeOK,
                            ipcVars, lockVars, budgetVars
<1>7. ASSUME InTurn PROVE turns' \in 0 .. CoalesceLimit
  BY <1>7 DEF InTurn, Nested, CountTurn, TypeOK
<1>8. CASE Deliver
  <2>1. Head(port) \in Client /\ Tail(port) \in Seq(Client)
    BY <1>8 DEF Deliver, TypeOK
  <2>2. QED
    BY <1>7, <1>8, <2>1 DEF Deliver, Announce, TypeOK, lockVars, budgetVars
<1>9. CASE Fire
  BY <1>7, <1>9 DEF Fire, TypeOK, ipcVars, lockVars
<1>10. CASE DrainDone
  BY <1>10 DEF DrainDone, TypeOK, ipcVars, lockVars
<1>11. CASE Apply
  <2>1. Head(inbox) \in Client /\ Tail(inbox) \in Seq(Client)
    BY <1>11 DEF Apply, TypeOK
  <2>2. Touched(asks[Head(inbox)]) \subseteq Surface
    BY DEF Touched, Surface
  <2>3. QED
    BY <1>11, <2>1, <2>2 DEF Apply, TypeOK, loopVars, frameVars, lockVars
<1>12. CASE ApplyDone \/ DisplaysChanged
  BY <1>12 DEF ApplyDone, DisplaysChanged, TypeOK, ipcVars, frameVars, lockVars, budgetVars
<1>13. CASE Present
  BY <1>13 DEF Present, Remembered, Rearmed, TypeOK, ipcVars, frameVars, lockVars
<1>14. CASE EndFrame
  <2>1. CASE permit
    <3>1. PICK has \in Capture \cup {Frame, Nobody}, waiting \in Seq(Capture \cup {Frame}) :
             AskForConnection(has, waiting)
      BY <1>14, <2>1, GoesRoundAgain
    <3>2. /\ holder' \in Capture \cup {Frame, Nobody} /\ queue' \in Seq(Capture \cup {Frame})
          /\ main' \in {"draining", "base"} /\ task' \in {"running", "acquiring"}
          /\ turns' \in {0, turns}
      BY <3>1, AskKeeps
    <3>3. token' \in {"none", "parked", "taken"} /\ permit' = FALSE /\ passSig' = passSig
      BY <1>14, <2>1 DEF EndFrame, TypeOK
    <3>4. turns' \in 0 .. CoalesceLimit
      BY <3>2 DEF TypeOK
    <3>5. QED
      BY <1>14, <3>2, <3>3, <3>4 DEF EndFrame, TypeOK, ipcVars, budgetVars
  <2>2. CASE ~permit
    BY <1>14, <2>2, PassOnKeeps DEF EndFrame, TypeOK, ipcVars, budgetVars
  <2>3. QED
    BY <2>1, <2>2
<1>15. ASSUME NEW c \in Client, PoolAnswers(c) PROVE TypeOK'
  BY <1>15 DEF PoolAnswers, TypeOK, loopVars, frameVars, lockVars, budgetVars
<1>16. ASSUME NEW c \in Client, NEW kind \in Kind, Send(c, kind) PROVE TypeOK'
  BY <1>16 DEF Send, TypeOK, loopVars, frameVars, lockVars, budgetVars
<1>17. ASSUME NEW c \in Capture, CaptureAcquire(c) PROVE TypeOK'
  <2>1. queue \in Seq(Capture \cup {Frame}) /\ c \in Capture \cup {Frame}
    BY DEF TypeOK
  <2>2. Append(queue, c) \in Seq(Capture \cup {Frame})
    BY <2>1, JoinQueue
  <2>3. holder' \in Capture \cup {Frame, Nobody} /\ queue' \in Seq(Capture \cup {Frame})
    BY <1>17, <2>1, <2>2 DEF CaptureAcquire, TypeOK
  <2>4. QED
    BY <1>17, <2>3 DEF CaptureAcquire, TypeOK, loopVars, ipcVars, frameVars, budgetVars
<1>18. ASSUME NEW c \in Capture, CaptureRelease(c) PROVE TypeOK'
  BY <1>18, PassOnKeeps DEF CaptureRelease, TypeOK, ipcVars, frameVars, budgetVars
<1>19. ASSUME NEW c \in Capture, CaptureCancel(c) PROVE TypeOK'
  <2>1. queue' \in Seq(Capture \cup {Frame})
    <3>1. queue \in Seq(Capture \cup {Frame})
      BY DEF TypeOK
    <3>2. QED
      BY <1>19, <3>1, GiveUp DEF CaptureCancel
  <2>2. QED
    BY <1>19, <2>1 DEF CaptureCancel, TypeOK, loopVars, ipcVars, frameVars, budgetVars
<1>20. CASE RecordStop \/ WakeExit \/ Nudge
  <2>1. /\ passSig' \in BOOLEAN /\ exitSig' \in BOOLEAN
        /\ stop' \in {"none", "recorded", "woken"}
    BY <1>20 DEF RecordStop, WakeExit, Nudge, TypeOK
  <2>2. QED
    BY <1>20, <2>1 DEF RecordStop, WakeExit, Nudge, TypeOK,
                       ipcVars, frameVars, lockVars, budgetVars
<1>21. CASE Elapse
  BY <1>21 DEF Elapse, TypeOK, loopVars, ipcVars, frameVars, lockVars
<1>22. QED
  BY <1>2, <1>3, <1>4, <1>5, <1>6, <1>8, <1>9, <1>10, <1>11, <1>12, <1>13, <1>14,
     <1>15, <1>16, <1>17, <1>18, <1>19, <1>20, <1>21
     DEF Next, MainThread, FrameStep, NestedTurn, Others

\* The frame task is in a frame, in the queue, signalled or idle, whatever
\* happens to it or beside it.
LEMMA TaskStep == ASSUME TaskInv, Next PROVE TaskInv'
<1>1. SUFFICES OneFrame' /\ HandedOver' /\ NoExtraFrame'
  BY TypeStep DEF TaskInv
<1>2. ASSUME ~InFrame, Poll PROVE OneFrame' /\ HandedOver' /\ NoExtraFrame'
  BY <1>2, PollKeeps DEF OneFrame, HandedOver, NoExtraFrame, InFrame
<1>3. CASE FirstPass \/ HandlePass \/ HandleExit
  BY <1>2, <1>3 DEF FirstPass, HandlePass, HandleExit, Parked, InFrame
\* Steps between frames that leave the task and the connection alone.
<1>4. ASSUME UNCHANGED <<task, permit, lockVars>>, passSig => passSig', InFrame' <=> InFrame
      PROVE  OneFrame' /\ HandedOver' /\ NoExtraFrame'
  BY <1>4 DEF TaskInv, OneFrame, HandedOver, NoExtraFrame, Waiting, lockVars
<1>5. CASE Enter \/ LoopReturns
  BY <1>4, <1>5 DEF Enter, LoopReturns, InFrame, frameVars
\* Steps of a frame: its task is past its await, and stays there.
<1>6. ASSUME InFrame, InFrame', UNCHANGED <<task, permit>>
      PROVE  OneFrame' /\ HandedOver' /\ NoExtraFrame'
  BY <1>6 DEF TaskInv, OneFrame, HandedOver, NoExtraFrame
<1>7. CASE NestedPass \/ NestedExit
  BY <1>6, <1>7 DEF NestedPass, NestedExit, Nested, Reentered, InFrame
<1>8. CASE DrainDone \/ Apply \/ ApplyDone \/ DisplaysChanged \/ Present
  BY <1>6, <1>8 DEF DrainDone, Apply, ApplyDone, DisplaysChanged, Present, InFrame,
                    loopVars, frameVars
<1>9. CASE EndFrame
  <2>1. CASE permit
    <3>1. PICK has \in Capture \cup {Frame, Nobody}, waiting \in Seq(Capture \cup {Frame}) :
             AskForConnection(has, waiting)
      BY <1>9, <2>1, GoesRoundAgain DEF TaskInv
    <3>2. permit' = FALSE
      BY <1>9, <2>1 DEF EndFrame
    <3>3. QED
      BY <3>1, <3>2, AskKeeps DEF TaskInv, OneFrame, HandedOver, NoExtraFrame, InFrame
  <2>2. CASE ~permit
    BY <1>9, <2>2 DEF EndFrame, OneFrame, HandedOver, NoExtraFrame, InFrame
  <2>3. QED
    BY <2>1, <2>2
<1>10. CASE Deliver \/ Fire \/ Nudge
  BY <1>4, <1>10 DEF Deliver, Fire, Nudge, Announce, InFrame, frameVars
<1>11. CASE RecordStop \/ WakeExit \/ Elapse
  BY <1>4, <1>11 DEF RecordStop, WakeExit, Elapse, InFrame, loopVars, frameVars
<1>12. ASSUME NEW c \in Client, PoolAnswers(c) \/ \E kind \in Kind : Send(c, kind)
       PROVE  OneFrame' /\ HandedOver' /\ NoExtraFrame'
  BY <1>4, <1>12 DEF PoolAnswers, Send, InFrame, loopVars, frameVars
\* The captures: the frame task's place in the queue is kept.
<1>13. ASSUME UNCHANGED <<main, task, permit>>, passSig => passSig',
              Waiting(Frame) => Waiting(Frame)' \/ (holder' = Frame /\ passSig'),
              holder = Frame => holder' = Frame
       PROVE  OneFrame' /\ HandedOver' /\ NoExtraFrame'
  BY <1>13 DEF TaskInv, OneFrame, HandedOver, NoExtraFrame, InFrame
<1>14. queue \in Seq(Capture \cup {Frame})
  BY DEF TaskInv, TypeOK
<1>15. ASSUME NEW c \in Capture, CaptureAcquire(c)
       PROVE  OneFrame' /\ HandedOver' /\ NoExtraFrame'
  <2>1. Waiting(Frame) => Waiting(Frame)'
    <3>1. CASE holder = Nobody
      BY <1>15, <3>1 DEF CaptureAcquire, Waiting
    <3>2. CASE holder # Nobody
      <4>1. queue' = Append(queue, c) /\ c \in Capture \cup {Frame}
        BY <1>15, <3>2 DEF CaptureAcquire
      <4>2. QED
        BY <1>14, <4>1, JoinQueue DEF Waiting
    <3>3. QED
      BY <3>1, <3>2
  <2>2. holder = Frame => holder' = Frame
    BY <1>15 DEF CaptureAcquire, Frame, Nobody
  <2>3. QED
    BY <1>13, <1>15, <2>1, <2>2 DEF CaptureAcquire, loopVars, frameVars
<1>16. ASSUME NEW c \in Capture, CaptureRelease(c)
       PROVE  OneFrame' /\ HandedOver' /\ NoExtraFrame'
  <2>1. holder # Frame
    BY <1>16, CaptureAssumption DEF CaptureRelease
  <2>2. QED
    BY <1>13, <1>16, <2>1, PassOnKeeps DEF TaskInv, CaptureRelease, frameVars
<1>17. ASSUME NEW c \in Capture, CaptureCancel(c)
       PROVE  OneFrame' /\ HandedOver' /\ NoExtraFrame'
  <2>1. PICK i \in DOMAIN queue :
          /\ queue[i] = c
          /\ queue' = SubSeq(queue, 1, i - 1) \o SubSeq(queue, i + 1, Len(queue))
    BY <1>17 DEF CaptureCancel
  <2>2. queue[i] # Frame
    BY <2>1, CaptureAssumption
  <2>3. Waiting(Frame) => Waiting(Frame)'
    BY <1>14, <2>1, <2>2, GiveUp DEF Waiting
  <2>4. QED
    BY <1>13, <1>17, <2>3 DEF CaptureCancel, loopVars, frameVars
<1>18. QED
  BY <1>3, <1>5, <1>7, <1>8, <1>9, <1>10, <1>11, <1>12, <1>15, <1>16, <1>17
     DEF Next, MainThread, FrameStep, NestedTurn, Others

-----------------------------------------------------------------------------
\* Whatever is on its way stays on its way, or arrives in a frame: the one
\* argument behind both requests and drawing.
LEMMA ComingStep ==
  ASSUME TaskInv, Next, PassComing
  PROVE  PassComing' \/ main' = "draining"
<1>0. TaskInv'
  BY TaskStep
<1>1. ASSUME ~InFrame, Poll PROVE PassComing' \/ main' = "draining"
  BY <1>1, PollKeeps DEF PassComing
<1>2. CASE FirstPass \/ HandlePass \/ HandleExit
  BY <1>1, <1>2 DEF FirstPass, HandlePass, HandleExit, Parked, InFrame
<1>3. ASSUME UNCHANGED <<task, permit, lockVars>>, passSig => passSig',
             main = "starting" => main' = "starting"
      PROVE  PassComing'
  BY <1>3 DEF PassComing, Waiting, lockVars
<1>4. CASE Enter \/ LoopReturns
  BY <1>3, <1>4 DEF Enter, LoopReturns, frameVars
<1>5. CASE \/ NestedPass \/ NestedExit \/ DrainDone \/ Apply \/ ApplyDone
           \/ DisplaysChanged \/ Present
  BY <1>3, <1>5 DEF NestedPass, NestedExit, Nested, DrainDone, Apply, ApplyDone,
                    DisplaysChanged, Present, loopVars, frameVars
<1>6. CASE EndFrame
  <2>1. main = "closing" /\ task \in {"running", "resumed"}
    BY <1>6 DEF EndFrame, TaskInv, OneFrame, InFrame
  <2>2. CASE permit
    <3>1. PICK has \in Capture \cup {Frame, Nobody}, waiting \in Seq(Capture \cup {Frame}) :
             AskForConnection(has, waiting)
      BY <1>6, <2>2, GoesRoundAgain DEF TaskInv
    <3>2. QED
      BY <3>1, AskKeeps DEF TaskInv, PassComing
  <2>3. CASE ~permit
    <3>1. passSig
      BY <2>1, <2>3 DEF PassComing
    <3>2. PassOn
      BY <1>6, <2>3 DEF EndFrame
    <3>3. QED
      BY <3>1, <3>2, PassOnKeeps DEF TaskInv, PassComing
  <2>4. QED
    BY <2>2, <2>3
<1>7. CASE Deliver \/ Fire \/ Nudge
  BY <1>7 DEF Deliver, Fire, Nudge, Announce, PassComing
<1>8. CASE RecordStop \/ WakeExit \/ Elapse
  BY <1>3, <1>8 DEF RecordStop, WakeExit, Elapse, loopVars, frameVars
<1>9. ASSUME NEW c \in Client, PoolAnswers(c) \/ \E kind \in Kind : Send(c, kind)
      PROVE  PassComing'
  BY <1>3, <1>9 DEF PoolAnswers, Send, loopVars, frameVars
<1>10. ASSUME UNCHANGED <<main, task, permit>>, passSig => passSig' PROVE PassComing'
  BY <1>0, <1>10 DEF TaskInv, HandedOver, PassComing
<1>11. ASSUME NEW c \in Capture, CaptureAcquire(c) \/ CaptureRelease(c) \/ CaptureCancel(c)
       PROVE  PassComing'
  BY <1>10, <1>11, PassOnKeeps DEF TaskInv, CaptureAcquire, CaptureRelease, CaptureCancel,
                                   loopVars, frameVars
<1>12. QED
  BY <1>2, <1>4, <1>5, <1>6, <1>7, <1>8, <1>9, <1>11
     DEF Next, MainThread, FrameStep, NestedTurn, Others

\* No step leaves a request with nothing on its way to take it.
LEMMA RequestStep ==
  ASSUME TaskInv, NoStrandedRequest, Next PROVE NoStrandedRequest'
<1>1. CASE Deliver
  BY <1>1 DEF Deliver, Announce, NoStrandedRequest, PassComing
<1>2. CASE ~Deliver
  <2>1. inbox = <<>> => inbox' = <<>>
    BY <1>2 DEF Next, MainThread, FrameStep, NestedTurn, Others,
                FirstPass, Enter, HandlePass, HandleExit, LoopReturns, NestedPass, NestedExit,
                DrainDone, Apply, ApplyDone, DisplaysChanged, Present, EndFrame, Fire,
                PoolAnswers, Send, CaptureAcquire, CaptureRelease, CaptureCancel,
                RecordStop, WakeExit, Nudge, Elapse, ipcVars
  <2>2. main \in {"draining", "applying"} => main' \in {"draining", "applying"} \/ inbox' = <<>>
    BY DEF Next, MainThread, FrameStep, NestedTurn, Others,
           FirstPass, Enter, HandlePass, HandleExit, LoopReturns, NestedPass, NestedExit,
           DrainDone, Apply, ApplyDone, DrainedDry, DisplaysChanged, Present, EndFrame, Deliver,
           Fire, Parked, PoolAnswers, Send, CaptureAcquire, CaptureRelease, CaptureCancel,
           RecordStop, WakeExit, Nudge, Elapse, loopVars, ipcVars
  <2>3. QED
    BY <2>1, <2>2, ComingStep DEF NoStrandedRequest
<1>3. QED
  BY <1>1, <1>2

\* What is behind stays known to a gate or to the budget.
LEMMA RememberingStep ==
  ASSUME TypeOK, Remembering, Next PROVE Remembering'
<1>1. CASE Apply
  BY <1>1 DEF Apply, Remembering
<1>2. CASE DisplaysChanged
  BY <1>2 DEF DisplaysChanged, Remembering
<1>3. CASE Present
  <2>1. undrawn \subseteq Remembered
    BY DEF Remembering, Remembered
  <2>2. QED
    BY <1>3, <2>1 DEF Present, Remembering
<1>4. CASE ~(Apply \/ DisplaysChanged \/ Present)
  <2>1. UNCHANGED <<undrawn, want, dirty>>
    BY <1>4 DEF Next, MainThread, FrameStep, NestedTurn, Others,
                FirstPass, Enter, HandlePass, HandleExit, LoopReturns, NestedPass, NestedExit,
                DrainDone, ApplyDone, EndFrame, Deliver, Fire,
                PoolAnswers, Send, CaptureAcquire, CaptureRelease, CaptureCancel,
                RecordStop, WakeExit, Nudge, Elapse, budgetVars
  <2>2. QED
    BY <2>1 DEF Remembering
<1>5. QED
  BY <1>1, <1>2, <1>3, <1>4

\* A frame that ends leaves a deadline for what it deferred.
LEMMA DeferredStep ==
  ASSUME TypeOK, Remembering, Deferred, Next PROVE Deferred'
<1>1. CASE Present
  <2>1. undrawn \subseteq Remembered
    BY DEF Remembering, Remembered
  <2>2. QED
    BY <1>1, <2>1 DEF Present, Rearmed, Deferred
<1>2. CASE ~Present /\ main' = "closing"
  <2>1. main = "closing" /\ UNCHANGED <<undrawn, wake>>
    BY <1>2 DEF Next, MainThread, FrameStep, NestedTurn, Others,
                FirstPass, Enter, HandlePass, HandleExit, LoopReturns, NestedPass, NestedExit,
                Poll, AskForConnection, Parked, Nested, InTurn,
                DrainDone, Apply, ApplyDone, DisplaysChanged, EndFrame, Deliver, Fire,
                PoolAnswers, Send, CaptureAcquire, CaptureRelease, CaptureCancel,
                RecordStop, WakeExit, Nudge, Elapse, loopVars, budgetVars
  <2>2. QED
    BY <2>1 DEF Deferred
<1>3. CASE main' # "closing"
  BY <1>3 DEF Deferred
<1>4. QED
  BY <1>1, <1>2, <1>3

\* Between frames, what is behind keeps its pass or its deadline.
LEMMA ScheduledStep ==
  ASSUME TaskInv, Deferred, UndrawnIsScheduled, Next PROVE UndrawnIsScheduled'
<1>1. CASE EndFrame
  BY <1>1 DEF EndFrame, Deferred, UndrawnIsScheduled, budgetVars
<1>2. CASE Fire
  BY <1>2 DEF Fire, UndrawnIsScheduled, PassComing
<1>3. CASE InFrame /\ ~EndFrame
  <2>1. InFrame'
    BY <1>3 DEF Next, MainThread, FrameStep, NestedTurn, Others, InFrame,
                FirstPass, Enter, HandlePass, HandleExit, LoopReturns, NestedPass, NestedExit,
                DrainDone, Apply, ApplyDone, DisplaysChanged, Present, Deliver, Fire, Parked,
                PoolAnswers, Send, CaptureAcquire, CaptureRelease, CaptureCancel,
                RecordStop, WakeExit, Nudge, Elapse, loopVars
  <2>2. QED
    BY <2>1 DEF UndrawnIsScheduled
<1>4. CASE ~InFrame /\ ~Fire
  <2>1. UNCHANGED <<undrawn, wake>> /\ main # "left"
    BY <1>4 DEF Next, MainThread, FrameStep, NestedTurn, Others, InFrame,
                FirstPass, Enter, HandlePass, HandleExit, LoopReturns, NestedPass, NestedExit,
                Nested, DrainDone, Apply, ApplyDone, DisplaysChanged, Present, EndFrame, Deliver,
                PoolAnswers, Send, CaptureAcquire, CaptureRelease, CaptureCancel,
                RecordStop, WakeExit, Nudge, Elapse, budgetVars
  <2>2. main' = "draining" => InFrame'
    BY DEF InFrame
  <2>3. QED
    BY <1>4, <2>1, <2>2, ComingStep DEF UndrawnIsScheduled
<1>5. QED
  BY <1>1, <1>2, <1>3, <1>4

-----------------------------------------------------------------------------
\* The daemon starts with everything to draw and its first pass to make.
LEMMA Start == Init => IInv
<1>1. SUFFICES ASSUME Init PROVE IInv
  OBVIOUS
<1>2. TypeOK
  <2>1. /\ interval \in 1 .. SlowestRefresh /\ age \in 0 .. SlowestRefresh
        /\ deadline \in 0 .. SlowestRefresh /\ turns \in 0 .. CoalesceLimit
        /\ exitMsg \in 0 .. 2
    BY <1>1, LimitAssumption DEF Init
  <2>2. asks \in [Client -> Kind]
    BY <1>1 DEF Init, Kind
  <2>3. port \in Seq(Client) /\ inbox \in Seq(Client) /\ queue \in Seq(Capture \cup {Frame})
    BY <1>1 DEF Init
  <2>4. /\ client \in [Client -> {"idle", "sent", "delivered", "deferred"}]
        /\ holder \in Capture \cup {Frame, Nobody}
    BY <1>1 DEF Init
  <2>5. QED
    BY <1>1, <2>1, <2>2, <2>3, <2>4 DEF Init, TypeOK
<1>3. OneFrame /\ HandedOver /\ NoExtraFrame
  BY <1>1 DEF Init, OneFrame, InFrame, HandedOver, NoExtraFrame
<1>4. Remembering /\ Deferred
  BY <1>1 DEF Init, Remembering, Deferred
<1>5. NoStrandedRequest /\ UndrawnIsScheduled
  BY <1>1 DEF Init, NoStrandedRequest, UndrawnIsScheduled, PassComing
<1>6. QED
  BY <1>2, <1>3, <1>4, <1>5 DEF IInv, TaskInv

\* No step leaves the invariant.
LEMMA Step == ASSUME IInv, [Next]_vars PROVE IInv'
<1>1. CASE Next
  <2>1. TaskInv'
    BY <1>1, TaskStep DEF IInv
  <2>2. NoStrandedRequest'
    BY <1>1, RequestStep DEF IInv
  <2>3. Remembering' /\ Deferred'
    BY <1>1, RememberingStep, DeferredStep DEF IInv, TaskInv
  <2>4. UndrawnIsScheduled'
    BY <1>1, ScheduledStep DEF IInv
  <2>5. QED
    BY <2>1, <2>2, <2>3, <2>4 DEF IInv
<1>2. CASE UNCHANGED vars
  BY <1>2 DEF vars, loopVars, ipcVars, frameVars, lockVars, budgetVars, IInv, TaskInv, TypeOK,
              OneFrame, InFrame, HandedOver, Waiting, NoExtraFrame, NoStrandedRequest, PassComing,
              Remembering, Deferred, UndrawnIsScheduled
<1>3. QED
  BY <1>1, <1>2

\* The invariant holds of every state the daemon reaches.
THEOREM Invariance == Spec => []IInv
<1>1. Init => IInv
  BY Start
<1>2. IInv /\ [Next]_vars => IInv'
  BY Step
<1>3. QED
  BY <1>1, <1>2, PTL DEF Spec

\* Every variable of the pump keeps its type.
THEOREM TypeCorrect == Spec => []TypeOK
<1>1. IInv => TypeOK
  BY DEF IInv, TaskInv
<1>2. QED
  BY <1>1, Invariance, PTL

\* A request that was delivered has a pass coming or a frame about to take it,
\* although the drain spends the signals that announce requests.
THEOREM RequestsComing == Spec => []NoStrandedRequest
<1>1. IInv => NoStrandedRequest
  BY DEF IInv
<1>2. QED
  BY <1>1, Invariance, PTL

\* A surface that is behind has, between frames, a pass coming or a deadline
\* that is not spent, although deadlines fire into frames and gates forget.
THEOREM DrawsComing == Spec => []UndrawnIsScheduled
<1>1. IInv => UndrawnIsScheduled
  BY DEF IInv
<1>2. QED
  BY <1>1, Invariance, PTL

\* No pass is owed for a signal the drain already accounted for.
THEOREM NoPermitLeft == Spec => []NoExtraFrame
<1>1. IInv => NoExtraFrame
  BY DEF IInv, TaskInv
<1>2. QED
  BY <1>1, Invariance, PTL
=============================================================================
