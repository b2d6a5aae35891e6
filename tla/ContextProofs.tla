---------------------------- MODULE ContextProofs ---------------------------
(***************************************************************************)
(* Theorems about Context.tla, for any tasks, any size of their stacks,    *)
(* and any depths their code brings the stacks to.                         *)
(***************************************************************************)
EXTENDS Context, Integers, SequenceTheorems, TLAPS

Frame(fp) == Hardware(fp) \o Saved(fp)

\* The depths at which a task can be interrupted.
Level == Locals \cup {0}

(***************************************************************************)
(* The inductive invariant.                                                *)
(***************************************************************************)

\* A word is what register r of task t held in stretch n of its work.  Before
\* run only three of the registers matter.
Holds(t, n, r, word) ==
    IF n = 0
    THEN /\ r = "pc" => word = Word("callFirstTime")
         /\ r = "lr" => word = Word("taskExitError")
         /\ r = "xPSR" => word = Word("thumb")
    ELSE word = <<t, n, r>>

\* The part of the stack that the task's own code has written.
OwnPart(t, n, stack, d, fp) ==
    /\ d \in Level
    /\ n = 0 => d = 0 /\ ~fp
    /\ n # 0 => \A i \in 1 .. d : stack[i] = <<t, n, "local">>

\* A stack below depth p of which a handler can resume the task.
Frozen(t, n, stack, p) ==
    \E fp \in BOOLEAN, d \in Level :
        /\ p = d + Len(Frame(fp))
        /\ OwnPart(t, n, stack, d, fp)
        /\ \A i \in DOMAIN Frame(fp) :
             IF Frame(fp)[i] = "r14" THEN stack[d + i] = EXC_RETURN(fp)
             ELSE Holds(t, n, Frame(fp)[i], stack[d + i])

Shape ==
    /\ memory = [t \in Task |-> memory[t]]
    /\ cpu = [r \in Register |-> cpu[r]]

\* What the kernel knows of, and who has begun to run.
Known ==
    /\ mode # "main" => Idle \in added
    /\ currentTask \in added \cup {Idle}
    /\ \A t \in Task \ added : work[t] = 0

\* Every task that does not execute can be resumed from its saved stack pointer.
OthersFrozen ==
    \A t \in added :
        t # currentTask \/ mode \notin {"thread", "PendSV", "PendSV return"}
            => Frozen(t, work[t], memory[t], stackPointer[t])

\* The task that was interrupted, or comes next, can be resumed from tcb.
CurrentFrozen ==
    mode \in {"PendSV", "PendSV return"} =>
        /\ tcb.of = currentTask
        /\ Frozen(currentTask, work[currentTask], memory[currentTask], tcb.depth)

\* The task that executes has its registers and its stack.
CurrentRuns ==
    mode = "thread" =>
        /\ psp.of = currentTask
        /\ OwnPart(currentTask, work[currentTask], memory[currentTask], psp.depth, fpca)
        /\ \A r \in Image(Frame(fpca)) \ {"r14"} :
             Holds(currentTask, work[currentTask], r, cpu[r])

CInv ==
    /\ TypeOK
    /\ Shape
    /\ Known
    /\ mode # "fault"
    /\ OthersFrozen
    /\ CurrentFrozen
    /\ CurrentRuns

-----------------------------------------------------------------------------
(***************************************************************************)
(* The frames.                                                             *)
(***************************************************************************)
CoreSet  == {"xPSR", "pc", "lr", "r12", "r3", "r2", "r1", "r0"}
SavedSet == {"r14", "r11", "r10", "r9", "r8", "r7", "r6", "r5", "r4"}
Name     == CoreSet \cup SavedSet \cup {"s0-s15", "s16-s31"}

\* PendSV_Handler pushes these without floats.
Pushed   == <<"r14", "r11", "r10", "r9", "r8", "r7", "r6", "r5", "r4">>

\* The concatenation, for proofs that need no more of it than this lemma says.
Cat(s, t) == s \o t

LEMMA Joined ==
    ASSUME NEW S, NEW s \in Seq(S), NEW t \in Seq(S)
    PROVE  /\ Cat(s, t) \in Seq(S) /\ Len(Cat(s, t)) = Len(s) + Len(t)
           /\ \A i \in 1 .. Len(s) : Cat(s, t)[i] = s[i]
           /\ \A i \in 1 .. Len(t) : Cat(s, t)[Len(s) + i] = t[i]
           /\ Image(Cat(s, t)) = Image(s) \cup Image(t)
<1> DEFINE u == Cat(s, t)
<1>1. /\ DOMAIN s = 1 .. Len(s) /\ DOMAIN t = 1 .. Len(t) /\ Len(s) \in Nat /\ Len(t) \in Nat
      BY LenProperties
<1>2. /\ u \in Seq(S) /\ Len(u) = Len(s) + Len(t)
      /\ \A i \in 1 .. Len(s) + Len(t) :
            u[i] = IF i <= Len(s) THEN s[i] ELSE t[i - Len(s)]
      BY ConcatProperties DEF Cat
<1> HIDE DEF u
<1>3. DOMAIN u = 1 .. Len(s) + Len(t)
      BY <1>2, LenProperties
<1>4. \A i \in 1 .. Len(s) : i \in DOMAIN u /\ u[i] = s[i]
      BY <1>1, <1>2, <1>3
<1>5. \A i \in 1 .. Len(t) : Len(s) + i \in DOMAIN u /\ u[Len(s) + i] = t[i]
  <2>1. ASSUME NEW i \in 1 .. Len(t)
        PROVE  Len(s) + i \in DOMAIN u /\ u[Len(s) + i] = t[i]
    <3>1. /\ Len(s) + i \in 1 .. Len(s) + Len(t) /\ ~(Len(s) + i <= Len(s))
          /\ Len(s) + i - Len(s) = i
          BY <1>1
    <3> QED BY <1>2, <1>3, <3>1
  <2> QED BY <2>1
<1>6. Image(u) = Image(s) \cup Image(t)
  <2>1. ASSUME NEW x \in Image(u)
        PROVE  x \in Image(s) \cup Image(t)
    <3>1. PICK i \in 1 .. Len(s) + Len(t) : u[i] = x
          BY <1>3, <2>1 DEF Image
    <3>2. i <= Len(s) => i \in DOMAIN s /\ s[i] = x
          BY <1>1, <1>2, <3>1
    <3>3. ~(i <= Len(s)) => i - Len(s) \in DOMAIN t /\ t[i - Len(s)] = x
          BY <1>1, <1>2, <3>1
    <3> QED BY <3>2, <3>3 DEF Image
  <2>2. ASSUME NEW x \in Image(s)
        PROVE  x \in Image(u)
        BY <1>1, <1>4, <2>2 DEF Image
  <2>3. ASSUME NEW x \in Image(t)
        PROVE  x \in Image(u)
    <3>1. PICK i \in 1 .. Len(t) : t[i] = x
          BY <1>1, <2>3 DEF Image
    <3> QED BY <1>5, <3>1 DEF Image
  <2> QED BY <2>1, <2>2, <2>3
<1>7. /\ u \in Seq(S) /\ Len(u) = Len(s) + Len(t)
      /\ \A i \in 1 .. Len(s) : u[i] = s[i]
      /\ \A i \in 1 .. Len(t) : u[Len(s) + i] = t[i]
      /\ Image(u) = Image(s) \cup Image(t)
      BY <1>2, <1>4, <1>5, <1>6
<1> QED BY <1>7 DEF u

\* One by one, as the provers take them.
LEMMA JoinedLength ==
    ASSUME NEW S, NEW s \in Seq(S), NEW t \in Seq(S)
    PROVE  Cat(s, t) \in Seq(S) /\ Len(Cat(s, t)) = Len(s) + Len(t)
BY Joined

LEMMA JoinedLeft ==
    ASSUME NEW S, NEW s \in Seq(S), NEW t \in Seq(S)
    PROVE  \A i \in 1 .. Len(s) : Cat(s, t)[i] = s[i]
BY Joined

LEMMA JoinedRight ==
    ASSUME NEW S, NEW s \in Seq(S), NEW t \in Seq(S)
    PROVE  \A i \in 1 .. Len(t) : Cat(s, t)[Len(s) + i] = t[i]
BY Joined

LEMMA JoinedImage ==
    ASSUME NEW S, NEW s \in Seq(S), NEW t \in Seq(S)
    PROVE  Image(Cat(s, t)) = Image(s) \cup Image(t)
BY Joined

LEMMA OneWord ==
    ASSUME NEW x \in Name
    PROVE  <<x>> \in Seq(Name) /\ Len(<<x>>) = 1 /\ Image(<<x>>) = {x} /\ <<x>>[1] = x
<1>1. <<x>> \in Seq(Name) /\ Len(<<x>>) = 1 /\ <<x>>[1] = x /\ DOMAIN <<x>> = 1 .. 1
      OBVIOUS
<1> QED BY <1>1 DEF Image

LEMMA CoreWords ==
    /\ Core \in Seq(Name) /\ Len(Core) = 8 /\ Image(Core) = CoreSet
    /\ Core[1] = "xPSR" /\ Core[2] = "pc" /\ Core[3] = "lr"
    /\ \A i \in 4 .. 8 : Core[i] \notin {"xPSR", "pc", "lr", "r14"}
<1>1. Core \in Seq(Name)
      BY DEF Core, Name, CoreSet
<1>2. Len(Core) = 8 /\ DOMAIN Core = 1 .. 8
      BY DEF Core
<1>3. /\ Core[1] = "xPSR" /\ Core[2] = "pc" /\ Core[3] = "lr" /\ Core[4] = "r12"
      /\ Core[5] = "r3" /\ Core[6] = "r2" /\ Core[7] = "r1" /\ Core[8] = "r0"
      BY DEF Core
<1>4. \A i \in 1 .. 8 : i \in {1, 2, 3, 4, 5, 6, 7, 8}
      OBVIOUS
<1>5. \A i \in 1 .. 8 : Core[i] \in CoreSet
      BY <1>3, <1>4 DEF CoreSet
<1>6. \A x \in CoreSet : \E i \in 1 .. 8 : Core[i] = x
      BY <1>3 DEF CoreSet
<1>7. \A i \in 4 .. 8 : Core[i] \notin {"xPSR", "pc", "lr", "r14"}
      BY <1>3, <1>4
<1> QED BY <1>1, <1>2, <1>3, <1>5, <1>6, <1>7 DEF Image

LEMMA PushedWords ==
    /\ Pushed \in Seq(Name) /\ Len(Pushed) = 9 /\ Image(Pushed) = SavedSet
    /\ Pushed[1] = "r14"
    /\ \A i \in 2 .. 9 : Pushed[i] # "r14"
    /\ \A i \in 1 .. 9 : Pushed[i] \notin {"xPSR", "pc", "lr"}
<1>1. Pushed \in Seq(Name)
      BY DEF Pushed, Name, SavedSet
<1>2. Len(Pushed) = 9 /\ DOMAIN Pushed = 1 .. 9
      BY DEF Pushed
<1>3. /\ Pushed[1] = "r14" /\ Pushed[2] = "r11" /\ Pushed[3] = "r10" /\ Pushed[4] = "r9"
      /\ Pushed[5] = "r8" /\ Pushed[6] = "r7" /\ Pushed[7] = "r6" /\ Pushed[8] = "r5"
      /\ Pushed[9] = "r4"
      BY DEF Pushed
<1>4. \A i \in 1 .. 9 : i \in {1, 2, 3, 4, 5, 6, 7, 8, 9}
      OBVIOUS
<1>5. \A i \in 1 .. 9 : Pushed[i] \in SavedSet /\ Pushed[i] \notin {"xPSR", "pc", "lr"}
      BY <1>3, <1>4 DEF SavedSet
<1>6. \A x \in SavedSet : \E i \in 1 .. 9 : Pushed[i] = x
      BY <1>3 DEF SavedSet
<1>7. \A i \in 2 .. 9 : Pushed[i] # "r14"
      BY <1>3, <1>4
<1> QED BY <1>1, <1>2, <1>3, <1>5, <1>6, <1>7 DEF Image

\* Eight words come after r14 in every frame, so that it is found before it is
\* known whether there are floats.
LEMMA FrameWords ==
    ASSUME NEW fp \in BOOLEAN
    PROVE  /\ Len(Hardware(fp)) = (IF fp THEN 9 ELSE 8)
           /\ Frame(fp) \in Seq(Name)
           /\ Len(Frame(fp)) = (IF fp THEN 19 ELSE 17)
           /\ DOMAIN Frame(fp) = 1 .. Len(Frame(fp))
           /\ Frame(fp)[Len(Frame(fp)) - 8] = "r14"
           /\ Image(Frame(fp)) = CoreSet \cup SavedSet
                                   \cup IF fp THEN {"s0-s15", "s16-s31"} ELSE {}
<1>1. CASE fp = FALSE
  <2> DEFINE u == Cat(Core, Pushed)
  <2>1. Hardware(fp) = Core /\ Frame(fp) = u
    <3>1. <<>> \o Pushed = Pushed
          BY PushedWords, ConcatEmptySeq
    <3> QED BY <1>1, <3>1 DEF Frame, Hardware, Saved, Pushed, Cat
  <2>2. /\ u \in Seq(Name) /\ Len(u) = Len(Core) + Len(Pushed)
        /\ \A i \in 1 .. Len(Pushed) : u[Len(Core) + i] = Pushed[i]
        /\ Image(u) = Image(Core) \cup Image(Pushed)
    <3>1. Core \in Seq(Name) /\ Pushed \in Seq(Name)
          BY CoreWords, PushedWords
    <3>2. u \in Seq(Name) /\ Len(u) = Len(Core) + Len(Pushed)
          BY <3>1, JoinedLength
    <3>3. \A i \in 1 .. Len(Pushed) : u[Len(Core) + i] = Pushed[i]
          BY <3>1, JoinedRight
    <3>4. Image(u) = Image(Core) \cup Image(Pushed)
          BY <3>1, JoinedImage
    <3> QED BY <3>2, <3>3, <3>4
  <2> HIDE DEF u
  <2>3. Len(u) = 17
        BY <2>2, CoreWords, PushedWords
  <2>4. u[9] = "r14"
    <3>1. u[8 + 1] = Pushed[1]
          BY <2>2, CoreWords, PushedWords
    <3> QED BY <3>1, PushedWords
  <2>5. Image(u) = CoreSet \cup SavedSet
        BY <2>2, CoreWords, PushedWords
  <2>6. DOMAIN u = 1 .. Len(u)
        BY <2>2, LenProperties
  <2>7. /\ Len(Hardware(fp)) = 8
        /\ u[Len(u) - 8] = "r14"
        BY <2>1, <2>3, <2>4, CoreWords
  <2>8. Image(Frame(fp)) = CoreSet \cup SavedSet
        BY <2>1, <2>5
  <2>9. /\ Frame(fp) \in Seq(Name) /\ Len(Frame(fp)) = 17
        /\ DOMAIN Frame(fp) = 1 .. Len(Frame(fp))
        /\ Frame(fp)[Len(Frame(fp)) - 8] = "r14"
        BY <2>1, <2>2, <2>3, <2>6, <2>7
  <2> QED BY <1>1, <2>7, <2>8, <2>9
<1>2. CASE fp = TRUE
  <2> DEFINE f == <<"s0-s15">>
             h == Cat(f, Core)
             g == <<"s16-s31">>
             v == Cat(g, Pushed)
             u == Cat(h, v)
  <2>1. Hardware(fp) = h /\ Frame(fp) = u
        BY <1>2 DEF Frame, Cat, Hardware, Saved, Pushed
  <2>2. f \in Seq(Name) /\ g \in Seq(Name)
        BY OneWord DEF Name
  <2>a. /\ Len(f) = 1 /\ Image(f) = {"s0-s15"}
        /\ Len(g) = 1 /\ Image(g) = {"s16-s31"}
        BY OneWord DEF Name
  <2> HIDE DEF f, g
  <2>3. /\ h \in Seq(Name) /\ Len(h) = Len(f) + Len(Core)
        /\ Image(h) = Image(f) \cup Image(Core)
    <3>1. Core \in Seq(Name)
          BY CoreWords
    <3>2. h \in Seq(Name) /\ Len(h) = Len(f) + Len(Core)
          BY <2>2, <3>1, JoinedLength
    <3>3. Image(h) = Image(f) \cup Image(Core)
          BY <2>2, <3>1, JoinedImage
    <3> QED BY <3>2, <3>3
  <2>4. /\ v \in Seq(Name) /\ Len(v) = Len(g) + Len(Pushed)
        /\ \A i \in 1 .. Len(Pushed) : v[Len(g) + i] = Pushed[i]
        /\ Image(v) = Image(g) \cup Image(Pushed)
    <3>1. Pushed \in Seq(Name)
          BY PushedWords
    <3>2. v \in Seq(Name) /\ Len(v) = Len(g) + Len(Pushed)
          BY <2>2, <3>1, JoinedLength
    <3>3. \A i \in 1 .. Len(Pushed) : v[Len(g) + i] = Pushed[i]
          BY <2>2, <3>1, JoinedRight
    <3>4. Image(v) = Image(g) \cup Image(Pushed)
          BY <2>2, <3>1, JoinedImage
    <3> QED BY <3>2, <3>3, <3>4
  <2> HIDE DEF h, v
  <2>5. /\ u \in Seq(Name) /\ Len(u) = Len(h) + Len(v)
        /\ \A i \in 1 .. Len(v) : u[Len(h) + i] = v[i]
        /\ Image(u) = Image(h) \cup Image(v)
    <3>1. h \in Seq(Name) /\ v \in Seq(Name)
          BY <2>3, <2>4
    <3>2. u \in Seq(Name) /\ Len(u) = Len(h) + Len(v)
          BY <3>1, JoinedLength
    <3>3. \A i \in 1 .. Len(v) : u[Len(h) + i] = v[i]
          BY <3>1, JoinedRight
    <3>4. Image(u) = Image(h) \cup Image(v)
          BY <3>1, JoinedImage
    <3> QED BY <3>2, <3>3, <3>4
  <2> HIDE DEF u
  <2>6. Len(h) = 9 /\ Len(v) = 10
        BY <2>a, <2>3, <2>4, CoreWords, PushedWords
  <2>7. Len(u) = 19
        BY <2>5, <2>6
  <2>8. u[11] = "r14"
    <3>1. v[1 + 1] = Pushed[1]
          BY <2>a, <2>4, PushedWords
    <3>2. u[9 + 2] = v[2]
          BY <2>5, <2>6
    <3> QED BY <3>1, <3>2, PushedWords
  <2>9. Image(u) = CoreSet \cup SavedSet \cup {"s0-s15", "s16-s31"}
        BY <2>a, <2>3, <2>4, <2>5, CoreWords, PushedWords
  <2>10. DOMAIN u = 1 .. Len(u)
        BY <2>5, LenProperties
  <2> QED BY <1>2, <2>1, <2>5, <2>6, <2>7, <2>8, <2>9, <2>10
<1> QED BY <1>1, <1>2

\* What the exception hardware and the handlers save is what there is.
LEMMA Registers == Register = CoreSet \cup SavedSet \cup Float
<1> DEFINE f == <<"s0-s15">>
           g == <<"s16-s31">>
<1>1. /\ Core \in Seq(Name) /\ Pushed \in Seq(Name)
      /\ f \in Seq(Name) /\ g \in Seq(Name)
      BY CoreWords, PushedWords, OneWord DEF Name
<1>2. Image(f) = {"s0-s15"} /\ Image(g) = {"s16-s31"}
      BY OneWord DEF Name
<1>3. Hardware(TRUE) = Cat(f, Core) /\ Saved(TRUE) = Cat(g, Pushed)
      BY DEF Hardware, Saved, Pushed, Cat
<1> HIDE DEF f, g
<1>4. /\ Image(Cat(f, Core)) = Image(f) \cup Image(Core)
      /\ Image(Cat(g, Pushed)) = Image(g) \cup Image(Pushed)
      BY <1>1, JoinedImage
<1>5. Register = Image(Cat(f, Core)) \cup Image(Cat(g, Pushed))
      BY <1>3 DEF Register
<1> QED BY <1>2, <1>4, <1>5, CoreWords, PushedWords DEF Float

\* Where the registers that matter before run are in the first frame of a task.
LEMMA FirstFrame ==
    LET F == Frame(FALSE)
    IN  /\ F[1] = "xPSR" /\ F[2] = "pc" /\ F[3] = "lr" /\ F[9] = "r14"
        /\ \A i \in (1 .. 17) \ {1, 2, 3, 9} : F[i] \notin {"xPSR", "pc", "lr", "r14"}
<1> DEFINE F == Cat(Core, Pushed)
<1>1. Frame(FALSE) = F
  <2>1. <<>> \o Pushed = Pushed
        BY PushedWords, ConcatEmptySeq
  <2> QED BY <2>1 DEF Frame, Hardware, Saved, Pushed, Cat
<1>2. /\ \A i \in 1 .. Len(Core) : F[i] = Core[i]
      /\ \A i \in 1 .. Len(Pushed) : F[Len(Core) + i] = Pushed[i]
  <2>1. Core \in Seq(Name) /\ Pushed \in Seq(Name)
        BY CoreWords, PushedWords
  <2> QED BY <2>1, JoinedLeft, JoinedRight
<1> HIDE DEF F
<1>3. /\ \A i \in 1 .. 8 : F[i] = Core[i]
      /\ \A i \in 1 .. 9 : F[8 + i] = Pushed[i]
      BY <1>2, CoreWords, PushedWords
<1>4. F[1] = "xPSR" /\ F[2] = "pc" /\ F[3] = "lr" /\ F[9] = "r14"
  <2>1. F[8 + 1] = Pushed[1]
        BY <1>3
  <2> QED BY <1>3, <2>1, CoreWords, PushedWords
<1>5. \A i \in 4 .. 8 : F[i] \notin {"xPSR", "pc", "lr", "r14"}
  <2>1. \A i \in 4 .. 8 : F[i] = Core[i]
        BY <1>3
  <2> QED BY <2>1, CoreWords
<1>6. \A i \in 10 .. 17 : F[i] \notin {"xPSR", "pc", "lr", "r14"}
  <2>1. ASSUME NEW i \in 10 .. 17
        PROVE  F[i] \notin {"xPSR", "pc", "lr", "r14"}
    <3>1. i - 8 \in 2 .. 9 /\ 8 + (i - 8) = i
          OBVIOUS
    <3>2. F[i] = Pushed[i - 8]
          BY <1>3, <3>1
    <3> QED BY <3>1, <3>2, PushedWords
  <2> QED BY <2>1
<1>7. \A i \in (1 .. 17) \ {1, 2, 3, 9} : i \in 4 .. 8 \/ i \in 10 .. 17
      OBVIOUS
<1> QED BY <1>1, <1>4, <1>5, <1>6, <1>7

\* What initialiseStack writes.
LEMMA FirstWords ==
    /\ Len(InitialFrame) = 16
    /\ InitialFrame[1] = Word("thumb") /\ InitialFrame[2] = Word("callFirstTime")
    /\ InitialFrame[3] = Word("taskExitError") /\ InitialFrame[9] = EXC_RETURN(FALSE)
<1> DEFINE A == <<Word("thumb"), Word("callFirstTime"), Word("taskExitError"),
                  Unknown, Unknown, Unknown, Unknown, Word("0"), EXC_RETURN(FALSE)>>
           B == [i \in 1 .. 7 |-> Word("0")]
           W == {Word("thumb"), Word("callFirstTime"), Word("taskExitError"),
                 Unknown, Word("0"), EXC_RETURN(FALSE)}
<1>1. A \in Seq(W) /\ Len(A) = 9
      OBVIOUS
<1>2. /\ A[1] = Word("thumb") /\ A[2] = Word("callFirstTime")
      /\ A[3] = Word("taskExitError") /\ A[9] = EXC_RETURN(FALSE)
      OBVIOUS
<1>3. B \in Seq(W) /\ Len(B) = 7
  <2>1. B \in [1 .. 7 -> W]
        OBVIOUS
  <2> QED BY <2>1
<1>4. InitialFrame = Cat(A, B)
      BY DEF InitialFrame, Cat
<1> HIDE DEF A, B, W
<1>5. /\ Len(Cat(A, B)) = Len(A) + Len(B)
      /\ \A i \in 1 .. Len(A) : Cat(A, B)[i] = A[i]
      BY <1>1, <1>3, JoinedLength, JoinedLeft
<1>6. \A i \in 1 .. 9 : Cat(A, B)[i] = A[i]
      BY <1>1, <1>5
<1>7. Len(Cat(A, B)) = 16
      BY <1>1, <1>3, <1>5
<1>8. /\ Cat(A, B)[1] = A[1] /\ Cat(A, B)[2] = A[2]
      /\ Cat(A, B)[3] = A[3] /\ Cat(A, B)[9] = A[9]
      BY <1>6
<1> QED BY <1>2, <1>4, <1>7, <1>8

\* A new task can be resumed from the stack that initialiseStack writes.
LEMMA InitialFrozen ==
    ASSUME NEW t, NEW stack, \A i \in 1 .. 16 : stack[i] = InitialFrame[i]
    PROVE  Frozen(t, 0, stack, 17)
<1> DEFINE F == Frame(FALSE)
<1>1. Len(F) = 17 /\ DOMAIN F = 1 .. 17
      BY FrameWords
<1>2. OwnPart(t, 0, stack, 0, FALSE)
      BY DEF OwnPart, Level
<1>3. /\ stack[1] = Word("thumb") /\ stack[2] = Word("callFirstTime")
      /\ stack[3] = Word("taskExitError") /\ stack[9] = EXC_RETURN(FALSE)
  <2>1. /\ stack[1] = InitialFrame[1] /\ stack[2] = InitialFrame[2]
        /\ stack[3] = InitialFrame[3] /\ stack[9] = InitialFrame[9]
        OBVIOUS
  <2> QED BY <2>1, FirstWords
<1>4. ASSUME NEW i \in 1 .. 17
      PROVE  IF F[i] = "r14" THEN stack[i] = EXC_RETURN(FALSE)
             ELSE Holds(t, 0, F[i], stack[i])
  <2>1. CASE i \in {1, 2, 3, 9}
    <3>1. CASE i = 9
          BY <1>3, <3>1, FirstFrame
    <3>2. CASE i = 1
          BY <1>3, <3>2, FirstFrame DEF Holds
    <3>3. CASE i = 2
          BY <1>3, <3>3, FirstFrame DEF Holds
    <3>4. CASE i = 3
          BY <1>3, <3>4, FirstFrame DEF Holds
    <3> QED BY <2>1, <3>1, <3>2, <3>3, <3>4
  <2>2. CASE i \notin {1, 2, 3, 9}
        BY <2>2, FirstFrame DEF Holds
  <2> QED BY <2>1, <2>2
<1> HIDE DEF F
<1>5. 0 \in Level
      BY DEF Level
<1>6. 17 = 0 + Len(F)
      BY <1>1
<1>7. \A i \in DOMAIN F : IF F[i] = "r14" THEN stack[0 + i] = EXC_RETURN(FALSE)
                            ELSE Holds(t, 0, F[i], stack[0 + i])
  <2>1. \A i \in 1 .. 17 : 0 + i = i
        OBVIOUS
  <2> QED BY <1>1, <1>4, <2>1
<1> QED BY <1>2, <1>5, <1>6, <1>7 DEF Frozen, F

-----------------------------------------------------------------------------
(***************************************************************************)
(* Saving and loading.                                                     *)
(***************************************************************************)

LEMMA LevelFits ==
    ASSUME NEW d \in Level
    PROVE  d \in Nat /\ d + 19 <= STACK /\ STACK \in Nat /\ d \in Depth
<1>1. d \in Nat /\ d + 19 <= STACK /\ STACK \in Nat
      BY ContextAssumption DEF Level
<1> QED BY <1>1 DEF Depth

LEMMA FrameFits ==
    ASSUME NEW d \in Level, NEW n \in {8, 9, 17, 19}
    PROVE  /\ d + n \in Depth
           /\ \A i \in 1 .. n : d + i \in 1 .. STACK /\ d + i \in d + 1 .. d + n
                              /\ (d + i) - d = i
<1>1. d \in Nat /\ d + 19 <= STACK /\ STACK \in Nat
      BY LevelFits
<1>2. n \in Nat /\ n <= 19
      OBVIOUS
<1> QED BY <1>1, <1>2 DEF Depth

\* A task whose frame has been pushed can be resumed.
LEMMA SavedFrozen ==
    ASSUME NEW t, NEW n, NEW fp \in BOOLEAN, NEW d \in Level, NEW old, NEW stack, NEW exc,
           OwnPart(t, n, old, d, fp),
           \A i \in 1 .. d : stack[i] = old[i],
           \A i \in DOMAIN Frame(fp) : stack[d + i] = exc[Frame(fp)[i]],
           exc["r14"] = EXC_RETURN(fp),
           \A r \in Image(Frame(fp)) \ {"r14"} : Holds(t, n, r, exc[r])
    PROVE  Frozen(t, n, stack, d + Len(Frame(fp)))
<1>1. OwnPart(t, n, stack, d, fp)
      BY DEF OwnPart
<1>2. ASSUME NEW i \in DOMAIN Frame(fp)
      PROVE  IF Frame(fp)[i] = "r14" THEN stack[d + i] = EXC_RETURN(fp)
             ELSE Holds(t, n, Frame(fp)[i], stack[d + i])
  <2>1. Frame(fp)[i] \in Image(Frame(fp))
        BY DEF Image
  <2> QED BY <2>1
<1> QED BY <1>1, <1>2 DEF Frozen

\* Resuming it from there, the processor has everything it had.
LEMMA Resumed ==
    ASSUME NEW t \in Task, NEW p, DOMAIN memory[t] = 1 .. STACK,
           Frozen(t, work[t], memory[t], p), Resume(t, p)
    PROVE  /\ mode' = "thread" /\ fpca' \in BOOLEAN
           /\ psp' = [of |-> t, depth |-> psp'.depth] /\ psp'.depth \in Level
           /\ OwnPart(t, work[t], memory[t], psp'.depth, fpca')
           /\ \A r \in Image(Frame(fpca')) \ {"r14"} : Holds(t, work[t], r, cpu'[r])
           /\ cpu' = [r \in Register |-> cpu'[r]] /\ DOMAIN cpu' = Register
<1> DEFINE stack == memory[t]
<1>1. PICK fp \in BOOLEAN, d \in Level :
          /\ p = d + Len(Frame(fp))
          /\ OwnPart(t, work[t], stack, d, fp)
          /\ \A i \in DOMAIN Frame(fp) :
               IF Frame(fp)[i] = "r14" THEN stack[d + i] = EXC_RETURN(fp)
               ELSE Holds(t, work[t], Frame(fp)[i], stack[d + i])
      BY DEF Frozen
<1> DEFINE F == Frame(fp)
           L == Len(F)
<1>2. /\ L \in {17, 19} /\ DOMAIN F = 1 .. L /\ F[L - 8] = "r14"
      BY FrameWords
<1>3. /\ d \in Nat /\ d + 19 <= STACK /\ STACK \in Nat
      BY LevelFits
<1>4. \A i \in 1 .. L : Load(t, d + i) = stack[d + i]
  <2> HIDE DEF L
  <2>1. \A i \in 1 .. L : d + i \in 1 .. STACK
        BY <1>2, <1>3
  <2> QED BY <2>1 DEF Load
<1>5. Load(t, p - 8) = EXC_RETURN(fp)
  <2>1. L - 8 \in 1 .. L /\ p - 8 = d + (L - 8)
        BY <1>1, <1>2, <1>3
  <2>2. stack[d + (L - 8)] = EXC_RETURN(fp)
        BY <1>1, <1>2, <2>1
  <2> QED BY <1>4, <2>1, <2>2
<1>6. PICK q : q = (Load(t, p - 8) = EXC_RETURN(TRUE))
      OBVIOUS
<1>a. q = fp
  <2>1. EXC_RETURN(TRUE) # EXC_RETURN(FALSE)
        BY DEF EXC_RETURN, Word
  <2> QED BY <1>5, <1>6, <2>1
<1>b. /\ cpu' = [r \in Register |->
                  IF r \in Image(Frame(q))
                  THEN Load(t, p - Len(Frame(q))
                               + (CHOOSE i \in DOMAIN Frame(q) : Frame(q)[i] = r))
                  ELSE cpu[r]]
      /\ psp' = [of |-> t, depth |-> p - Len(Frame(q))]
      /\ fpca' = q
      /\ mode' = IF cpu'["r14"] \in {EXC_RETURN(TRUE), EXC_RETURN(FALSE)}
                 THEN "thread" ELSE "fault"
      BY <1>6, SMT DEF Resume, Frame
<1> DEFINE place(r) == CHOOSE i \in DOMAIN F : F[i] = r
<1>7. /\ cpu' = [r \in Register |->
                  IF r \in Image(F) THEN Load(t, p - L + place(r)) ELSE cpu[r]]
      /\ psp' = [of |-> t, depth |-> p - L]
      /\ fpca' = fp
      /\ mode' = IF cpu'["r14"] \in {EXC_RETURN(TRUE), EXC_RETURN(FALSE)}
                 THEN "thread" ELSE "fault"
      BY <1>a, <1>b
<1>8. p - L = d
      BY <1>1, <1>2, <1>3
<1>9. ASSUME NEW r \in Image(F)
      PROVE  /\ r \in Register
             /\ r = "r14" => cpu'[r] = EXC_RETURN(fp)
             /\ r # "r14" => Holds(t, work[t], r, cpu'[r])
  <2>1. place(r) \in 1 .. L /\ F[place(r)] = r
        BY <1>2, <1>9 DEF Image
  <2>2. r \in Register
        BY <1>9, FrameWords, Registers DEF Float
  <2> HIDE DEF place
  <2>3. cpu'[r] = stack[d + place(r)]
        BY <1>4, <1>7, <1>8, <2>1, <2>2
  <2> QED BY <1>1, <1>2, <2>1, <2>2, <2>3
<1>10. "r14" \in Image(F)
       BY FrameWords DEF SavedSet
<1>11. mode' = "thread"
       BY <1>7, <1>9, <1>10
<1> HIDE DEF F, place
<1>12. cpu' = [r \in Register |-> cpu'[r]] /\ DOMAIN cpu' = Register
       BY <1>7
<1>13. psp' = [of |-> t, depth |-> d]
       BY <1>7, <1>8
<1>14. \A r \in Image(Frame(fpca')) \ {"r14"} : Holds(t, work[t], r, cpu'[r])
       BY <1>7, <1>9 DEF F
<1>15. fpca' \in BOOLEAN /\ OwnPart(t, work[t], memory[t], d, fpca')
       BY <1>1, <1>7
<1>16. psp'.depth = d /\ d \in Level
       BY <1>13
<1> QED BY <1>11, <1>12, <1>13, <1>14, <1>15, <1>16

-----------------------------------------------------------------------------
(***************************************************************************)
(* Every step keeps the invariant.                                         *)
(***************************************************************************)

LEMMA InvInit == Init => CInv
<1> SUFFICES ASSUME Init
             PROVE  CInv
    OBVIOUS
<1> USE ContextAssumption
<1>1. 0 \in Depth /\ STACK \in Nat
      BY DEF Depth
<1>2. tcb \in Pointer /\ psp \in Pointer
      BY <1>1 DEF Init, Pointer
<1>3. /\ \A t \in Task : DOMAIN memory[t] = 1 .. STACK
      /\ stackPointer \in [Task -> Depth] /\ work \in [Task -> 0 .. 2]
      BY <1>1 DEF Init
<1>4. /\ fpca \in BOOLEAN /\ pendSV \in BOOLEAN /\ gPtrPort \in BOOLEAN
      /\ added = {} /\ currentTask = Idle /\ mode = "main" /\ DOMAIN cpu = Register
      BY DEF Init
<1>5. TypeOK
      BY <1>2, <1>3, <1>4 DEF TypeOK
<1>6. Shape
      BY DEF Init, Shape
<1>7. Known
      BY <1>4 DEF Init, Known
<1>8. OthersFrozen /\ CurrentFrozen /\ CurrentRuns
      BY <1>4 DEF OthersFrozen, CurrentFrozen, CurrentRuns
<1> QED BY <1>4, <1>5, <1>6, <1>7, <1>8 DEF CInv

\* A step that leaves the stacks, the pointers into them and the current task
\* alone, and goes on without running or switching.
LEMMA QuietStep ==
    ASSUME CInv,
           UNCHANGED <<memory, stackPointer, added, currentTask, psp, cpu, fpca, work>>,
           tcb' \in Pointer, pendSV' \in BOOLEAN, gPtrPort' \in BOOLEAN,
           \/ mode' = mode /\ tcb' = tcb
           \/ mode' \in {"started", "SVC"} /\ mode \notin {"thread", "PendSV", "PendSV return"}
              /\ Idle \in added
    PROVE  CInv'
<1>1. TypeOK'
      BY DEF CInv, TypeOK
<1>2. Shape' /\ Known' /\ mode' # "fault"
      BY DEF CInv, Shape, Known
<1>3. OthersFrozen'
      BY DEF CInv, OthersFrozen
<1>4. CurrentFrozen' /\ CurrentRuns'
      BY DEF CInv, CurrentFrozen, CurrentRuns
<1> QED BY <1>1, <1>2, <1>3, <1>4 DEF CInv

\* The kernel adds a task while another one runs, or none.
LEMMA AddStep ==
    ASSUME CInv, NEW t \in Task, initialiseStack(t)
    PROVE  CInv'
<1> USE ContextAssumption
<1>1. /\ t \notin added /\ mode \in {"main", "thread"} /\ (t = Idle \/ Idle \in added)
      /\ added' = added \cup {t}
      /\ memory' = [memory EXCEPT ![t] = Push(@, 0, InitialFrame)]
      /\ stackPointer' = [stackPointer EXCEPT ![t] = 17]
      /\ UNCHANGED <<currentTask, tcb, psp, cpu, fpca, pendSV, gPtrPort, mode, work>>
      BY FirstWords DEF initialiseStack
<1>2. /\ memory = [u \in Task |-> memory[u]] /\ \A u \in Task : DOMAIN memory[u] = 1 .. STACK
      /\ work[t] = 0 /\ added \subseteq Task /\ stackPointer \in [Task -> Depth]
      BY <1>1 DEF CInv, TypeOK, Shape, Known
<1>3. /\ memory' = [u \in Task |-> memory'[u]]
      /\ memory'[t] = Push(memory[t], 0, InitialFrame)
      /\ \A u \in Task \ {t} : memory'[u] = memory[u]
      BY <1>1, <1>2
<1>4. 19 <= STACK /\ STACK \in Nat /\ 17 \in Depth
  <2>1. 0 \in Level
        BY DEF Level
  <2> QED BY <2>1, LevelFits DEF Depth
<1>5. /\ DOMAIN memory'[t] = 1 .. STACK
      /\ \A i \in 1 .. 16 : memory'[t][i] = InitialFrame[i]
  <2>1. memory'[t] = [i \in 1 .. STACK |->
                        IF i \in 0 + 1 .. 0 + Len(InitialFrame) THEN InitialFrame[i - 0]
                        ELSE memory[t][i]]
        BY <1>2, <1>3 DEF Push
  <2>2. ASSUME NEW i \in 1 .. 16
        PROVE  i \in 1 .. STACK /\ i \in 0 + 1 .. 0 + Len(InitialFrame) /\ i - 0 = i
        BY <1>4, FirstWords
  <2> QED BY <2>1, <2>2
<1>6. Frozen(t, 0, memory'[t], 17)
      BY <1>5, InitialFrozen
<1>7. TypeOK'
      BY <1>1, <1>2, <1>3, <1>4, <1>5 DEF CInv, TypeOK
<1>8. Shape' /\ Known' /\ mode' # "fault"
      BY <1>1, <1>3 DEF CInv, Shape, Known
\* A task that runs has been added.
<1>9. mode = "thread" => t # currentTask
      BY <1>1 DEF CInv, Known
<1>10. OthersFrozen'
  <2>1. stackPointer'[t] = 17 /\ \A u \in Task \ {t} : stackPointer'[u] = stackPointer[u]
        BY <1>1, <1>2
  <2>2. ASSUME NEW u \in added', u # currentTask' \/ mode' \notin {"thread", "PendSV", "PendSV return"}
        PROVE  Frozen(u, work'[u], memory'[u], stackPointer'[u])
    <3>1. CASE u = t
          BY <1>1, <1>2, <1>6, <2>1, <3>1
    <3>2. CASE u # t
          BY <1>1, <1>2, <1>3, <2>1, <2>2, <3>2 DEF CInv, OthersFrozen
    <3> QED BY <3>1, <3>2
  <2> QED BY <2>2 DEF OthersFrozen
<1>11. CurrentFrozen' /\ CurrentRuns'
  <2>1. mode = "thread" => memory'[currentTask] = memory[currentTask]
        BY <1>3, <1>9 DEF CInv, TypeOK
  <2> QED BY <1>1, <2>1 DEF CInv, CurrentFrozen, CurrentRuns
<1> QED BY <1>7, <1>8, <1>10, <1>11 DEF CInv

\* The task that runs writes its registers and its own part of its stack.
LEMMA ComputeStep ==
    ASSUME CInv, NEW n \in 1 .. 2, mode = "thread", Compute(currentTask, n),
           gPtrPort' \in BOOLEAN
    PROVE  CInv'
<1> USE ContextAssumption
<1> DEFINE t == currentTask
<1>1. /\ t \in Task /\ psp.of = t /\ psp \in Pointer /\ fpca \in BOOLEAN
      /\ work \in [Task -> 0 .. 2]
      /\ memory = [u \in Task |-> memory[u]]
      /\ \A u \in Task : DOMAIN memory[u] = 1 .. STACK
      BY DEF CInv, TypeOK, Shape, CurrentRuns
<1>2. PICK d \in Locals :
          /\ psp' = [psp EXCEPT !.depth = d]
          /\ memory' = [memory EXCEPT ![t] =
                          Push(@, 0, [i \in 1 .. d |-> <<t, n, "local">>])]
      BY <1>1 DEF Compute
<1>3. d \in Level /\ d \in Nat /\ d + 19 <= STACK /\ STACK \in Nat
      BY LevelFits DEF Level
<1>4. /\ work' = [work EXCEPT ![t] = n] /\ fpca' \in {fpca, TRUE}
      /\ UNCHANGED <<stackPointer, added, currentTask, tcb, pendSV, mode>>
      /\ cpu' = [r \in Register |-> IF r = "r14" \/ (r \in Float /\ ~fpca') THEN cpu[r]
                                    ELSE <<t, n, r>>]
      BY DEF Compute
<1>5. /\ psp' \in Pointer /\ psp'.of = t /\ psp'.depth = d
      BY <1>1, <1>2, <1>3 DEF Pointer, Depth
<1>6. /\ memory' = [u \in Task |-> memory'[u]]
      /\ memory'[t] = Push(memory[t], 0, [i \in 1 .. d |-> <<t, n, "local">>])
      /\ \A u \in Task \ {t} : memory'[u] = memory[u]
      BY <1>1, <1>2
<1>7. /\ DOMAIN memory'[t] = 1 .. STACK
      /\ \A i \in 1 .. d : memory'[t][i] = <<t, n, "local">>
  <2> DEFINE own == [i \in 1 .. d |-> <<t, n, "local">>]
  <2>1. Len(own) = d
    <3>1. own \in [1 .. d -> {<<t, n, "local">>}]
          OBVIOUS
    <3>2. own \in Seq({<<t, n, "local">>})
          BY <1>3, <3>1
    <3>3. DOMAIN own = 1 .. d /\ DOMAIN own = 1 .. Len(own) /\ Len(own) \in Nat
          BY <3>2, LenProperties
    <3> HIDE DEF own
    <3> QED BY <1>3, <3>3
  <2>2. \A i \in 1 .. d : own[i] = <<t, n, "local">>
        OBVIOUS
  <2> HIDE DEF own
  <2>3. memory'[t] = [i \in 1 .. STACK |->
                        IF i \in 0 + 1 .. 0 + Len(own) THEN own[i - 0] ELSE memory[t][i]]
        BY <1>1, <1>6 DEF Push, own
  <2>4. ASSUME NEW i \in 1 .. d
        PROVE  i \in 1 .. STACK /\ i \in 0 + 1 .. 0 + Len(own) /\ i - 0 = i
        BY <1>3, <2>1
  <2> QED BY <2>2, <2>3, <2>4
<1>8. work'[t] = n /\ work' \in [Task -> 0 .. 2] /\ \A u \in Task \ {t} : work'[u] = work[u]
      BY <1>1, <1>4
<1>9. fpca' \in BOOLEAN
      BY <1>1, <1>4
<1>10. TypeOK'
  <2>1. \A u \in Task : DOMAIN memory'[u] = 1 .. STACK
        BY <1>1, <1>6, <1>7
  <2>2. DOMAIN cpu' = Register
        BY <1>4
  <2> QED BY <1>4, <1>5, <1>8, <1>9, <2>1, <2>2 DEF CInv, TypeOK
<1>11. Shape' /\ mode' # "fault"
       BY <1>4, <1>6 DEF CInv, Shape
<1>12. t \in added
       BY DEF CInv, Known
<1>13. Known'
       BY <1>4, <1>8, <1>12 DEF CInv, Known
<1>14. OthersFrozen' /\ CurrentFrozen'
  <2>1. \A u \in added : u # t => u \in Task /\ work'[u] = work[u] /\ memory'[u] = memory[u]
        BY <1>6, <1>8 DEF CInv, TypeOK
  <2> QED BY <1>4, <2>1 DEF CInv, OthersFrozen, CurrentFrozen
<1>15. CurrentRuns'
  <2>1. OwnPart(t, n, memory'[t], d, fpca')
        BY <1>3, <1>7 DEF OwnPart
  <2>2. ASSUME NEW r \in Image(Frame(fpca')) \ {"r14"}
        PROVE  Holds(t, n, r, cpu'[r])
    <3>1. r \in Register /\ (r \in Float => fpca')
          BY <1>9, FrameWords, Registers DEF Float, CoreSet, SavedSet
    <3>2. cpu'[r] = <<t, n, r>>
          BY <1>4, <3>1
    <3> QED BY <3>2 DEF Holds
  <2> QED BY <1>4, <1>5, <1>8, <2>1, <2>2 DEF CurrentRuns
<1> QED BY <1>10, <1>11, <1>13, <1>14, <1>15 DEF CInv

\* Whoever is resumed from a frame runs.
LEMMA ResumeStep ==
    ASSUME CInv,
           \/ mode = "SVC" /\ Resume(currentTask, stackPointer[currentTask])
           \/ mode = "PendSV return" /\ Resume(tcb.of, tcb.depth),
           UNCHANGED <<memory, stackPointer, added, currentTask, tcb, pendSV, gPtrPort, work>>
    PROVE  CInv'
<1> DEFINE t == currentTask
<1>1. t \in Task /\ t \in added /\ \A u \in Task : DOMAIN memory[u] = 1 .. STACK
      BY DEF CInv, TypeOK, Known
<1>2. PICK p : Resume(t, p) /\ Frozen(t, work[t], memory[t], p)
  <2>1. CASE mode = "SVC"
        BY <1>1, <2>1 DEF CInv, OthersFrozen
  <2>2. CASE mode = "PendSV return"
        BY <2>2 DEF CInv, CurrentFrozen
  <2> QED BY <2>1, <2>2
<1>3. /\ mode' = "thread" /\ fpca' \in BOOLEAN
      /\ psp' = [of |-> t, depth |-> psp'.depth] /\ psp'.depth \in Level
      /\ OwnPart(t, work[t], memory[t], psp'.depth, fpca')
      /\ \A r \in Image(Frame(fpca')) \ {"r14"} : Holds(t, work[t], r, cpu'[r])
      /\ cpu' = [r \in Register |-> cpu'[r]] /\ DOMAIN cpu' = Register
      BY <1>1, <1>2, Resumed
<1>4. PICK d \in Level : psp' = [of |-> t, depth |-> d]
      BY <1>3
<1>a. psp'.of = t /\ psp'.depth = d
      BY <1>4
<1>b. psp' \in Pointer
  <2>1. d \in Depth
        BY LevelFits
  <2> QED BY <1>1, <1>4, <2>1 DEF Pointer
<1>5. TypeOK'
      BY <1>3, <1>b DEF CInv, TypeOK
<1>6. Shape' /\ Known' /\ mode' # "fault"
      BY <1>1, <1>3 DEF CInv, Shape, Known
<1>7. OthersFrozen' /\ CurrentFrozen'
  <2>1. ASSUME NEW u \in added, u # t
        PROVE  Frozen(u, work[u], memory[u], stackPointer[u])
        BY <2>1 DEF CInv, OthersFrozen
  <2> QED BY <1>3, <2>1 DEF OthersFrozen, CurrentFrozen
<1>8. CurrentRuns'
  <2>1. /\ OwnPart(t, work'[t], memory'[t], psp'.depth, fpca')
        /\ \A r \in Image(Frame(fpca')) \ {"r14"} : Holds(t, work'[t], r, cpu'[r])
        BY <1>3
  <2> QED BY <1>a, <2>1 DEF CurrentRuns
<1> QED BY <1>5, <1>6, <1>7, <1>8 DEF CInv

\* PendSV saves the task it interrupts.
LEMMA SaveStep == CInv /\ PendSV_Handler => CInv'
<1> SUFFICES ASSUME CInv, PendSV_Handler
             PROVE  CInv'
    OBVIOUS
<1> USE ContextAssumption
<1> DEFINE t   == currentTask
           d   == psp.depth
           fp  == fpca
           exc == [cpu EXCEPT !["r14"] = EXC_RETURN(fp)]
           F   == Frame(fp)
           s   == [i \in DOMAIN F |-> exc[F[i]]]
<1>1. /\ mode = "thread" /\ mode' = "PendSV" /\ pendSV' = FALSE /\ fpca' = FALSE
      /\ memory' = [memory EXCEPT ![psp.of] = Push(@, d, s)]
      /\ tcb' = [psp EXCEPT !.depth = @ + Len(F)]
      /\ psp' = [psp EXCEPT !.depth = @ + Len(Hardware(fp))]
      /\ cpu' = [r \in Register |-> IF r \in Image(Core) \cup {"r14"} THEN Unknown
                                    ELSE cpu[r]]
      /\ UNCHANGED <<stackPointer, added, currentTask, gPtrPort, work>>
      BY DEF PendSV_Handler, Frame
<1>2. /\ t \in Task /\ t \in added /\ psp.of = t /\ psp \in Pointer /\ fp \in BOOLEAN
      /\ memory = [u \in Task |-> memory[u]] /\ cpu = [r \in Register |-> cpu[r]]
      /\ \A u \in Task : DOMAIN memory[u] = 1 .. STACK
      /\ OwnPart(t, work[t], memory[t], d, fp)
      /\ \A r \in Image(F) \ {"r14"} : Holds(t, work[t], r, cpu[r])
      BY <1>1 DEF CInv, TypeOK, Shape, Known, CurrentRuns
<1>3. d \in Level
      BY <1>2 DEF OwnPart
<1>4. d \in Nat /\ d + 19 <= STACK /\ STACK \in Nat
      BY <1>3, LevelFits
<1>5. /\ Len(Hardware(fp)) \in {8, 9} /\ Len(F) \in {17, 19} /\ DOMAIN F = 1 .. Len(F)
      /\ Image(F) \subseteq Register /\ "r14" \in Register
      BY <1>2, FrameWords, Registers DEF Float, SavedSet
<1>6. /\ exc["r14"] = EXC_RETURN(fp)
      /\ \A r \in Image(F) \ {"r14"} : Holds(t, work[t], r, exc[r])
      BY <1>2, <1>5
<1> HIDE DEF exc
<1>7. Len(s) = Len(F) /\ \A i \in 1 .. Len(F) : s[i] = exc[F[i]]
  <2>1. s \in [1 .. Len(F) -> {exc[F[i]] : i \in 1 .. Len(F)}]
        BY <1>5
  <2>2. Len(F) \in Nat
        BY <1>5
  <2>3. s \in Seq({exc[F[i]] : i \in 1 .. Len(F)})
        BY <2>1, <2>2
  <2>4. DOMAIN s = 1 .. Len(s) /\ Len(s) \in Nat
        BY <2>3, LenProperties
  <2>5. DOMAIN s = 1 .. Len(F) /\ \A i \in 1 .. Len(F) : s[i] = exc[F[i]]
        BY <1>5
  <2> HIDE DEF s, F
  <2> QED BY <2>2, <2>4, <2>5
<1> HIDE DEF s, F
<1>8. /\ memory' = [u \in Task |-> memory'[u]]
      /\ memory'[t] = Push(memory[t], d, s)
      /\ \A u \in Task \ {t} : memory'[u] = memory[u]
      BY <1>1, <1>2
<1>9. /\ DOMAIN memory'[t] = 1 .. STACK
      /\ \A i \in 1 .. d : memory'[t][i] = memory[t][i]
      /\ \A i \in DOMAIN F : memory'[t][d + i] = exc[F[i]]
  <2>1. memory'[t] = [i \in 1 .. STACK |-> IF i \in d + 1 .. d + Len(s) THEN s[i - d]
                                           ELSE memory[t][i]]
        BY <1>2, <1>8 DEF Push
  <2>2. ASSUME NEW i \in 1 .. d
        PROVE  i \in 1 .. STACK /\ i \notin d + 1 .. d + Len(s)
        BY <1>4, <1>5, <1>7
  <2>3. \A i \in 1 .. Len(F) : /\ d + i \in 1 .. STACK /\ d + i \in d + 1 .. d + Len(s)
                               /\ (d + i) - d = i
        BY <1>3, <1>5, <1>7, FrameFits
  <2>4. \A i \in 1 .. Len(F) : memory'[t][d + i] = exc[F[i]]
        BY <1>7, <2>1, <2>3
  <2> QED BY <1>5, <2>1, <2>2, <2>4
<1>10. Frozen(t, work[t], memory'[t], d + Len(F))
       BY <1>2, <1>3, <1>6, <1>9, SavedFrozen DEF F
<1>11. /\ tcb' = [of |-> t, depth |-> d + Len(F)] /\ d + Len(F) \in Depth
       /\ psp' = [of |-> t, depth |-> d + Len(Hardware(fp))]
       /\ d + Len(Hardware(fp)) \in Depth
  <2>1. d + Len(F) \in Depth /\ d + Len(Hardware(fp)) \in Depth
        BY <1>3, <1>5, FrameFits
  <2> QED BY <1>1, <1>2, <2>1 DEF Pointer
<1>12. TypeOK'
  <2>1. \A u \in Task : DOMAIN memory'[u] = 1 .. STACK
        BY <1>2, <1>8, <1>9
  <2>2. tcb' \in Pointer /\ psp' \in Pointer
        BY <1>2, <1>11 DEF Pointer
  <2>3. DOMAIN cpu' = Register
        BY <1>1
  <2> QED BY <1>1, <2>1, <2>2, <2>3 DEF CInv, TypeOK
<1>13. Shape' /\ Known' /\ mode' # "fault"
       BY <1>1, <1>8 DEF CInv, Shape, Known
<1>14. OthersFrozen'
  <2>1. ASSUME NEW u \in added, u # t
        PROVE  Frozen(u, work[u], memory'[u], stackPointer[u])
        BY <1>8, <2>1 DEF CInv, TypeOK, OthersFrozen
  <2> QED BY <1>1, <2>1 DEF OthersFrozen
<1>15. CurrentFrozen' /\ CurrentRuns'
  <2>1. tcb'.of = t /\ tcb'.depth = d + Len(F)
        BY <1>11
  <2> QED BY <1>1, <1>10, <2>1 DEF CurrentFrozen, CurrentRuns
<1> QED BY <1>12, <1>13, <1>14, <1>15 DEF CInv

\* Without the global pointer the kernel cannot choose, and the same task goes on.
LEMMA SwitchStep == CInv /\ taskSwitchContext => CInv'
<1> SUFFICES ASSUME CInv, taskSwitchContext
             PROVE  CInv'
    OBVIOUS
<1>1. /\ mode = "PendSV" /\ mode' = "PendSV return"
      /\ UNCHANGED <<memory, added, psp, cpu, fpca, pendSV, gPtrPort, work>>
      BY DEF taskSwitchContext
<1>2. /\ currentTask \in added /\ currentTask \in Task /\ added \subseteq Task
      /\ stackPointer \in [Task -> Depth] /\ tcb \in Pointer /\ tcb.of = currentTask
      /\ Frozen(currentTask, work[currentTask], memory[currentTask], tcb.depth)
      BY <1>1 DEF CInv, TypeOK, Known, CurrentFrozen
<1>3. /\ stackPointer' \in [Task -> Depth] /\ currentTask' \in added
      /\ tcb' \in Pointer /\ tcb'.of = currentTask'
      /\ Frozen(currentTask', work[currentTask'], memory[currentTask'], tcb'.depth)
      /\ \A u \in added \ {currentTask'} : Frozen(u, work[u], memory[u], stackPointer'[u])
  <2>1. CASE gPtrPort
    <3>1. /\ stackPointer' = [stackPointer EXCEPT ![currentTask] = tcb.depth]
          /\ currentTask' \in (added \ {Idle}) \cup {currentTask}
          /\ tcb' = [of |-> currentTask', depth |-> stackPointer'[currentTask']]
          BY <2>1 DEF taskSwitchContext, LoadPointer
    <3>2. tcb.depth \in Depth
          BY <1>2 DEF Pointer
    <3>3. /\ stackPointer' \in [Task -> Depth] /\ stackPointer'[currentTask] = tcb.depth
          /\ \A u \in Task \ {currentTask} : stackPointer'[u] = stackPointer[u]
          BY <1>2, <3>1, <3>2
    <3>4. ASSUME NEW u \in added
          PROVE  Frozen(u, work[u], memory[u], stackPointer'[u])
      <4>1. CASE u = currentTask
            BY <1>2, <3>3, <4>1
      <4>2. CASE u # currentTask
        <5>1. Frozen(u, work[u], memory[u], stackPointer[u])
              BY <4>2 DEF CInv, OthersFrozen
        <5> QED BY <1>2, <3>3, <4>2, <5>1
      <4> QED BY <4>1, <4>2
    <3>5. currentTask' \in added /\ currentTask' \in Task
          BY <1>2, <3>1
    <3>6. /\ tcb'.of = currentTask' /\ tcb'.depth = stackPointer'[currentTask']
          /\ tcb' \in Pointer
          BY <3>1, <3>3, <3>5 DEF Pointer
    <3> QED BY <3>3, <3>4, <3>5, <3>6
  <2>2. CASE ~gPtrPort
    <3>1. UNCHANGED <<stackPointer, currentTask, tcb>>
          BY <2>2 DEF taskSwitchContext
    <3> QED BY <1>2, <3>1 DEF CInv, OthersFrozen
  <2> QED BY <2>1, <2>2
<1>4. TypeOK'
      BY <1>1, <1>2, <1>3 DEF CInv, TypeOK
<1>5. Shape' /\ Known' /\ mode' # "fault"
      BY <1>1, <1>3 DEF CInv, Shape, Known
<1>6. OthersFrozen' /\ CurrentFrozen' /\ CurrentRuns'
      BY <1>1, <1>3 DEF OthersFrozen, CurrentFrozen, CurrentRuns
<1> QED BY <1>4, <1>5, <1>6 DEF CInv

LEMMA InvStep == CInv /\ [Next]_vars => CInv'
<1> SUFFICES ASSUME CInv, [Next]_vars
             PROVE  CInv'
    OBVIOUS
<1>1. ASSUME NEW t \in Task, initialiseStack(t)
      PROVE  CInv'
      BY <1>1, AddStep
<1>2. CASE callFirstTime
  <2>1. gPtrPort' \in BOOLEAN /\ mode = "thread" /\ Compute(currentTask, 1) /\ 1 \in 1 .. 2
        BY <1>2 DEF callFirstTime, setGlobalPointers
  <2> QED BY <2>1, ComputeStep
<1>3. CASE Continue
  <2>1. /\ mode = "thread" /\ psp.of = currentTask /\ work[currentTask] \in 0 .. 2
        /\ gPtrPort' \in BOOLEAN
        BY <1>3 DEF Continue, CInv, TypeOK, CurrentRuns
  <2>2. Holds(currentTask, work[currentTask], "pc", cpu["pc"])
    <3>1. fpca \in BOOLEAN
          BY DEF CInv, TypeOK
    <3>2. "pc" \in Image(Frame(fpca)) \ {"r14"}
          BY <3>1, FrameWords DEF CoreSet
    <3> QED BY <2>1, <3>2 DEF CInv, CurrentRuns
  <2>3. work[currentTask] # 0
        BY <1>3, <2>2 DEF Holds, Continue
  <2>4. 3 - work[currentTask] \in 1 .. 2
        BY <2>1, <2>3
  <2> QED BY <1>3, <2>1, <2>4, ComputeStep DEF Continue
<1>4. CASE yield \/ startScheduler \/ startFirstTask \/ SysTick_Handler
  <2>1. /\ pendSV \in BOOLEAN /\ gPtrPort \in BOOLEAN /\ tcb \in Pointer
        /\ [of |-> None, depth |-> 0] \in Pointer
    <3>1. 0 \in Depth
          BY ContextAssumption DEF Depth
    <3> QED BY <3>1 DEF CInv, TypeOK, Pointer
  <2>2. mode # "main" => Idle \in added
        BY DEF CInv, Known
  <2>3. CASE yield
        BY <2>1, <2>3, QuietStep DEF yield
  <2>4. CASE startScheduler
        BY <2>1, <2>4, QuietStep DEF startScheduler
  <2>5. CASE startFirstTask
        BY <2>1, <2>2, <2>5, QuietStep DEF startFirstTask, startInitialTask
  <2>6. CASE SysTick_Handler
        BY <2>1, <2>6, QuietStep DEF SysTick_Handler, setGlobalPointers
  <2> QED BY <1>4, <2>3, <2>4, <2>5, <2>6
<1>5. CASE SVC_Handler
      BY <1>5, ResumeStep DEF SVC_Handler
<1>6. CASE ReturnFromPendSV
      BY <1>6, ResumeStep DEF ReturnFromPendSV
<1>7. CASE PendSV_Handler
      BY <1>7, SaveStep
<1>8. CASE taskSwitchContext
      BY <1>8, SwitchStep
<1>9. CASE UNCHANGED vars
      BY <1>9, QuietStep DEF vars, CInv, TypeOK
<1> QED BY <1>1, <1>2, <1>3, <1>4, <1>5, <1>6, <1>7, <1>8, <1>9 DEF Next

LEMMA Invariance == Spec => []CInv
BY InvInit, InvStep, PTL DEF Spec

\* No stack pointer leaves its stack, as long as the code of the tasks leaves room
\* for one frame.
THEOREM ContextTypeCorrect == Spec => []TypeOK
<1>1. CInv => TypeOK
      BY DEF CInv
<1> QED BY <1>1, Invariance, PTL

\* A task is resumed on its own stack with its own registers, and begins in
\* callFirstTime, whatever ran in between.
THEOREM ContextIsKept == Spec => []ContextKept
<1>1. ASSUME CInv
      PROVE  ContextKept
  <2> DEFINE t == currentTask
  <2>1. mode # "fault"
        BY <1>1 DEF CInv
  <2>2. ASSUME mode = "thread"
        PROVE  /\ psp.of = t /\ fpca \in BOOLEAN /\ work[t] \in 0 .. 2
               /\ OwnPart(t, work[t], memory[t], psp.depth, fpca)
               /\ \A r \in Image(Frame(fpca)) \ {"r14"} : Holds(t, work[t], r, cpu[r])
        BY <1>1, <2>2 DEF CInv, TypeOK, CurrentRuns
  <2>3. ASSUME mode = "thread", work[t] = 0
        PROVE  /\ cpu["pc"] = Word("callFirstTime") /\ cpu["lr"] = Word("taskExitError")
               /\ cpu["xPSR"] = Word("thumb") /\ psp.depth = 0 /\ ~fpca
    <3>1. {"pc", "lr", "xPSR"} \subseteq Image(Frame(fpca)) \ {"r14"}
          BY <2>2, <2>3, FrameWords DEF CoreSet
    <3>2. \A r \in {"pc", "lr", "xPSR"} : Holds(t, 0, r, cpu[r])
          BY <2>2, <2>3, <3>1
    <3> QED BY <2>2, <2>3, <3>2 DEF Holds, OwnPart
  <2>4. ASSUME mode = "thread", work[t] # 0
        PROVE  /\ \A r \in Register \ {"r14"} :
                     r \notin Float \/ fpca => cpu[r] = <<t, work[t], r>>
               /\ \A i \in 1 .. psp.depth : memory[t][i] = <<t, work[t], "local">>
    <3>1. ASSUME NEW r \in Register \ {"r14"}, r \notin Float \/ fpca
          PROVE  cpu[r] = <<t, work[t], r>>
      <4>1. r \in Image(Frame(fpca)) \ {"r14"}
            BY <2>2, <2>4, <3>1, FrameWords, Registers DEF Float
      <4> QED BY <2>2, <2>4, <4>1 DEF Holds
    <3>2. \A i \in 1 .. psp.depth : memory[t][i] = <<t, work[t], "local">>
          BY <2>2, <2>4 DEF OwnPart
    <3> QED BY <3>1, <3>2
  <2> QED BY <2>1, <2>2, <2>3, <2>4 DEF ContextKept
<1> QED BY <1>1, Invariance, PTL

=============================================================================
