-------------------------- MODULE ExceptionsProofs --------------------------
(***************************************************************************)
(* Proofs about Exceptions, for any errors and any depth of the stack.     *)
(***************************************************************************)
EXTENDS Exceptions, WellFoundedInduction, TLAPS

USE ExceptionsAssumption

\* How the frames of a stack may lie on each other, and what rethrow needs.
Nested(s) == /\ s \in Seq(Frames) /\ Len(s) \in 1 .. MaxDepth /\ s[1] = Zig
             /\ \A i \in 2 .. Len(s) :
                   s[i - 1].kind \in (IF s[i].kind \in {"block", "zig"}
                                      THEN {"js", "block"} ELSE {"zig", "try"})
             /\ \A i \in DOMAIN s :
                   s[i].kind = "try" /\ s[i].rethrown => s[i].caught # None

OthersTyped == /\ scheduled \in Thrown \cup {None}
               /\ requested \in BOOLEAN /\ requests \in 0 .. MaxRequests
               /\ result \in {"none", "value", "present", "absent"} \cup Failures

IInv == Nested(stack) /\ OthersTyped /\ FailureHasReason /\ ScheduledIsOnItsWay

LEMMA IInvTypeOK == IInv => TypeOK
BY DEF IInv, Nested, OthersTyped, TypeOK

LEMMA FrameKinds ==
  ASSUME NEW f \in Frames
  PROVE  /\ f.kind \in {"zig", "block", "js", "try"}
         /\ f.kind = "zig" => f = Zig
         /\ f.kind = "block" => f = Block
         /\ f.kind = "js" => f.wrapper \in Wrappers
         /\ f.kind = "try" => f \in TryCatches
BY DEF Frames, Zig, Block, Js, TryCatches

LEMMA KindsOfFrames ==
  /\ Zig \in Frames /\ Zig.kind = "zig"
  /\ Block \in Frames /\ Block.kind = "block"
  /\ \A w \in Wrappers : Js(w) \in Frames /\ Js(w).kind = "js" /\ Js(w).wrapper = w
  /\ \A f \in TryCatches : f \in Frames /\ f.kind = "try" /\ f.caught \in Thrown \cup {None}
                           /\ f.rethrown \in BOOLEAN
BY DEF Frames, Zig, Block, Js, TryCatches
------------------------------------------------------------------------------
(***************************************************************************)
(* The innermost and the outermost frame of a kind.                        *)
(***************************************************************************)
LEMMA LeastOf ==
  ASSUME NEW T \in SUBSET Nat, T # {}
  PROVE  \E i \in T : \A j \in T : i <= j
<1>1. \E i \in T : \A j \in T : ~ (<<j, i>> \in OpToRel(<, Nat))
  BY WFMin, NatLessThanWellFounded, Zenon
<1>2. PICK i \in T : \A j \in T : ~ (<<j, i>> \in OpToRel(<, Nat))
  BY <1>1
<1>3. \A j \in T : ~ (j < i)
  BY <1>2 DEF OpToRel
<1>4. \A j \in T : i <= j
  BY <1>3
<1>5. QED  BY <1>4

LEMMA GreatestOf ==
  ASSUME NEW n \in Nat, NEW T \in SUBSET (1 .. n), T # {}
  PROVE  \E i \in T : \A j \in T : j <= i
<1> DEFINE U == {k \in 0 .. n : n - k \in T}
<1>1. U \in SUBSET Nat /\ U # {}
  <2>1. PICK i \in T : TRUE
    OBVIOUS
  <2>2. n - i \in 0 .. n /\ n - (n - i) = i
    OBVIOUS
  <2>3. n - i \in U
    BY <2>1, <2>2
  <2>4. QED  BY <2>3
<1>2. PICK k \in U : \A j \in U : k <= j
  BY <1>1, LeastOf
<1>3. k \in 0 .. n /\ n - k \in T
  OBVIOUS
<1>4. ASSUME NEW j \in T PROVE j <= n - k
  <2>1. n - j \in 0 .. n /\ n - (n - j) = j
    OBVIOUS
  <2>2. n - j \in U
    BY <2>1
  <2>3. k <= n - j
    BY <1>2, <2>2
  <2>4. QED  BY <1>3, <2>3
<1>5. QED  BY <1>3, <1>4

LEMMA InnermostIs ==
  ASSUME NEW s \in Seq(Frames), NEW K, OfKind(s, K) # {}
  PROVE  /\ Innermost(s, K) \in 1 .. Len(s) /\ s[Innermost(s, K)].kind \in K
         /\ \A j \in 1 .. Len(s) : s[j].kind \in K => j <= Innermost(s, K)
<1>1. OfKind(s, K) \in SUBSET (1 .. Len(s)) /\ Len(s) \in Nat
  BY DEF OfKind
<1>2. \E i \in OfKind(s, K) : \A j \in OfKind(s, K) : j <= i
  BY <1>1, GreatestOf
<1>3. /\ Innermost(s, K) \in OfKind(s, K)
      /\ \A j \in OfKind(s, K) : j <= Innermost(s, K)
  BY <1>2 DEF Innermost
<1>4. QED  BY <1>3 DEF OfKind

\* Only a stack of main alone has no JavaScript in it and Zig on top.
LEMMA OutermostIsMain ==
  ASSUME NEW s, Nested(s), Outermost(s), s[Len(s)].kind = "zig"
  PROVE  s = <<Zig>>
<1> DEFINE B == {i \in 1 .. Len(s) : s[i].kind = "block"}
<1>1. /\ s \in Seq(Frames) /\ Len(s) \in Nat \ {0} /\ s[1] = Zig
      /\ \A i \in 1 .. Len(s) : s[i] \in Frames /\ s[i].kind # "js"
  BY DEF Nested, Outermost, OfKind
<1>2. B = {}
  <2> SUFFICES ASSUME B # {} PROVE FALSE
    OBVIOUS
  <2>1. PICK i \in B : \A j \in B : i <= j
    <3>1. B \in SUBSET Nat
      BY <1>1
    <3> HIDE DEF B
    <3>2. QED  BY <3>1, LeastOf
  <2>2. i \in 2 .. Len(s) /\ i - 1 \in 1 .. Len(s)
    BY <1>1, <2>1, KindsOfFrames
  <2>3. s[i - 1].kind \in {"js", "block"}
    BY <2>1, <2>2 DEF Nested
  <2>4. i - 1 \in B
    BY <1>1, <2>2, <2>3
  <2>5. QED  BY <2>1, <2>2, <2>4
<1>3. Len(s) = 1
  <2> SUFFICES ASSUME Len(s) # 1 PROVE FALSE
    OBVIOUS
  <2>1. Len(s) \in 2 .. Len(s) /\ Len(s) - 1 \in 1 .. Len(s)
    <3>1. Len(s) \in Nat \ {0}
      BY <1>1
    <3>2. \A n \in Nat : n # 0 /\ n # 1 => n \in 2 .. n /\ n - 1 \in 1 .. n
      OBVIOUS
    <3>3. QED  BY <3>1, <3>2
  <2>2. s[Len(s) - 1].kind \in {"js", "block"}
    BY <2>1 DEF Nested
  <2>3. QED  BY <1>1, <1>2, <2>1, <2>2
<1>4. QED  BY <1>1, <1>3

\* The frames below one of a nested stack are one.
LEMMA PrefixNested ==
  ASSUME NEW s, Nested(s), NEW m \in 1 .. Len(s)
  PROVE  /\ Nested(SubSeq(s, 1, m)) /\ Len(SubSeq(s, 1, m)) = m
         /\ \A i \in 1 .. m : SubSeq(s, 1, m)[i] = s[i]
<1>1. s \in Seq(Frames) /\ Len(s) \in Nat /\ m \in Nat \ {0} /\ m <= Len(s)
      /\ Len(s) <= MaxDepth
  BY DEF Nested
<1> DEFINE t == SubSeq(s, 1, m)
<1>2. t \in Seq(Frames) /\ Len(t) = m /\ \A i \in 1 .. m : t[i] = s[i]
  BY <1>1
<1> HIDE DEF t
<1>3. DOMAIN t = 1 .. m /\ DOMAIN s = 1 .. Len(s)
  BY <1>1, <1>2
<1>4. \A i \in 2 .. m : i \in 2 .. Len(s) /\ i - 1 \in 1 .. m /\ i \in 1 .. m
  BY <1>1
<1>5. \A i \in 1 .. m : i \in 1 .. Len(s)
  BY <1>1
<1>6. Nested(t)
  BY <1>1, <1>2, <1>3, <1>4, <1>5 DEF Nested
<1>7. QED  BY <1>2, <1>6 DEF t

\* A frame more, where it may lie.
LEMMA PushNested ==
  ASSUME NEW s, Nested(s), Len(s) < MaxDepth, NEW f \in Frames,
         s[Len(s)].kind \in (IF f.kind \in {"block", "zig"} THEN {"js", "block"}
                             ELSE {"zig", "try"}),
         f.kind = "try" => ~f.rethrown
  PROVE  /\ Nested(Append(s, f)) /\ Len(Append(s, f)) = Len(s) + 1
         /\ Append(s, f)[Len(s) + 1] = f
         /\ \A i \in 1 .. Len(s) : Append(s, f)[i] = s[i]
<1>1. s \in Seq(Frames) /\ Len(s) \in Nat \ {0} /\ Len(s) + 1 \in 1 .. MaxDepth
  BY DEF Nested
<1> DEFINE t == Append(s, f)
<1>2. /\ t \in Seq(Frames) /\ Len(t) = Len(s) + 1 /\ t[Len(s) + 1] = f
      /\ \A i \in 1 .. Len(s) : t[i] = s[i]
  BY <1>1
<1> HIDE DEF t
<1>3. DOMAIN t = 1 .. Len(s) + 1 /\ DOMAIN s = 1 .. Len(s)
  BY <1>1, <1>2
<1>4. \A i \in 1 .. Len(s) + 1 : i = Len(s) + 1 \/ i \in 1 .. Len(s)
  BY <1>1
<1>5. t[1] = Zig
  BY <1>1, <1>2 DEF Nested
<1>6. \A i \in DOMAIN t : t[i].kind = "try" /\ t[i].rethrown => t[i].caught # None
  BY <1>2, <1>3, <1>4 DEF Nested
<1>7. ASSUME NEW i \in 2 .. Len(t)
      PROVE  t[i - 1].kind \in (IF t[i].kind \in {"block", "zig"}
                                THEN {"js", "block"} ELSE {"zig", "try"})
  <2>1. CASE i = Len(s) + 1
    <3>1. i - 1 = Len(s) /\ Len(s) \in 1 .. Len(s)
      BY <1>1, <2>1
    <3>2. QED  BY <1>2, <2>1, <3>1
  <2>2. CASE i # Len(s) + 1
    <3>1. i \in 2 .. Len(s) /\ i \in 1 .. Len(s) /\ i - 1 \in 1 .. Len(s)
      BY <1>1, <1>2, <2>2
    <3>2. QED  BY <1>2, <3>1 DEF Nested
  <2>3. QED  BY <2>1, <2>2
<1>8. Nested(t)
  BY <1>1, <1>2, <1>5, <1>6, <1>7 DEF Nested
<1>9. QED  BY <1>2, <1>8 DEF t

\* A TryCatch that changes stays what it is.
Changed(s, k, f) == [s EXCEPT ![k] = f]

LEMMA ChangeNested ==
  ASSUME NEW s, Nested(s), NEW k \in 1 .. Len(s), NEW f \in TryCatches,
         s[k].kind = "try", f.rethrown => f.caught # None
  PROVE  /\ Nested(Changed(s, k, f)) /\ Len(Changed(s, k, f)) = Len(s)
         /\ Changed(s, k, f)[k] = f
         /\ \A i \in 1 .. Len(s) : Changed(s, k, f)[i].kind = s[i].kind
<1> DEFINE t == Changed(s, k, f)
<1>1. s \in Seq(Frames) /\ Len(s) \in 1 .. MaxDepth /\ DOMAIN s = 1 .. Len(s)
  BY DEF Nested
<1>2. f \in Frames /\ f.kind = "try"
  BY KindsOfFrames
<1>3. /\ t \in Seq(Frames) /\ Len(t) = Len(s) /\ t[k] = f
      /\ \A i \in 1 .. Len(s) : i # k => t[i] = s[i]
  BY <1>1, <1>2 DEF Changed
<1>4. DOMAIN t = 1 .. Len(s)
  BY <1>1, <1>3
<1> HIDE DEF t
<1>5. \A i \in 1 .. Len(s) : t[i].kind = s[i].kind
  BY <1>2, <1>3
<1>6. t[1] = Zig
  <2>1. 1 \in 1 .. Len(s) /\ s[1] = Zig
    BY <1>1 DEF Nested
  <2>2. QED  BY <1>3, <2>1, KindsOfFrames
<1>7. \A i \in DOMAIN t : t[i].kind = "try" /\ t[i].rethrown => t[i].caught # None
  BY <1>1, <1>3, <1>4 DEF Nested
<1>8. \A i \in 2 .. Len(s) : i \in 1 .. Len(s) /\ i - 1 \in 1 .. Len(s)
  BY <1>1
<1>9. \A i \in 2 .. Len(t) :
         t[i - 1].kind \in (IF t[i].kind \in {"block", "zig"}
                            THEN {"js", "block"} ELSE {"zig", "try"})
  BY <1>3, <1>5, <1>8 DEF Nested
<1>10. Nested(t)
  BY <1>1, <1>3, <1>6, <1>7, <1>9 DEF Nested
<1>11. QED  BY <1>3, <1>5, <1>10 DEF t
------------------------------------------------------------------------------
(***************************************************************************)
(* Where an exception goes.                                                *)
(***************************************************************************)
\* A TryCatch is given an exception.
Caught(s, k, e) == [s EXCEPT ![k].caught = e]

LEMMA CatchNested ==
  ASSUME NEW s, Nested(s), NEW k \in 1 .. Len(s), s[k].kind = "try", NEW e \in Thrown
  PROVE  /\ Nested(Caught(s, k, e)) /\ Len(Caught(s, k, e)) = Len(s)
         /\ Caught(s, k, e)[k].kind = "try" /\ Caught(s, k, e)[k].caught = e
         /\ \A i \in 1 .. Len(s) : Caught(s, k, e)[i].kind = s[i].kind
<1> DEFINE f == [s[k] EXCEPT !.caught = e]
<1>1. s[k] \in TryCatches
  BY FrameKinds DEF Nested
<1>2. f \in TryCatches /\ f.caught = e /\ f.kind = "try"
  BY <1>1 DEF TryCatches
<1>3. e # None
  BY DEF Thrown
<1>4. Caught(s, k, e) = Changed(s, k, f)
  BY DEF Caught, Changed, Nested
<1> HIDE DEF f
<1>5. QED  BY <1>2, <1>3, <1>4, ChangeNested

LEMMA SameKindsOutermost ==
  ASSUME NEW s, NEW t, Nested(s), Nested(t), Len(t) = Len(s),
         \A i \in 1 .. Len(s) : t[i].kind = s[i].kind
  PROVE  Outermost(t) <=> Outermost(s)
<1>1. DOMAIN s = 1 .. Len(s) /\ DOMAIN t = 1 .. Len(s)
  BY DEF Nested
<1>2. QED  BY <1>1 DEF Outermost, OfKind

\* What Deliver leaves: the exception has reached its TryCatch, or is scheduled,
\* or nobody is left to have it.
LEMMA DeliverReaches ==
  ASSUME NEW s, Nested(s), s[Len(s)].kind \in {"zig", "try"}, NEW e \in Thrown,
         Deliver(e, s)
  PROVE  /\ Nested(stack') /\ Len(stack') = Len(s)
         /\ stack'[Len(s)].kind = s[Len(s)].kind
         /\ scheduled' \in Thrown \cup {None}
         /\ \/ stack'[Len(s)].kind = "try" /\ stack'[Len(s)].caught # None
            \/ scheduled' # None
            \/ stack' = <<Zig>>
         /\ scheduled' \in Errors => stack'[Len(s)].kind = "zig" /\ ~Outermost(stack')
         /\ scheduled' = Termination =>
               ~Outermost(stack') \/ \E i \in DOMAIN stack' : /\ stack'[i].kind = "try"
                                                              /\ stack'[i].caught = Termination
<1>1. s \in Seq(Frames) /\ Len(s) \in 1 .. Len(s)
  BY DEF Nested
<1>2. e \in Errors \cup {Termination} /\ e # None /\ None \notin Errors
      /\ Termination \notin Errors /\ Termination # None
  BY DEF Thrown
<1>3. CASE e # Termination /\ s[Len(s)].kind = "try"
  <2>1. stack' = Caught(s, Len(s), e) /\ scheduled' = None
    BY <1>3 DEF Deliver, Caught
  <2>2. /\ Nested(stack') /\ Len(stack') = Len(s)
        /\ stack'[Len(s)].kind = "try" /\ stack'[Len(s)].caught = e
    BY <1>1, <1>3, <2>1, CatchNested
  <2>3. QED  BY <1>2, <1>3, <2>1, <2>2
<1>4. CASE e # Termination /\ s[Len(s)].kind = "zig"
  <2>1. stack' = s /\ scheduled' = IF ~Outermost(s) THEN e ELSE None
    BY <1>4 DEF Deliver
  <2>2. Outermost(s) => s = <<Zig>>
    BY <1>4, OutermostIsMain
  <2>3. CASE Outermost(s)
    BY <1>2, <1>4, <2>1, <2>2, <2>3
  <2>4. CASE ~Outermost(s)
    <3>1. stack' = s /\ scheduled' = e /\ e \in Errors
      BY <1>2, <1>4, <2>1, <2>4
    <3>2. QED  BY <1>2, <1>4, <2>4, <3>1 DEF Thrown
  <2>5. QED  BY <2>3, <2>4
<1>5. CASE e = Termination /\ OfKind(s, {"try"}) = {}
  <2>1. stack' = s /\ scheduled' = IF Outermost(s) THEN None ELSE Termination
    BY <1>5 DEF Deliver, Mark
  <2>2. s[Len(s)].kind = "zig"
    BY <1>1, <1>5 DEF OfKind
  <2>3. Outermost(s) => s = <<Zig>>
    BY <2>2, OutermostIsMain
  <2>4. QED  BY <1>2, <2>1, <2>2, <2>3 DEF Thrown
<1>6. CASE e = Termination /\ OfKind(s, {"try"}) # {}
  <2> DEFINE k == Innermost(s, {"try"})
  <2>1. stack' = Caught(s, k, Termination) /\ scheduled' = Termination
    BY <1>6 DEF Deliver, Mark, Caught
  <2>2. /\ k \in 1 .. Len(s) /\ s[k].kind = "try"
        /\ \A j \in 1 .. Len(s) : s[j].kind = "try" => j <= k
    BY <1>1, <1>6, InnermostIs
  <2> HIDE DEF k
  <2>3. /\ Nested(stack') /\ Len(stack') = Len(s)
        /\ stack'[k].kind = "try" /\ stack'[k].caught = Termination
        /\ \A i \in 1 .. Len(s) : stack'[i].kind = s[i].kind
    <3>1. Termination \in Thrown
      BY DEF Thrown
    <3>2. QED  BY <2>1, <2>2, <3>1, CatchNested
  <2>4. k \in DOMAIN stack'
    BY <2>2, <2>3 DEF Nested
  <2>5. /\ stack'[Len(s)].kind = s[Len(s)].kind
        /\ scheduled' \in Thrown \cup {None} /\ scheduled' # None
        /\ scheduled' \notin Errors
    BY <1>1, <1>2, <2>1, <2>3 DEF Thrown
  <2>6. \E i \in DOMAIN stack' : stack'[i].kind = "try" /\ stack'[i].caught = Termination
    BY <2>3, <2>4
  <2>7. QED  BY <2>3, <2>5, <2>6
<1>7. QED  BY <1>3, <1>4, <1>5, <1>6

LEMMA DeliverPreserves ==
  ASSUME NEW s, Nested(s), s[Len(s)].kind \in {"zig", "try"}, NEW e \in Thrown,
         Deliver(e, s), OthersTyped'
  PROVE  IInv'
<1> DEFINE top == stack'[Len(s)]
<1>1. Top' = top /\ top \in Frames /\ top.kind \in {"zig", "try"}
  BY DeliverReaches DEF Top, Nested
<1>2. top.kind = "zig" => top = Zig
  BY <1>1, FrameKinds
<1> HIDE DEF top
<1>3. FailureHasReason'
  BY <1>1, DeliverReaches DEF FailureHasReason, top
<1>4. ~InJavaScript'
  BY <1>1 DEF InJavaScript
<1>5. ScheduledIsOnItsWay'
  BY <1>1, <1>2, <1>4, DeliverReaches DEF ScheduledIsOnItsWay, top
<1>6. QED  BY <1>3, <1>5, DeliverReaches DEF IInv

\* An exception thrown in JavaScript goes to a try block, which goes on, or fails
\* the call that ran the JavaScript.
LEMMA UnwindPreserves ==
  ASSUME NEW s, Nested(s), s[Len(s)].kind \in {"js", "block"}, NEW e \in Thrown,
         Unwind(e, s), requested' \in BOOLEAN, requests' \in 0 .. MaxRequests
  PROVE  IInv'
<1> DEFINE n == Innermost(s, {"zig", "try"})
           blocks == OfKind(s, {"block"}) \cap (n .. Len(s))
           b == Innermost(s, {"block"})
<1>1. s \in Seq(Frames) /\ Len(s) \in Nat \ {0} /\ s[1] = Zig /\ DOMAIN s = 1 .. Len(s)
      /\ \A i \in 1 .. Len(s) : s[i] \in Frames
  BY DEF Nested
<1>2. /\ n \in 1 .. Len(s) /\ s[n].kind \in {"zig", "try"}
      /\ \A j \in 1 .. Len(s) : s[j].kind \in {"zig", "try"} => j <= n
  <2>1. 1 \in OfKind(s, {"zig", "try"})
    BY <1>1, KindsOfFrames DEF OfKind
  <2>2. QED  BY <1>1, <2>1, InnermostIs
<1>3. CASE e # Termination /\ blocks # {}
  <2>1. stack' = SubSeq(s, 1, b - 1) /\ scheduled' = None /\ result' = "none"
    BY <1>3 DEF Unwind
  <2>2. b \in 1 .. Len(s) /\ s[b].kind = "block"
    BY <1>1, <1>3, InnermostIs
  <2>3. b \in 2 .. Len(s) /\ b - 1 \in 1 .. Len(s)
    <3>1. b # 1
      BY <1>1, <2>2, KindsOfFrames
    <3>2. QED  BY <1>1, <2>2, <3>1
  <2>4. s[b - 1].kind \in {"js", "block"}
    BY <2>2, <2>3 DEF Nested
  <2> HIDE DEF b
  <2>5. Nested(stack') /\ Top' = s[b - 1]
    <3>1. b - 1 \in 1 .. b - 1
      BY <2>3
    <3>2. QED  BY <2>1, <2>3, <3>1, PrefixNested DEF Top
  <2>6. OthersTyped'
    BY <2>1 DEF OthersTyped
  <2>7. FailureHasReason' /\ ScheduledIsOnItsWay'
    BY <2>1 DEF FailureHasReason, Failures, ScheduledIsOnItsWay, Thrown
  <2>8. QED  BY <2>5, <2>6, <2>7 DEF IInv
<1>4. CASE ~(e # Termination /\ blocks # {})
  <2>1. Deliver(e, SubSeq(s, 1, n)) /\ result' = Failure[s[n + 1].wrapper]
    BY <1>4 DEF Unwind
  <2> HIDE DEF n
  <2>2. n + 1 \in 2 .. Len(s) /\ n + 1 \in 1 .. Len(s)
    <3>1. n # Len(s)
      BY <1>2
    <3>2. Len(s) \in Nat /\ n \in 1 .. Len(s)
      BY <1>1, <1>2
    <3>3. QED  BY <3>1, <3>2
  <2>3. s[n + 1].kind = "js"
    <3>1. s[n + 1].kind \notin {"zig", "try"}
      BY <1>2, <2>2
    <3>2. (n + 1) - 1 = n
      BY <1>2
    <3>3. s[n].kind \in (IF s[n + 1].kind \in {"block", "zig"}
                         THEN {"js", "block"} ELSE {"zig", "try"})
      BY <2>2, <3>2 DEF Nested
    <3>4. s[n + 1].kind # "block"
      BY <1>2, <3>3
    <3>5. QED  BY <1>1, <2>2, <3>1, <3>4, FrameKinds
  <2>4. s[n + 1].wrapper \in Wrappers
    BY <1>1, <2>2, <2>3, FrameKinds
  <2>5. result' \in {"none", "value", "present", "absent"} \cup Failures
    BY <2>1, <2>4 DEF Failure, Wrappers, Failures
  <2>6. /\ Nested(SubSeq(s, 1, n)) /\ Len(SubSeq(s, 1, n)) = n
        /\ SubSeq(s, 1, n)[n] = s[n]
    <3>1. n \in 1 .. n
      BY <1>2
    <3>2. QED  BY <1>2, <3>1, PrefixNested
  <2>7. OthersTyped'
    <3>1. scheduled' \in Thrown \cup {None}
      BY <1>2, <2>1, <2>6, DeliverReaches
    <3>2. QED  BY <2>5, <3>1 DEF OthersTyped
  <2>8. QED  BY <1>2, <2>1, <2>6, <2>7, DeliverPreserves
<1>5. QED  BY <1>3, <1>4
------------------------------------------------------------------------------
(***************************************************************************)
(* The actions.                                                            *)
(***************************************************************************)
LEMMA TopIs ==
  ASSUME IInv
  PROVE  /\ stack \in Seq(Frames) /\ Len(stack) \in 1 .. MaxDepth /\ Len(stack) \in 1 .. Len(stack)
         /\ Top = stack[Len(stack)] /\ Top \in Frames
         /\ Top.kind \in {"zig", "block", "js", "try"}
BY FrameKinds DEF IInv, Nested, Top

\* Below a frame that is not main's there is the stack that it was pushed on.
LEMMA BelowIs ==
  ASSUME IInv, Top.kind # "zig" \/ Len(stack) > 1
  PROVE  /\ Len(stack) > 1 /\ Nested(Below)
         /\ Below[Len(Below)].kind \in
               (IF Top.kind \in {"block", "zig"} THEN {"js", "block"} ELSE {"zig", "try"})
<1>1. Len(stack) \in Nat \ {0} /\ Nested(stack) /\ Top = stack[Len(stack)]
  BY TopIs DEF IInv
<1>2. Len(stack) > 1
  <2>1. stack[1].kind = "zig"
    BY <1>1, KindsOfFrames DEF Nested
  <2>2. Len(stack) = 1 => Top.kind = "zig"
    BY <1>1, <2>1
  <2>3. QED  BY <1>1, <2>2
<1> DEFINE m == Len(stack) - 1
<1>3. m \in 1 .. Len(stack) /\ Len(stack) \in 2 .. Len(stack) /\ m \in 1 .. m
  BY <1>1, <1>2
<1>4. Below = SubSeq(stack, 1, m)
  BY DEF Below
<1>5. stack[m].kind \in (IF Top.kind \in {"block", "zig"} THEN {"js", "block"}
                         ELSE {"zig", "try"})
  BY <1>1, <1>3 DEF Nested
<1> HIDE DEF m
<1>6. Nested(Below) /\ Len(Below) = m /\ Below[m] = stack[m]
  BY <1>1, <1>3, <1>4, PrefixNested
<1>7. QED  BY <1>2, <1>5, <1>6

\* Whatever happens to the stack, nothing has failed and nothing is scheduled.
LEMMA QuietlyPreserves ==
  ASSUME Nested(stack'), OthersTyped', scheduled' = None, result' \notin Failures
  PROVE  IInv'
BY DEF IInv, FailureHasReason, ScheduledIsOnItsWay, Thrown

LEMMA NothingFailedInJavaScript ==
  ASSUME IInv, InJavaScript
  PROVE  scheduled = None /\ result \notin Failures
<1>1. scheduled = None /\ Top.kind \in {"js", "block"}
  BY DEF IInv, ScheduledIsOnItsWay, InJavaScript
<1>2. stack # <<Zig>>
  <2> SUFFICES ASSUME stack = <<Zig>> PROVE FALSE
    OBVIOUS
  <2>1. Top = Zig
    BY DEF Top
  <2>2. QED  BY <1>1, <2>1, KindsOfFrames
<1>3. QED  BY <1>1, <1>2 DEF IInv, FailureHasReason

LEMMA PushPreserves ==
  ASSUME IInv, NEW f \in Frames, Push(f), f.kind = "try" => ~f.rethrown,
         Top.kind \in (IF f.kind \in {"block", "zig"} THEN {"js", "block"} ELSE {"zig", "try"})
  PROVE  Nested(stack')
<1>1. Nested(stack) /\ Len(stack) < MaxDepth /\ stack' = Append(stack, f)
  BY DEF IInv, Push
<1>2. QED  BY <1>1, PushNested DEF Top

LEMMA TryCatchInitPreserves == ASSUME IInv, TryCatchInit PROVE IInv'
<1> DEFINE f == [kind |-> "try", caught |-> None, rethrown |-> FALSE]
<1>1. Push(f) /\ Top.kind \in {"zig", "try"} /\ scheduled = None /\ result' = "none"
      /\ UNCHANGED <<scheduled, requested, requests>>
  BY DEF TryCatchInit, InZig, Calm
<1>2. f \in TryCatches /\ ~f.rethrown /\ f.kind = "try"
  BY DEF TryCatches
<1> HIDE DEF f
<1>3. Nested(stack')
  BY <1>1, <1>2, KindsOfFrames, PushPreserves
<1>4. OthersTyped'
  BY <1>1 DEF IInv, OthersTyped
<1>5. QED  BY <1>1, <1>3, <1>4, QuietlyPreserves DEF Failures

LEMMA rethrowPreserves == ASSUME IInv, rethrow PROVE IInv'
<1> DEFINE k == Len(stack)
           f == [Top EXCEPT !.rethrown = TRUE]
<1>1. /\ Top.kind = "try" /\ Top.caught \in Errors /\ scheduled = None
      /\ UNCHANGED <<scheduled, requested, requests, result>>
  BY DEF rethrow
<1>2. k \in 1 .. Len(stack) /\ Top = stack[k] /\ Top \in TryCatches
  BY <1>1, TopIs, FrameKinds
<1>3. f \in TryCatches /\ f.caught = Top.caught /\ f.kind = "try"
  BY <1>1, <1>2 DEF TryCatches
<1>4. stack' = Changed(stack, k, f)
  BY <1>2 DEF rethrow, Changed, IInv, Nested
<1>5. Top.caught # None
  BY <1>1
<1> HIDE DEF k, f
<1>6. Nested(stack') /\ Len(stack') = Len(stack) /\ stack'[k] = f
  BY <1>1, <1>2, <1>3, <1>4, <1>5, ChangeNested DEF IInv
<1>7. Top' = f
  BY <1>6 DEF Top, k
<1>8. OthersTyped'
  BY <1>1 DEF IInv, OthersTyped
<1>9. FailureHasReason' /\ ScheduledIsOnItsWay'
  BY <1>1, <1>3, <1>5, <1>7 DEF FailureHasReason, ScheduledIsOnItsWay, InJavaScript, Thrown
<1>10. QED  BY <1>6, <1>8, <1>9 DEF IInv

LEMMA TryCatchDeinitPreserves == ASSUME IInv, TryCatchDeinit PROVE IInv'
<1>1. /\ Top.kind = "try" /\ result' = "none" /\ UNCHANGED <<requested, requests>>
  BY DEF TryCatchDeinit
<1>2. /\ Nested(Below) /\ Below[Len(Below)].kind \in {"zig", "try"}
  BY <1>1, BelowIs
<1>3. Top \in TryCatches /\ (Top.rethrown => Top.caught # None)
  <2>1. Len(stack) \in DOMAIN stack /\ Top = stack[Len(stack)] /\ Top \in Frames
    BY TopIs
  <2>2. QED  BY <1>1, <2>1, FrameKinds DEF IInv, Nested
<1>4. CASE Top.rethrown
  <2>1. Deliver(Top.caught, Below)
    BY <1>4 DEF TryCatchDeinit
  <2>2. Top.caught \in Thrown
    BY <1>3, <1>4, KindsOfFrames
  <2>3. OthersTyped'
    BY <1>1, <1>2, <2>1, <2>2, DeliverReaches DEF IInv, OthersTyped
  <2>4. QED  BY <1>2, <2>1, <2>2, <2>3, DeliverPreserves
<1>5. CASE ~Top.rethrown
  <2>1. /\ stack' = Below
        /\ scheduled' = IF Outermost(Below) THEN None ELSE scheduled
    BY <1>5 DEF TryCatchDeinit
  <2>2. OthersTyped'
    BY <1>1, <2>1 DEF IInv, OthersTyped
  <2>3. Top'.kind \in {"zig", "try"}
    BY <1>2, <2>1 DEF Top
  <2>4. scheduled \notin Errors
    BY <1>1, KindsOfFrames DEF IInv, ScheduledIsOnItsWay
  <2>5. scheduled' # None => ~Outermost(stack') /\ scheduled' \notin Errors
    BY <2>1, <2>4
  <2>6. ScheduledIsOnItsWay'
    BY <2>3, <2>5 DEF ScheduledIsOnItsWay, InJavaScript, Thrown
  <2>7. QED  BY <1>1, <1>2, <2>1, <2>2, <2>6 DEF IInv, FailureHasReason, Failures
<1>6. QED  BY <1>4, <1>5

LEMMA throwExceptionPreserves ==
  ASSUME NEW e \in Errors, IInv, throwException(e) PROVE IInv'
<1>1. /\ Deliver(e, stack) /\ Top.kind \in {"zig", "try"} /\ result' = "none"
      /\ UNCHANGED <<requested, requests>>
  BY DEF throwException, InZig
<1>2. Nested(stack) /\ stack[Len(stack)].kind \in {"zig", "try"} /\ e \in Thrown
  BY <1>1 DEF IInv, Top, Thrown
<1>3. OthersTyped'
  BY <1>1, <1>2, DeliverReaches DEF IInv, OthersTyped
<1>4. QED  BY <1>1, <1>2, <1>3, DeliverPreserves

LEMMA CallPreserves == ASSUME NEW w \in Wrappers, IInv, Call(w) PROVE IInv'
<1>1. Top.kind \in {"zig", "try"} /\ UNCHANGED <<scheduled, requested, requests>>
  BY DEF Call, InZig
<1>2. CASE Calm /\ Push(Js(w)) /\ result' = "none"
  <2>1. Nested(stack')
    BY <1>1, <1>2, KindsOfFrames, PushPreserves
  <2>2. OthersTyped' /\ scheduled' = None
    BY <1>1, <1>2 DEF IInv, OthersTyped, Calm
  <2>3. QED  BY <1>2, <2>1, <2>2, QuietlyPreserves DEF Failures
<1>3. CASE scheduled = Termination /\ result' = Failure[w] /\ UNCHANGED stack
  <2>1. result' \in {"none", "value", "present", "absent"} \cup Failures
    BY <1>3 DEF Failure, Wrappers, Failures
  <2>2. OthersTyped' /\ Nested(stack')
    BY <1>1, <1>3, <2>1 DEF IInv, OthersTyped
  <2>3. FailureHasReason'
    BY <1>1, <1>3 DEF FailureHasReason
  <2>4. ScheduledIsOnItsWay'
    BY <1>1, <1>3 DEF IInv, ScheduledIsOnItsWay, InJavaScript, Top
  <2>5. QED  BY <2>2, <2>3, <2>4 DEF IInv
<1>4. QED  BY <1>2, <1>3 DEF Call

LEMMA ReturnPreserves == ASSUME IInv, Return PROVE IInv'
<1>1. Top = Zig /\ Len(stack) > 1 /\ UNCHANGED <<requested, requests>>
  BY DEF Return
<1>2. Nested(Below) /\ Below[Len(Below)].kind \in {"js", "block"}
  BY <1>1, BelowIs, KindsOfFrames
<1>3. CASE scheduled = None
  <2>1. stack' = Below /\ result' = "none" /\ scheduled' = None
    BY <1>3 DEF Return
  <2>2. OthersTyped'
    BY <1>1, <2>1 DEF IInv, OthersTyped
  <2>3. QED  BY <1>2, <2>1, <2>2, QuietlyPreserves DEF Failures
<1>4. CASE scheduled # None
  <2>1. Unwind(scheduled, Below) /\ scheduled \in Thrown
    BY <1>4 DEF Return, IInv, OthersTyped
  <2>2. requested' \in BOOLEAN /\ requests' \in 0 .. MaxRequests
    BY <1>1 DEF IInv, OthersTyped
  <2>3. QED  BY <1>2, <2>1, <2>2, UnwindPreserves
<1>5. QED  BY <1>3, <1>4

LEMMA TerminationPreserves ==
  ASSUME IInv, terminateExecution \/ cancelTerminateExecution PROVE IInv'
<1>1. CASE terminateExecution
  <2>1. /\ requests < MaxRequests /\ requested' = TRUE /\ requests' = requests + 1
        /\ UNCHANGED <<stack, scheduled, result>>
    BY <1>1 DEF terminateExecution
  <2>2. OthersTyped'
    BY <2>1 DEF IInv, OthersTyped
  <2>3. QED
    BY <2>1, <2>2 DEF IInv, FailureHasReason, ScheduledIsOnItsWay, InJavaScript, Top
<1>2. CASE cancelTerminateExecution
  <2>1. /\ requested' = FALSE /\ result' = "none" /\ UNCHANGED <<stack, requests>>
        /\ scheduled' = IF scheduled = Termination THEN None ELSE scheduled
    BY <1>2 DEF cancelTerminateExecution
  <2>2. OthersTyped'
    BY <2>1 DEF IInv, OthersTyped
  <2>3. FailureHasReason' /\ ScheduledIsOnItsWay'
    BY <2>1 DEF IInv, FailureHasReason, Failures, ScheduledIsOnItsWay, InJavaScript, Top, Thrown
  <2>4. QED  BY <2>1, <2>2, <2>3 DEF IInv
<1>3. QED  BY <1>1, <1>2

LEMMA InJavaScriptPreserves ==
  ASSUME IInv, callback \/ tryBlock \/ endBlock \/ jsReturn PROVE IInv'
<1>1. Top.kind \in {"js", "block"} /\ InJavaScript
      /\ UNCHANGED <<scheduled, requested, requests>>
  BY KindsOfFrames DEF callback, tryBlock, endBlock, jsReturn, InJavaScript
<1>2. scheduled' = None /\ result \notin Failures
  BY <1>1, NothingFailedInJavaScript
<1>3. CASE callback \/ tryBlock
  <2>1. Nested(stack')
    BY <1>1, <1>3, KindsOfFrames, PushPreserves DEF callback, tryBlock
  <2>2. OthersTyped' /\ result' \notin Failures
    BY <1>1, <1>2, <1>3 DEF callback, tryBlock, IInv, OthersTyped, Failures
  <2>3. QED  BY <1>2, <2>1, <2>2, QuietlyPreserves
<1>4. CASE endBlock \/ jsReturn
  <2>1. stack' = Below /\ Nested(Below)
    BY <1>1, <1>4, BelowIs DEF endBlock, jsReturn
  <2>2. result' = result \/ result' \in {"value", "present", "absent"}
    BY <1>4 DEF endBlock, jsReturn, Success
  <2>3. OthersTyped' /\ result' \notin Failures
    BY <1>1, <1>2, <2>2 DEF IInv, OthersTyped, Failures
  <2>4. QED  BY <1>2, <2>1, <2>3, QuietlyPreserves
<1>5. QED  BY <1>3, <1>4

LEMMA ThrowPreserves ==
  ASSUME IInv, noticeTermination \/ \E e \in Errors : jsThrow(e) PROVE IInv'
<1>1. PICK e \in Thrown : Unwind(e, stack)
  BY DEF noticeTermination, jsThrow, Thrown
<1>2. Nested(stack) /\ stack[Len(stack)].kind \in {"js", "block"}
  BY DEF noticeTermination, jsThrow, InJavaScript, Top, IInv
<1>3. requested' \in BOOLEAN /\ requests' \in 0 .. MaxRequests
  BY DEF noticeTermination, jsThrow, IInv, OthersTyped
<1>4. QED  BY <1>1, <1>2, <1>3, UnwindPreserves
------------------------------------------------------------------------------
LEMMA InitIInv == Init => IInv
<1> SUFFICES ASSUME Init PROVE IInv
  OBVIOUS
<1>1. /\ stack = <<Zig>> /\ scheduled = None /\ requested = FALSE /\ requests = 0
      /\ result = "none"
  BY DEF Init
<1>2. Nested(stack)
  <2>1. stack \in Seq(Frames) /\ Len(stack) = 1 /\ stack[1] = Zig
    BY <1>1, KindsOfFrames
  <2>2. 1 \in 1 .. MaxDepth
    BY DEF ExceptionsAssumption
  <2>3. QED  BY <2>1, <2>2, KindsOfFrames DEF Nested
<1>3. OthersTyped
  <2>1. 0 \in 0 .. MaxRequests
    BY DEF ExceptionsAssumption
  <2>2. scheduled \in Thrown \cup {None} /\ requested \in BOOLEAN
    BY <1>1
  <2>3. requests \in 0 .. MaxRequests
    BY <1>1, <2>1
  <2>4. result \in {"none", "value", "present", "absent"} \cup Failures
    BY <1>1
  <2>5. QED  BY <2>2, <2>3, <2>4 DEF OthersTyped
<1>4. Top.kind = "zig"
  BY <1>1, KindsOfFrames DEF Top
<1>5. QED
  BY <1>1, <1>2, <1>3, <1>4 DEF IInv, FailureHasReason, ScheduledIsOnItsWay, InJavaScript, Thrown

LEMMA NextPreserves == IInv /\ [Next]_vars => IInv'
<1> SUFFICES ASSUME IInv, [Next]_vars PROVE IInv'
  OBVIOUS
<1>1. CASE TryCatchInit \/ rethrow \/ TryCatchDeinit
  BY <1>1, TryCatchInitPreserves, rethrowPreserves, TryCatchDeinitPreserves
<1>2. ASSUME NEW e \in Errors, throwException(e) PROVE IInv'
  BY <1>2, throwExceptionPreserves
<1>3. ASSUME NEW w \in Wrappers, Call(w) PROVE IInv'
  BY <1>3, CallPreserves
<1>4. CASE Return \/ terminateExecution \/ cancelTerminateExecution
  BY <1>4, ReturnPreserves, TerminationPreserves
<1>5. CASE JavaScript
  BY <1>5, InJavaScriptPreserves, ThrowPreserves DEF JavaScript
<1>6. CASE UNCHANGED vars
  BY <1>6 DEF vars, IInv, OthersTyped, FailureHasReason, ScheduledIsOnItsWay,
              InJavaScript, Top
<1>7. QED  BY <1>1, <1>2, <1>3, <1>4, <1>5, <1>6 DEF Next, Embedder

LEMMA Invariance == Spec => []IInv
BY InitIInv, NextPreserves, PTL DEF Spec

\* Blocks lie in JavaScript, callbacks on top of it, TryCatches in Zig.
THEOREM ExceptionTypes == Spec => []TypeOK
BY Invariance, IInvTypeOK, PTL

\* A Zig function that is told of a failure has the exception to look at.
THEOREM FailuresHaveReasons == Spec => []FailureHasReason
<1>1. IInv => FailureHasReason
  BY DEF IInv
<1>2. QED  BY <1>1, Invariance, PTL

\* Nothing is scheduled that nobody waits for, and nothing while JavaScript runs.
THEOREM ScheduledReaches == Spec => []ScheduledIsOnItsWay
<1>1. IInv => ScheduledIsOnItsWay
  BY DEF IInv
<1>2. QED  BY <1>1, Invariance, PTL
------------------------------------------------------------------------------
(***************************************************************************)
(* Exceptions implements StructuredExceptions.                             *)
(***************************************************************************)
\* A stack as StructuredExceptions sees it, and what is scheduled.
View(s) == [i \in DOMAIN s |-> KindOf(s[i])]
FlyingOf(x) == IF x \in Errors THEN x ELSE None

\* Only the innermost TryCatch is about to throw again, and it has an error to throw.
OnlyTopRethrows ==
    \A i \in 1 .. Len(stack) :
       KindOf(stack[i]) = "rethrowing" => i = Len(stack) /\ stack[i].caught \in Errors

LEMMA KindsSeen ==
  ASSUME NEW f \in Frames
  PROVE  /\ f.kind \in {"zig", "js"} => KindOf(f) = "plain"
         /\ f.kind = "block" => KindOf(f) = "block"
         /\ f.kind = "try" => KindOf(f) = IF f.rethrown THEN "rethrowing" ELSE "catching"
         /\ KindOf(f) \in {"plain", "block", "catching", "rethrowing"}
         /\ KindOf(f) = "rethrowing" <=> f.kind = "try" /\ f.rethrown
<1>1. f.kind \in {"zig", "block", "js", "try"}
  BY FrameKinds
<1>2. QED  BY <1>1 DEF KindOf

LEMMA ViewIs ==
  ASSUME NEW s, Nested(s)
  PROVE  /\ s \in Seq(Frames) /\ Len(s) \in Nat \ {0} /\ DOMAIN s = 1 .. Len(s)
         /\ View(s) \in Seq({"plain", "block", "catching", "rethrowing"})
         /\ Len(View(s)) = Len(s) /\ DOMAIN View(s) = 1 .. Len(s)
         /\ \A i \in 1 .. Len(s) : View(s)[i] = KindOf(s[i])
<1>1. s \in Seq(Frames) /\ Len(s) \in Nat \ {0} /\ DOMAIN s = 1 .. Len(s)
  BY DEF Nested
<1>2. \A i \in 1 .. Len(s) : KindOf(s[i]) \in {"plain", "block", "catching", "rethrowing"}
  BY <1>1, KindsSeen
<1>3. View(s) = [i \in 1 .. Len(s) |-> KindOf(s[i])]
  BY <1>1 DEF View
<1>4. QED  BY <1>1, <1>2, <1>3

\* Stacks that look the same frame by frame look the same.
LEMMA SameView ==
  ASSUME NEW s, NEW t, Nested(s), Nested(t), Len(t) = Len(s),
         \A i \in 1 .. Len(s) : KindOf(t[i]) = KindOf(s[i])
  PROVE  View(t) = View(s)
<1>1. DOMAIN s = 1 .. Len(s) /\ DOMAIN t = 1 .. Len(s)
  BY ViewIs
<1>2. QED  BY <1>1 DEF View

LEMMA ViewOfPrefix ==
  ASSUME NEW s, Nested(s), NEW m \in 1 .. Len(s)
  PROVE  View(SubSeq(s, 1, m)) = SubSeq(View(s), 1, m)
<1> DEFINE t == SubSeq(s, 1, m)
           u == SubSeq(View(s), 1, m)
<1>1. Nested(t) /\ Len(t) = m /\ \A i \in 1 .. m : t[i] = s[i]
  BY PrefixNested
<1>2. /\ Len(s) \in Nat /\ m \in Nat \ {0} /\ m <= Len(s)
      /\ View(s) \in Seq({"plain", "block", "catching", "rethrowing"})
      /\ Len(View(s)) = Len(s)
      /\ \A i \in 1 .. Len(s) : View(s)[i] = KindOf(s[i])
  BY ViewIs
<1>3. u = [i \in 1 .. m |-> View(s)[i]]
  BY <1>2
<1>4. \A i \in 1 .. m : i \in 1 .. Len(s)
  BY <1>2
<1>5. DOMAIN t = 1 .. m
  BY <1>1, ViewIs
<1> HIDE DEF t, u
<1>6. View(t) = [i \in 1 .. m |-> KindOf(s[i])]
  BY <1>1, <1>5 DEF View
<1>7. QED  BY <1>2, <1>3, <1>4, <1>6 DEF t, u

LEMMA PrefixOfPrefix ==
  ASSUME NEW s, Nested(s), NEW k \in 1 .. Len(s), NEW m \in 1 .. k
  PROVE  SubSeq(SubSeq(s, 1, k), 1, m) = SubSeq(s, 1, m) /\ m \in 1 .. Len(s)
<1>1. s \in Seq(Frames) /\ Len(s) \in Nat
  BY ViewIs
<1>2. m \in 1 .. Len(s)
  BY <1>1
<1>3. Nested(SubSeq(s, 1, k)) /\ Len(SubSeq(s, 1, k)) = k
      /\ \A i \in 1 .. k : SubSeq(s, 1, k)[i] = s[i]
  BY PrefixNested
<1> DEFINE t == SubSeq(s, 1, k)
<1>4. t \in Seq(Frames) /\ Len(t) = k /\ \A i \in 1 .. k : t[i] = s[i]
  BY <1>3, ViewIs
<1> HIDE DEF t
<1>5. SubSeq(t, 1, m) = [i \in 1 .. m |-> t[i]]
  BY <1>4
<1>6. SubSeq(s, 1, m) = [i \in 1 .. m |-> s[i]]
  BY <1>1
<1>7. \A i \in 1 .. m : t[i] = s[i]
  BY <1>4
<1>8. QED  BY <1>2, <1>5, <1>6, <1>7 DEF t

LEMMA WholePrefix ==
  ASSUME NEW s, Nested(s)
  PROVE  SubSeq(s, 1, Len(s)) = s
<1>1. s \in Seq(Frames)
  BY ViewIs
<1>2. QED  BY <1>1

\* A TryCatch that is given an exception looks as before.
LEMMA CatchLooksAlike ==
  ASSUME NEW s, Nested(s), NEW k \in 1 .. Len(s), s[k].kind = "try", NEW e \in Thrown
  PROVE  View(Caught(s, k, e)) = View(s)
<1>1. Nested(Caught(s, k, e)) /\ Len(Caught(s, k, e)) = Len(s)
  BY CatchNested
<1>2. s[k] \in TryCatches /\ DOMAIN s = 1 .. Len(s)
  BY ViewIs, FrameKinds
<1>3. ASSUME NEW i \in 1 .. Len(s) PROVE KindOf(Caught(s, k, e)[i]) = KindOf(s[i])
  <2>1. CASE i = k
    <3>1. Caught(s, k, e)[k] = [s[k] EXCEPT !.caught = e]
      BY <1>2 DEF Caught
    <3>2. /\ Caught(s, k, e)[k] \in TryCatches
          /\ Caught(s, k, e)[k].rethrown = s[k].rethrown
      BY <1>2, <3>1 DEF TryCatches
    <3>3. QED  BY <1>2, <2>1, <3>2, KindsOfFrames, KindsSeen
  <2>2. CASE i # k
    BY <1>2, <2>2 DEF Caught
  <2>3. QED  BY <2>1, <2>2
<1>4. QED  BY <1>1, <1>3, SameView

\* So does every stack that an exception is delivered to, and a termination is
\* no error on its way.
LEMMA DeliverLooksAlike ==
  ASSUME NEW s, Nested(s), NEW e \in Thrown, Deliver(e, s)
  PROVE  View(stack') = View(s) /\ (e = Termination => scheduled' \notin Errors)
<1>1. s \in Seq(Frames) /\ Len(s) \in 1 .. Len(s)
  BY ViewIs
<1>2. CASE e = Termination /\ OfKind(s, {"try"}) # {}
  <2> DEFINE k == Innermost(s, {"try"})
  <2>1. k \in 1 .. Len(s) /\ s[k].kind = "try"
    BY <1>1, <1>2, InnermostIs
  <2>2. stack' = Caught(s, k, e) /\ scheduled' = Termination
    BY <1>2 DEF Deliver, Mark, Caught
  <2> HIDE DEF k
  <2>3. QED  BY <2>1, <2>2, CatchLooksAlike
<1>3. CASE e = Termination /\ OfKind(s, {"try"}) = {}
  BY <1>3 DEF Deliver, Mark
<1>4. CASE e # Termination /\ s[Len(s)].kind = "try"
  <2>1. stack' = Caught(s, Len(s), e)
    BY <1>4 DEF Deliver, Caught
  <2>2. QED  BY <1>1, <1>4, <2>1, CatchLooksAlike
<1>5. CASE e # Termination /\ s[Len(s)].kind # "try"
  BY <1>5 DEF Deliver
<1>6. QED  BY <1>2, <1>3, <1>4, <1>5

\* An error e flies: from the frames F, of which those above frame m have ended,
\* to the frames G, and g is on its way then.
Arrives(F, n, m) == n \in 1 .. m /\ \A i \in n + 1 .. m : F[i] = "plain"
Flies(F, G, e, g, m) ==
    \/ \E n \in 1 .. m :
         /\ Arrives(F, n, m)
         /\ \/ F[n] \in {"catching", "rethrowing"} /\ G = SubSeq(F, 1, n) /\ g = None
            \/ F[n] = "block" /\ G = SubSeq(F, 1, n - 1) /\ g = None
            \/ n > 1 /\ F[n] = "plain" /\ G = SubSeq(F, 1, n) /\ g = e
    \/ Arrives(F, 1, m) /\ F[1] = "plain" /\ G = SubSeq(F, 1, 1) /\ g = None

LEMMA FliesIsFly ==
  ASSUME NEW e, NEW m,
         Flies(View(stack), View(stack'), e, FlyingOf(scheduled'), m)
  PROVE  Abstract!Fly(e, m)
BY DEF Flies, Arrives, View, FlyingOf, Abstract!Fly, Abstract!Catch, Abstract!Pass,
       Abstract!Report, Abstract!Reaches

\* What Deliver does with an error that comes to frame k of t.
LEMMA DeliverFlies ==
  ASSUME NEW t, Nested(t), NEW k \in 1 .. Len(t), t[k].kind \in {"zig", "try"},
         NEW m \in k .. Len(t), \A i \in k + 1 .. m : KindOf(t[i]) = "plain",
         NEW e \in Errors, Deliver(e, SubSeq(t, 1, k))
  PROVE  Flies(View(t), View(stack'), e, FlyingOf(scheduled'), m)
<1> DEFINE s == SubSeq(t, 1, k)
           F == View(t)
<1>1. /\ Nested(s) /\ Len(s) = k /\ s[k] = t[k] /\ View(s) = SubSeq(F, 1, k)
  <2>1. k \in 1 .. k
    OBVIOUS
  <2>2. QED  BY <2>1, PrefixNested, ViewOfPrefix
<1>2. /\ Len(t) \in Nat /\ \A i \in 1 .. Len(t) : F[i] = KindOf(t[i]) /\ t[i] \in Frames
  BY ViewIs
<1>3. Arrives(F, k, m)
  <2>1. k \in 1 .. m /\ \A i \in k + 1 .. m : i \in 1 .. Len(t)
    BY <1>2
  <2>2. QED  BY <1>2, <2>1 DEF Arrives
<1>4. e \in Thrown /\ e # Termination
  BY DEF Thrown
<1>5. View(stack') = SubSeq(F, 1, k)
  BY <1>1, <1>4, DeliverLooksAlike
<1>6. k \in 1 .. m
  BY <1>3 DEF Arrives
<1>7. CASE t[k].kind = "try"
  <2>1. scheduled' = None
    BY <1>1, <1>4, <1>7 DEF Deliver
  <2>2. F[k] \in {"catching", "rethrowing"}
    BY <1>2, <1>7, KindsSeen
  <2>3. FlyingOf(scheduled') = None
    BY <2>1 DEF FlyingOf
  <2> HIDE DEF F, s
  <2>4. QED  BY <1>3, <1>5, <1>6, <2>2, <2>3 DEF Flies, F
<1>8. CASE t[k].kind = "zig"
  <2>1. scheduled' = IF ~Outermost(s) THEN e ELSE None
    BY <1>1, <1>4, <1>8 DEF Deliver
  <2>2. F[k] = "plain"
    BY <1>2, <1>8, KindsSeen
  <2>3. CASE Outermost(s)
    <3>1. s = <<Zig>>
      BY <1>1, <1>8, <2>3, OutermostIsMain
    <3>2. k = 1
      BY <1>1, <3>1
    <3>3. FlyingOf(scheduled') = None
      BY <2>1, <2>3 DEF FlyingOf
    <3> HIDE DEF F, s
    <3>4. QED  BY <1>3, <1>5, <2>2, <3>2, <3>3 DEF Flies, F
  <2>4. CASE ~Outermost(s)
    <3>1. k > 1
      <4> SUFFICES ASSUME k = 1 PROVE FALSE
        OBVIOUS
      <4>1. DOMAIN s = 1 .. 1
        BY <1>1, ViewIs
      <4>2. s[1].kind # "js"
        BY <1>1, <1>8
      <4>3. Outermost(s)
        BY <4>1, <4>2 DEF Outermost, OfKind
      <4>4. QED  BY <2>4, <4>3
    <3>2. FlyingOf(scheduled') = e
      BY <2>1, <2>4 DEF FlyingOf
    <3> HIDE DEF F, s
    <3>3. QED  BY <1>3, <1>5, <1>6, <2>2, <3>1, <3>2 DEF Flies, F
  <2>5. QED  BY <2>3, <2>4
<1>9. QED  BY <1>7, <1>8

\* Where Unwind takes an exception to: a try block b of the JavaScript on top, or
\* the Zig function n below it; above it there are but plain frames.
LEMMA UnwindGoes ==
  ASSUME NEW s, Nested(s), s[Len(s)].kind \in {"js", "block"}, NEW e \in Thrown,
         Unwind(e, s)
  PROVE  \/ /\ e # Termination
            /\ \E b \in 2 .. Len(s) :
                  /\ s[b].kind = "block"
                  /\ \A i \in b + 1 .. Len(s) : KindOf(s[i]) = "plain"
                  /\ stack' = SubSeq(s, 1, b - 1) /\ scheduled' = None
         \/ \E n \in 1 .. Len(s) - 1 :
               /\ s[n].kind \in {"zig", "try"}
               /\ e # Termination => \A i \in n + 1 .. Len(s) : KindOf(s[i]) = "plain"
               /\ Deliver(e, SubSeq(s, 1, n))
<1> DEFINE n == Innermost(s, {"zig", "try"})
           blocks == OfKind(s, {"block"}) \cap (n .. Len(s))
           b == Innermost(s, {"block"})
<1>1. s \in Seq(Frames) /\ Len(s) \in Nat \ {0} /\ s[1] = Zig /\ DOMAIN s = 1 .. Len(s)
      /\ \A i \in 1 .. Len(s) : s[i] \in Frames
  BY DEF Nested
<1>2. /\ n \in 1 .. Len(s) /\ s[n].kind \in {"zig", "try"}
      /\ \A j \in 1 .. Len(s) : s[j].kind \in {"zig", "try"} => j <= n
  <2>1. 1 \in OfKind(s, {"zig", "try"})
    BY <1>1, KindsOfFrames DEF OfKind
  <2>2. QED  BY <1>1, <2>1, InnermostIs
<1>3. CASE e # Termination /\ blocks # {}
  <2>1. stack' = SubSeq(s, 1, b - 1) /\ scheduled' = None
    BY <1>3 DEF Unwind
  <2>2. /\ b \in 1 .. Len(s) /\ s[b].kind = "block"
        /\ \A j \in 1 .. Len(s) : s[j].kind = "block" => j <= b
    BY <1>1, <1>3, InnermostIs
  <2>3. n <= b
    <3>1. PICK j \in 1 .. Len(s) : s[j].kind = "block" /\ n <= j
      BY <1>1, <1>2, <1>3 DEF OfKind
    <3> HIDE DEF b, n
    <3>2. QED  BY <1>2, <2>2, <3>1
  <2> HIDE DEF b, n
  <2>4. b \in 2 .. Len(s)
    <3>1. b # 1
      BY <1>1, <2>2, KindsOfFrames
    <3>2. QED  BY <1>1, <2>2, <3>1
  <2>5. ASSUME NEW i \in b + 1 .. Len(s) PROVE KindOf(s[i]) = "plain"
    <3>1. i \in 1 .. Len(s) /\ ~(i <= b) /\ ~(i <= n)
      BY <1>1, <1>2, <2>2, <2>3
    <3>2. s[i].kind = "js"
      BY <1>1, <1>2, <2>2, <3>1, FrameKinds
    <3>3. QED  BY <1>1, <3>1, <3>2, KindsSeen
  <2>6. QED  BY <1>3, <2>1, <2>2, <2>4, <2>5
<1>4. CASE ~(e # Termination /\ blocks # {})
  <2>1. Deliver(e, SubSeq(s, 1, n))
    BY <1>4 DEF Unwind
  <2>2. n \in 1 .. Len(s) - 1
    <3>1. n # Len(s)
      BY <1>2
    <3>2. Len(s) \in Nat /\ n \in 1 .. Len(s)
      BY <1>1, <1>2
    <3> HIDE DEF n
    <3>3. QED  BY <3>1, <3>2
  <2>3. ASSUME e # Termination, NEW i \in n + 1 .. Len(s) PROVE KindOf(s[i]) = "plain"
    <3>1. i \in 1 .. Len(s) /\ ~(i <= n) /\ i \in n .. Len(s)
      <4> HIDE DEF n
      <4>1. QED  BY <1>1, <1>2, <2>3
    <3>2. s[i].kind # "block"
      BY <1>1, <1>4, <2>3, <3>1 DEF OfKind
    <3>3. s[i].kind = "js"
      BY <1>1, <1>2, <3>1, <3>2, FrameKinds
    <3>4. QED  BY <1>1, <3>1, <3>3, KindsSeen
  <2>4. QED  BY <1>2, <2>1, <2>2, <2>3
<1>5. QED  BY <1>3, <1>4

\* An error thrown in the JavaScript on top of the first k frames.
LEMMA UnwindFlies ==
  ASSUME NEW t, Nested(t), NEW k \in 1 .. Len(t), t[k].kind \in {"js", "block"},
         \A i \in k + 1 .. Len(t) : KindOf(t[i]) = "plain",
         NEW e \in Errors, Unwind(e, SubSeq(t, 1, k))
  PROVE  Flies(View(t), View(stack'), e, FlyingOf(scheduled'), Len(t))
<1> DEFINE s == SubSeq(t, 1, k)
           F == View(t)
<1>1. /\ Nested(s) /\ Len(s) = k /\ \A i \in 1 .. k : s[i] = t[i]
  BY PrefixNested
<1>2. /\ Len(t) \in Nat /\ \A i \in 1 .. Len(t) : F[i] = KindOf(t[i]) /\ t[i] \in Frames
  BY ViewIs
<1>3. e \in Thrown /\ e # Termination /\ s[Len(s)].kind \in {"js", "block"}
  <2>1. k \in 1 .. k
    OBVIOUS
  <2>2. QED  BY <1>1, <2>1 DEF Thrown
<1>4. ASSUME NEW n \in 1 .. k, \A i \in n + 1 .. k : KindOf(s[i]) = "plain"
      PROVE  \A i \in n + 1 .. Len(t) : KindOf(t[i]) = "plain"
  <2>1. ASSUME NEW i \in n + 1 .. Len(t) PROVE KindOf(t[i]) = "plain"
    <3>1. i \in n + 1 .. k \/ i \in k + 1 .. Len(t)
      BY <1>2
    <3>2. i \in n + 1 .. k => i \in 1 .. k
      OBVIOUS
    <3>3. QED  BY <1>1, <1>4, <3>1, <3>2
  <2>2. QED  BY <2>1
<1>5. CASE \E b \in 2 .. Len(s) :
              /\ s[b].kind = "block"
              /\ \A i \in b + 1 .. Len(s) : KindOf(s[i]) = "plain"
              /\ stack' = SubSeq(s, 1, b - 1) /\ scheduled' = None
  <2>1. PICK b \in 2 .. k :
              /\ s[b].kind = "block"
              /\ \A i \in b + 1 .. k : KindOf(s[i]) = "plain"
              /\ stack' = SubSeq(s, 1, b - 1) /\ scheduled' = None
    BY <1>1, <1>5
  <2>2. b \in 1 .. k /\ b - 1 \in 1 .. k /\ b \in 1 .. Len(t)
    BY <1>2
  <2>3. \A i \in b + 1 .. Len(t) : KindOf(t[i]) = "plain"
    BY <1>4, <2>1, <2>2
  <2>4. View(stack') = SubSeq(F, 1, b - 1)
    <3>1. stack' = SubSeq(t, 1, b - 1) /\ b - 1 \in 1 .. Len(t)
      BY <2>1, <2>2, PrefixOfPrefix
    <3>2. QED  BY <3>1, ViewOfPrefix
  <2>5. F[b] = "block"
    BY <1>1, <1>2, <2>1, <2>2, KindsSeen
  <2>6. Arrives(F, b, Len(t))
    <3>1. \A i \in b + 1 .. Len(t) : i \in 1 .. Len(t)
      BY <2>2
    <3>2. QED  BY <1>2, <2>2, <2>3, <3>1 DEF Arrives
  <2>7. FlyingOf(scheduled') = None
    BY <2>1 DEF FlyingOf
  <2> HIDE DEF F, s
  <2>8. QED  BY <2>2, <2>4, <2>5, <2>6, <2>7 DEF Flies, F
<1>6. CASE \E n \in 1 .. Len(s) - 1 :
              /\ s[n].kind \in {"zig", "try"}
              /\ e # Termination => \A i \in n + 1 .. Len(s) : KindOf(s[i]) = "plain"
              /\ Deliver(e, SubSeq(s, 1, n))
  <2>1. PICK n \in 1 .. k - 1 :
              /\ s[n].kind \in {"zig", "try"}
              /\ \A i \in n + 1 .. k : KindOf(s[i]) = "plain"
              /\ Deliver(e, SubSeq(s, 1, n))
    BY <1>1, <1>3, <1>6
  <2>2. n \in 1 .. k /\ n \in 1 .. Len(t) /\ Len(t) \in n .. Len(t)
    BY <1>2
  <2>3. \A i \in n + 1 .. Len(t) : KindOf(t[i]) = "plain"
    BY <1>4, <2>1, <2>2
  <2>4. Deliver(e, SubSeq(t, 1, n)) /\ t[n].kind \in {"zig", "try"}
    BY <1>1, <2>1, <2>2, PrefixOfPrefix
  <2> HIDE DEF F, s
  <2>5. QED  BY <2>2, <2>3, <2>4, DeliverFlies DEF F
<1> HIDE DEF F, s
<1>7. QED  BY <1>1, <1>3, <1>5, <1>6, UnwindGoes DEF s

\* A termination ends frames, and the error that was on its way, if any.
LEMMA TerminationLeaves ==
  ASSUME NEW t, Nested(t), NEW k \in 1 .. Len(t), t[k].kind \in {"js", "block"},
         Unwind(Termination, SubSeq(t, 1, k))
  PROVE  /\ \E n \in 1 .. Len(t) - 1 : View(stack') = SubSeq(View(t), 1, n)
         /\ scheduled' \notin Errors
<1> DEFINE s == SubSeq(t, 1, k)
<1>1. /\ Nested(s) /\ Len(s) = k /\ \A i \in 1 .. k : s[i] = t[i]
  BY PrefixNested
<1>2. s[Len(s)].kind \in {"js", "block"} /\ Termination \in Thrown
  <2>1. k \in 1 .. k
    OBVIOUS
  <2>2. QED  BY <1>1, <2>1 DEF Thrown
<1>3. PICK n \in 1 .. k - 1 : Deliver(Termination, SubSeq(s, 1, n))
  <2> HIDE DEF s
  <2>1. QED  BY <1>1, <1>2, UnwindGoes DEF s
<1>4. n \in 1 .. k /\ n \in 1 .. Len(t) - 1 /\ n \in 1 .. Len(t)
  BY ViewIs
<1>5. Deliver(Termination, SubSeq(t, 1, n))
  BY <1>3, <1>4, PrefixOfPrefix
<1>6. View(stack') = View(SubSeq(t, 1, n)) /\ scheduled' \notin Errors
  BY <1>2, <1>4, <1>5, PrefixNested, DeliverLooksAlike
<1>7. QED  BY <1>4, <1>6, ViewOfPrefix
------------------------------------------------------------------------------
(***************************************************************************)
(* The kinds of step that StructuredExceptions has, taken by a stack.      *)
(***************************************************************************)
Step == [Abstract!StructuredNext]_(Abstract!structuredVars) /\ OnlyTopRethrows'

\* An error flies to some prefix of the frames.
LEMMA FliesToPrefix ==
  ASSUME NEW t, Nested(t), NEW m \in 1 .. Len(t), NEW G, NEW e, NEW g,
         Flies(View(t), G, e, g, m)
  PROVE  \E n \in 1 .. m : G = SubSeq(View(t), 1, n)
<1> DEFINE F == View(t)
<1>1. F[1] = "plain"
  <2>1. 1 \in 1 .. Len(t) /\ t[1] = Zig
    BY ViewIs DEF Nested
  <2>2. QED  BY <2>1, ViewIs, KindsOfFrames, KindsSeen
<1>2. \/ \E n \in 1 .. m : G = SubSeq(F, 1, n)
      \/ \E n \in 1 .. m : F[n] = "block" /\ G = SubSeq(F, 1, n - 1)
  <2>1. Flies(F, G, e, g, m)
    OBVIOUS
  <2> HIDE DEF F
  <2>2. CASE Arrives(F, 1, m) /\ G = SubSeq(F, 1, 1)
    BY <2>2 DEF Arrives
  <2>3. CASE \E n \in 1 .. m : G = SubSeq(F, 1, n) \/ (F[n] = "block" /\ G = SubSeq(F, 1, n - 1))
    BY <2>3
  <2>4. QED  BY <2>1, <2>2, <2>3, Zenon DEF Flies
<1> HIDE DEF F
<1>3. ASSUME NEW n \in 1 .. m, F[n] = "block", G = SubSeq(F, 1, n - 1)
      PROVE  \E k \in 1 .. m : G = SubSeq(F, 1, k)
  <2>1. n # 1
    BY <1>1, <1>3
  <2>2. n - 1 \in 1 .. m
    BY <2>1
  <2>3. QED  BY <1>3, <2>2
<1>4. QED  BY <1>2, <1>3 DEF F

\* What is left of the frames has nobody who is about to throw again.
LEMMA PrefixSettles ==
  ASSUME IInv, IInv', OnlyTopRethrows, NEW n \in 1 .. Len(stack),
         View(stack') = SubSeq(View(stack), 1, n),
         n < Len(stack) \/ KindOf(Top) # "rethrowing"
  PROVE  OnlyTopRethrows'
<1>1. /\ Len(stack) \in Nat /\ \A i \in 1 .. Len(stack) : View(stack)[i] = KindOf(stack[i])
      /\ View(stack) \in Seq({"plain", "block", "catching", "rethrowing"})
      /\ Len(View(stack)) = Len(stack)
  BY ViewIs DEF IInv
<1>2. /\ Len(View(stack')) = Len(stack')
      /\ \A i \in 1 .. Len(stack') : View(stack')[i] = KindOf(stack'[i])
  BY ViewIs DEF IInv
<1>3. /\ Len(View(stack')) = n /\ \A i \in 1 .. n : View(stack')[i] = View(stack)[i]
  BY <1>1
<1>4. ASSUME NEW i \in 1 .. Len(stack') PROVE KindOf(stack'[i]) # "rethrowing"
  <2>1. i \in 1 .. n /\ i \in 1 .. Len(stack)
    BY <1>1, <1>2, <1>3
  <2>2. KindOf(stack'[i]) = KindOf(stack[i])
    BY <1>1, <1>2, <1>3, <2>1
  <2>3. KindOf(stack[i]) = "rethrowing" => i = Len(stack)
    BY <2>1 DEF OnlyTopRethrows
  <2>4. QED  BY <1>1, <2>1, <2>2, <2>3 DEF Top
<1>5. QED  BY <1>4 DEF OnlyTopRethrows

LEMMA EnterStep ==
  ASSUME IInv, IInv', OnlyTopRethrows, scheduled \notin Errors, scheduled' \notin Errors,
         KindOf(Top) # "rethrowing", NEW f \in Frames,
         KindOf(f) \in {"plain", "catching", "block"}, stack' = Append(stack, f)
  PROVE  Step
<1>1. /\ stack \in Seq(Frames) /\ Len(stack) \in Nat \ {0} /\ DOMAIN stack = 1 .. Len(stack)
      /\ View(stack) \in Seq({"plain", "block", "catching", "rethrowing"})
      /\ Len(View(stack)) = Len(stack)
      /\ \A i \in 1 .. Len(stack) : View(stack)[i] = KindOf(stack[i])
  BY ViewIs DEF IInv
<1>2. /\ Len(stack') = Len(stack) + 1 /\ stack'[Len(stack) + 1] = f
      /\ \A i \in 1 .. Len(stack) : stack'[i] = stack[i]
  BY <1>1
<1>3. DOMAIN stack' = 1 .. Len(stack) + 1
  BY <1>2, ViewIs DEF IInv
<1>4. \A i \in 1 .. Len(stack) + 1 : i \in 1 .. Len(stack) \/ i = Len(stack) + 1
  BY <1>1
<1>5. View(stack') = Append(View(stack), KindOf(f))
  <2>1. View(stack') = [i \in 1 .. Len(stack) + 1 |-> KindOf(stack'[i])]
    BY <1>3 DEF View
  <2> DEFINE F == View(stack)
             k == KindOf(f)
             G == Append(F, k)
  <2>2. F \in Seq({"plain", "block", "catching", "rethrowing"}) /\ Len(F) = Len(stack)
        /\ k \in {"plain", "block", "catching", "rethrowing"}
    BY <1>1
  <2>3. \A i \in 1 .. Len(stack) : F[i] = KindOf(stack[i])
    BY <1>1
  <2> HIDE DEF F, k
  <2>4. /\ G \in Seq({"plain", "block", "catching", "rethrowing"}) /\ Len(G) = Len(F) + 1
        /\ G[Len(F) + 1] = k /\ \A i \in 1 .. Len(F) : G[i] = F[i]
    BY <2>2
  <2> HIDE DEF G
  <2>5. \A i \in 1 .. Len(stack) + 1 : KindOf(stack'[i]) = G[i]
    BY <1>2, <1>4, <2>2, <2>3, <2>4 DEF k
  <2>6. G = [i \in 1 .. Len(stack) + 1 |-> G[i]]
    BY <2>2, <2>4
  <2>7. View(stack') = G
    BY <2>1, <2>5, <2>6
  <2>8. QED  BY <2>7 DEF F, G, k
<1>6. OnlyTopRethrows'
  <2>1. \A i \in 1 .. Len(stack) : KindOf(stack[i]) # "rethrowing"
    BY DEF OnlyTopRethrows, Top
  <2>2. QED  BY <1>2, <1>4, <2>1 DEF OnlyTopRethrows
<1>7. Abstract!Enter(KindOf(f))
  BY <1>5 DEF Abstract!Enter, View
<1>8. KindOf(f) \in Abstract!Kinds
  BY DEF Abstract!Kinds
<1>9. QED  BY <1>6, <1>7, <1>8 DEF Step, Abstract!StructuredNext

LEMMA LeaveStep ==
  ASSUME IInv, IInv', OnlyTopRethrows, scheduled \notin Errors, scheduled' \notin Errors,
         KindOf(Top) # "rethrowing",
         \E n \in 1 .. Len(stack) - 1 : View(stack') = SubSeq(View(stack), 1, n)
  PROVE  Step
<1>1. PICK n \in 1 .. Len(stack) - 1 : View(stack') = SubSeq(View(stack), 1, n)
  OBVIOUS
<1>2. Len(stack) \in 1 .. Len(stack) /\ Len(View(stack)) = Len(stack)
      /\ View(stack)[Len(stack)] = KindOf(Top)
  BY ViewIs, TopIs DEF IInv
<1>3. n \in 1 .. Len(stack) /\ n < Len(stack)
  BY <1>2
<1>4. OnlyTopRethrows'
  BY <1>1, <1>3, PrefixSettles
<1>5. Abstract!Leave
  BY <1>1, <1>2 DEF Abstract!Leave, View
<1>6. QED  BY <1>4, <1>5 DEF Step, Abstract!StructuredNext

LEMMA FlyStep ==
  ASSUME IInv, IInv', OnlyTopRethrows, KindOf(Top) # "rethrowing", NEW e \in Errors,
         scheduled \notin Errors \/ scheduled = e,
         Flies(View(stack), View(stack'), e, FlyingOf(scheduled'), Len(stack))
  PROVE  Step
<1>1. Len(stack) \in 1 .. Len(stack) /\ Len(View(stack)) = Len(stack)
  BY ViewIs, TopIs DEF IInv
<1>2. PICK n \in 1 .. Len(stack) : View(stack') = SubSeq(View(stack), 1, n)
  BY <1>1, FliesToPrefix DEF IInv
<1>3. OnlyTopRethrows'
  BY <1>2, PrefixSettles
<1>4. Abstract!Fly(e, Len(View(stack)))
  BY <1>1, FliesIsFly
<1>5. CASE scheduled \notin Errors
  <2>1. Abstract!Throw
    BY <1>4, <1>5 DEF Abstract!Throw, View
  <2>2. QED  BY <1>3, <2>1 DEF Step, Abstract!StructuredNext
<1>6. CASE scheduled = e
  <2>1. e # None
    OBVIOUS
  <2>2. Abstract!Continue
    BY <1>4, <1>6, <2>1 DEF Abstract!Continue, View
  <2>3. QED  BY <1>3, <2>2 DEF Step, Abstract!StructuredNext
<1>7. QED  BY <1>5, <1>6

LEMMA StutterStep ==
  ASSUME OnlyTopRethrows, stack' = stack, FlyingOf(scheduled') = FlyingOf(scheduled)
  PROVE  Step
BY DEF Step, OnlyTopRethrows, FlyingOf, Abstract!structuredVars
------------------------------------------------------------------------------
(***************************************************************************)
(* Every action is such a step.                                            *)
(***************************************************************************)
LEMMA TopLooks ==
  ASSUME IInv
  PROVE  /\ Top.kind \in {"zig", "js"} => KindOf(Top) = "plain"
         /\ Top.kind = "block" => KindOf(Top) = "block"
         /\ Top.kind = "try" => KindOf(Top) = IF Top.rethrown THEN "rethrowing" ELSE "catching"
         /\ KindOf(Top) = "rethrowing" <=> Top.kind = "try" /\ Top.rethrown
BY TopIs, KindsSeen

\* A TryCatch on top has the error, if there was one: none is on its way.
LEMMA NothingFlies ==
  ASSUME IInv, Top.kind # "zig" \/ scheduled \in {None, Termination}
  PROVE  scheduled \notin Errors
BY KindsOfFrames DEF IInv, ScheduledIsOnItsWay

LEMMA PopStep ==
  ASSUME IInv, IInv', OnlyTopRethrows, scheduled \notin Errors, scheduled' \notin Errors,
         KindOf(Top) # "rethrowing", Top.kind # "zig" \/ Len(stack) > 1, stack' = Below
  PROVE  Step
<1>1. Len(stack) > 1 /\ Len(stack) \in Nat
  BY BelowIs, TopIs
<1>2. Len(stack) - 1 \in 1 .. Len(stack) /\ Len(stack) - 1 \in 1 .. Len(stack) - 1
  BY <1>1
<1>3. View(stack') = SubSeq(View(stack), 1, Len(stack) - 1)
  BY <1>2, ViewOfPrefix DEF IInv, Below
<1>4. QED  BY <1>2, <1>3, LeaveStep

LEMMA TryCatchInitStep ==
  ASSUME IInv, IInv', OnlyTopRethrows, TryCatchInit PROVE Step
<1> DEFINE f == [kind |-> "try", caught |-> None, rethrown |-> FALSE]
<1>1. /\ scheduled = None /\ scheduled' = scheduled /\ stack' = Append(stack, f)
      /\ Top.kind = "try" => ~Top.rethrown
  BY DEF TryCatchInit, Calm, Push
<1>2. f \in TryCatches /\ f.kind = "try" /\ ~f.rethrown
  BY DEF TryCatches
<1> HIDE DEF f
<1>3. f \in Frames /\ KindOf(f) = "catching"
  BY <1>2, KindsOfFrames, KindsSeen
<1>4. KindOf(Top) # "rethrowing"
  BY <1>1, TopLooks
<1>5. QED  BY <1>1, <1>3, <1>4, EnterStep

\* What rethrow does to the stack s, whose top is a TryCatch.
RethrownOn(s) == [s EXCEPT ![Len(s)].rethrown = TRUE]

LEMMA RethrowLooks ==
  ASSUME NEW s, Nested(s), s[Len(s)].kind = "try", s[Len(s)].caught # None
  PROVE  /\ Nested(RethrownOn(s)) /\ Len(RethrownOn(s)) = Len(s)
         /\ RethrownOn(s)[Len(s)].caught = s[Len(s)].caught
         /\ KindOf(RethrownOn(s)[Len(s)]) = "rethrowing"
         /\ \A i \in 1 .. Len(s) : i # Len(s) => RethrownOn(s)[i] = s[i]
<1> DEFINE k == Len(s)
           f == [s[k] EXCEPT !.rethrown = TRUE]
<1>1. k \in 1 .. Len(s) /\ s[k] \in TryCatches /\ s \in Seq(Frames) /\ DOMAIN s = 1 .. Len(s)
  <2>1. Len(s) \in 1 .. Len(s) /\ s \in Seq(Frames) /\ DOMAIN s = 1 .. Len(s)
    BY ViewIs
  <2>2. QED  BY <2>1, FrameKinds
<1>2. f \in TryCatches /\ f.caught = s[k].caught /\ f.rethrown
  <2> DEFINE r == s[k]
  <2>1. r \in TryCatches
    BY <1>1
  <2> HIDE DEF r
  <2>2. [r EXCEPT !.rethrown = TRUE] \in TryCatches
        /\ [r EXCEPT !.rethrown = TRUE].caught = r.caught
        /\ [r EXCEPT !.rethrown = TRUE].rethrown
    BY <2>1 DEF TryCatches
  <2>3. QED  BY <2>2 DEF r
<1>3. RethrownOn(s) = Changed(s, k, f)
  BY <1>1 DEF RethrownOn, Changed
<1>4. /\ Changed(s, k, f)[k] = f
      /\ \A i \in 1 .. Len(s) : i # k => Changed(s, k, f)[i] = s[i]
  BY <1>1 DEF Changed
<1> HIDE DEF f
<1>5. KindOf(f) = "rethrowing"
  BY <1>2, KindsOfFrames, KindsSeen
<1>6. Nested(Changed(s, k, f)) /\ Len(Changed(s, k, f)) = Len(s)
  BY <1>1, <1>2, ChangeNested
<1>7. QED  BY <1>2, <1>3, <1>4, <1>5, <1>6

LEMMA rethrowStep ==
  ASSUME IInv, IInv', OnlyTopRethrows, rethrow PROVE Step
<1> DEFINE k == Len(stack)
<1>1. /\ Top.kind = "try" /\ Top.caught \in Errors /\ scheduled = None
      /\ scheduled' = scheduled /\ stack' = RethrownOn(stack)
  BY DEF rethrow, RethrownOn
<1>2. k \in 1 .. k /\ Top = stack[k] /\ k \in Nat /\ Top.caught # None
  BY <1>1, TopIs
<1>3. /\ Len(stack') = k /\ stack'[k].caught = Top.caught
      /\ KindOf(stack'[k]) = "rethrowing"
      /\ \A i \in 1 .. k : i # k => stack'[i] = stack[i]
  BY <1>1, <1>2, RethrowLooks DEF IInv
<1>4. /\ DOMAIN stack = 1 .. k /\ DOMAIN View(stack) = 1 .. k
      /\ Len(View(stack)) = k /\ \A i \in 1 .. k : View(stack)[i] = KindOf(stack[i])
  BY ViewIs DEF IInv
<1>5. DOMAIN stack' = 1 .. k
  <2>1. DOMAIN stack' = 1 .. Len(stack')
    BY ViewIs DEF IInv
  <2>2. QED  BY <1>3, <2>1
<1>6. \A i \in 1 .. k : KindOf(stack[i]) = "rethrowing" => i = k
  BY DEF OnlyTopRethrows
<1>7. View(stack) = [i \in 1 .. k |-> KindOf(stack[i])]
  BY <1>4 DEF View
<1>8. View(stack') = [i \in 1 .. k |-> KindOf(stack'[i])]
  BY <1>5 DEF View
<1>9. OnlyTopRethrows'
  <2>1. ASSUME NEW i \in 1 .. Len(stack'), KindOf(stack'[i]) = "rethrowing"
        PROVE  i = Len(stack') /\ stack'[i].caught \in Errors
    <3> HIDE DEF k
    <3>1. i \in 1 .. k
      BY <1>3
    <3>2. i = k
      BY <1>3, <1>6, <2>1, <3>1
    <3>3. QED  BY <1>1, <1>3, <3>2
  <2>2. QED  BY <2>1 DEF OnlyTopRethrows
<1>10. scheduled \notin Errors /\ scheduled' \notin Errors
  BY <1>1
<1> HIDE DEF k
<1>11. CASE Top.rethrown
  <2>1. KindOf(Top) = "rethrowing"
    BY <1>1, <1>11, TopLooks
  <2>2. \A i \in 1 .. k : KindOf(stack'[i]) = KindOf(stack[i])
    BY <1>2, <1>3, <2>1
  <2>3. View(stack') = View(stack)
    BY <1>7, <1>8, <2>2
  <2>4. QED
    BY <1>1, <1>9, <2>3 DEF Step, Abstract!structuredVars, View
<1>12. CASE ~Top.rethrown
  <2>1. KindOf(Top) = "catching"
    BY <1>1, <1>12, TopLooks
  <2>2. View(stack') = [View(stack) EXCEPT ![k] = "rethrowing"]
    BY <1>2, <1>3, <1>7, <1>8
  <2>3. View(stack)[k] = "catching"
    BY <1>2, <1>4, <2>1
  <2>4. Abstract!Decide
    BY <1>4, <1>10, <2>2, <2>3 DEF Abstract!Decide, View
  <2>5. QED  BY <1>9, <2>4 DEF Step, Abstract!StructuredNext
<1>13. QED  BY <1>11, <1>12

LEMMA TryCatchDeinitStep ==
  ASSUME IInv, IInv', OnlyTopRethrows, TryCatchDeinit PROVE Step
<1> DEFINE k == Len(stack) - 1
<1>1. Top.kind = "try" /\ scheduled \notin Errors /\ Below = SubSeq(stack, 1, k)
  BY NothingFlies DEF TryCatchDeinit, Below
<1>2. /\ Len(stack) \in Nat /\ k \in 1 .. Len(stack) /\ k \in 1 .. k /\ k \in k .. Len(stack)
      /\ Len(View(stack)) = Len(stack) /\ View(stack)[Len(stack)] = KindOf(Top)
      /\ k < Len(stack)
  <2>1. Len(stack) \in Nat /\ Len(stack) > 1
    BY <1>1, BelowIs, TopIs
  <2>2. Len(stack) \in 1 .. Len(stack) /\ Top = stack[Len(stack)]
    BY TopIs
  <2>3. Len(View(stack)) = Len(stack) /\ View(stack)[Len(stack)] = KindOf(stack[Len(stack)])
    BY <2>2, ViewIs DEF IInv
  <2>4. QED  BY <2>1, <2>2, <2>3
<1>3. stack[k].kind \in {"zig", "try"}
  <2>1. Below[Len(Below)].kind \in {"zig", "try"}
    BY <1>1, BelowIs
  <2>2. Len(Below) = k /\ Below[k] = stack[k]
    BY <1>1, <1>2, PrefixNested DEF IInv
  <2>3. QED  BY <2>1, <2>2
<1>4. CASE Top.rethrown
  <2>1. KindOf(Top) = "rethrowing"
    BY <1>1, <1>4, TopLooks
  <2>2. Top.caught \in Errors
    BY <1>2, <2>1 DEF OnlyTopRethrows, Top
  <2>3. Deliver(Top.caught, SubSeq(stack, 1, k))
    BY <1>1, <1>4 DEF TryCatchDeinit
  <2> HIDE DEF k
  <2>4. \A i \in k + 1 .. k : KindOf(stack[i]) = "plain"
    BY <1>2
  <2>5. Flies(View(stack), View(stack'), Top.caught, FlyingOf(scheduled'), k)
    BY <1>2, <1>3, <2>2, <2>3, <2>4, DeliverFlies DEF IInv
  <2>6. PICK n \in 1 .. k : View(stack') = SubSeq(View(stack), 1, n)
    BY <1>2, <2>5, FliesToPrefix DEF IInv
  <2>7. n \in 1 .. Len(stack) /\ n < Len(stack)
    BY <1>2
  <2>8. OnlyTopRethrows'
    BY <2>6, <2>7, PrefixSettles
  <2>9. Abstract!Fly(Top.caught, Len(View(stack)) - 1)
    BY <1>2, <2>5, FliesIsFly DEF k
  <2>10. Abstract!Rethrow
    BY <1>1, <1>2, <2>1, <2>2, <2>9 DEF Abstract!Rethrow, View
  <2>11. QED  BY <2>8, <2>10 DEF Step, Abstract!StructuredNext
<1>5. CASE ~Top.rethrown
  <2>1. stack' = Below /\ scheduled' \in {None, scheduled}
    BY <1>5 DEF TryCatchDeinit
  <2>2. KindOf(Top) # "rethrowing"
    BY <1>5, TopLooks
  <2>3. scheduled' \notin Errors
    BY <1>1, <2>1
  <2>4. QED  BY <1>1, <2>1, <2>2, <2>3, PopStep
<1>6. QED  BY <1>4, <1>5

LEMMA throwExceptionStep ==
  ASSUME NEW e \in Errors, IInv, IInv', OnlyTopRethrows, throwException(e) PROVE Step
<1> DEFINE k == Len(stack)
<1>1. /\ Top.kind \in {"zig", "try"} /\ scheduled = None /\ Deliver(e, stack)
      /\ Top.kind = "try" => ~Top.rethrown
  BY DEF throwException, InZig, Calm
<1>2. k \in 1 .. Len(stack) /\ k \in k .. Len(stack) /\ stack[k] = Top /\ k \in Nat
  BY TopIs
<1>3. Deliver(e, SubSeq(stack, 1, k)) /\ Nested(stack)
  BY <1>1, WholePrefix DEF IInv
<1>4. KindOf(Top) # "rethrowing" /\ scheduled \notin Errors
  BY <1>1, TopLooks
<1>5. \A i \in k + 1 .. k : KindOf(stack[i]) = "plain"
  BY <1>2
<1> HIDE DEF k
<1>6. Flies(View(stack), View(stack'), e, FlyingOf(scheduled'), k)
  BY <1>1, <1>2, <1>3, <1>5, DeliverFlies
<1>7. QED  BY <1>4, <1>6, FlyStep DEF k

LEMMA CallStep ==
  ASSUME NEW w \in Wrappers, IInv, IInv', OnlyTopRethrows, Call(w) PROVE Step
<1>1. CASE Calm /\ Push(Js(w))
  <2>1. /\ scheduled = None /\ scheduled' = scheduled /\ stack' = Append(stack, Js(w))
        /\ Top.kind = "try" => ~Top.rethrown
    BY <1>1 DEF Call, Calm, Push
  <2>2. Js(w) \in Frames /\ KindOf(Js(w)) = "plain"
    BY KindsOfFrames, KindsSeen
  <2>3. KindOf(Top) # "rethrowing" /\ scheduled \notin Errors /\ scheduled' \notin Errors
    BY <2>1, TopLooks
  <2>4. QED  BY <2>1, <2>2, <2>3, EnterStep
<1>2. CASE UNCHANGED stack
  BY <1>2, StutterStep DEF Call
<1>3. QED  BY <1>1, <1>2 DEF Call

LEMMA ReturnStep ==
  ASSUME IInv, IInv', OnlyTopRethrows, Return PROVE Step
<1> DEFINE k == Len(stack) - 1
<1>1. Top = Zig /\ Len(stack) > 1
  BY DEF Return
<1>2. KindOf(Top) = "plain" /\ Top.kind = "zig"
  BY <1>1, KindsOfFrames, TopLooks
<1>3. /\ Len(stack) \in Nat /\ k \in 1 .. Len(stack) /\ k \in 1 .. k
      /\ Below = SubSeq(stack, 1, k) /\ Nested(stack) /\ stack[Len(stack)] = Top
  BY <1>1, TopIs DEF IInv, Below
<1>4. stack[k].kind \in {"js", "block"}
  <2>1. Below[Len(Below)].kind \in {"js", "block"}
    BY <1>1, <1>2, BelowIs
  <2>2. Len(Below) = k /\ Below[k] = stack[k]
    BY <1>3, PrefixNested
  <2>3. QED  BY <2>1, <2>2
<1>5. \A i \in k + 1 .. Len(stack) : KindOf(stack[i]) = "plain"
  <2>1. \A i \in k + 1 .. Len(stack) : i = Len(stack)
    BY <1>3
  <2>2. QED  BY <1>2, <1>3, <2>1
<1>6. CASE scheduled = None
  <2>1. stack' = Below /\ scheduled' = scheduled
    BY <1>6 DEF Return
  <2>2. scheduled \notin Errors
    BY <1>6
  <2> HIDE DEF k
  <2>3. QED  BY <1>1, <1>2, <2>1, <2>2, PopStep
<1>7. CASE scheduled = Termination
  <2>1. Unwind(Termination, SubSeq(stack, 1, k)) /\ scheduled \notin Errors
    BY <1>3, <1>7 DEF Return
  <2> HIDE DEF k
  <2>2. QED  BY <1>2, <1>3, <1>4, <2>1, TerminationLeaves, LeaveStep
<1>8. CASE scheduled \in Errors
  <2>1. Unwind(scheduled, SubSeq(stack, 1, k))
    BY <1>3, <1>8 DEF Return
  <2> HIDE DEF k
  <2>2. Flies(View(stack), View(stack'), scheduled, FlyingOf(scheduled'), Len(stack))
    BY <1>3, <1>4, <1>5, <1>8, <2>1, UnwindFlies
  <2>3. QED  BY <1>2, <1>8, <2>2, FlyStep
<1>9. QED  BY <1>6, <1>7, <1>8 DEF IInv, OthersTyped, Thrown

LEMMA TerminationStep ==
  ASSUME IInv, IInv', OnlyTopRethrows, terminateExecution \/ cancelTerminateExecution
  PROVE  Step
<1>1. stack' = stack /\ FlyingOf(scheduled') = FlyingOf(scheduled)
  BY DEF terminateExecution, cancelTerminateExecution, FlyingOf
<1>2. QED  BY <1>1, StutterStep

LEMMA InJavaScriptStep ==
  ASSUME IInv, IInv', OnlyTopRethrows, callback \/ tryBlock \/ endBlock \/ jsReturn
  PROVE  Step
<1>1. Top.kind \in {"js", "block"} /\ InJavaScript /\ scheduled' = scheduled
  BY KindsOfFrames DEF callback, tryBlock, endBlock, jsReturn, InJavaScript
<1>2. scheduled \notin Errors /\ scheduled' \notin Errors /\ KindOf(Top) # "rethrowing"
  BY <1>1, NothingFlies, TopLooks
<1>3. CASE callback \/ tryBlock
  <2>1. PICK f \in {Zig, Block} : stack' = Append(stack, f)
    BY <1>3 DEF callback, tryBlock, Push
  <2>2. f \in Frames /\ KindOf(f) \in {"plain", "catching", "block"}
    BY KindsOfFrames, KindsSeen
  <2>3. QED  BY <1>2, <2>1, <2>2, EnterStep
<1>4. CASE endBlock \/ jsReturn
  BY <1>1, <1>2, <1>4, PopStep DEF endBlock, jsReturn
<1>5. QED  BY <1>3, <1>4

LEMMA ThrowStep ==
  ASSUME IInv, IInv', OnlyTopRethrows, noticeTermination \/ \E e \in Errors : jsThrow(e)
  PROVE  Step
<1> DEFINE k == Len(stack)
<1>1. Top.kind \in {"js", "block"}
  BY DEF noticeTermination, jsThrow, InJavaScript
<1>2. scheduled \notin Errors /\ KindOf(Top) # "rethrowing"
  BY <1>1, NothingFlies, TopLooks
<1>3. /\ k \in 1 .. Len(stack) /\ stack[k] = Top /\ k \in Nat
      /\ SubSeq(stack, 1, k) = stack /\ Nested(stack)
      /\ \A i \in k + 1 .. Len(stack) : KindOf(stack[i]) = "plain"
  BY TopIs, WholePrefix DEF IInv
<1> HIDE DEF k
<1>4. CASE noticeTermination
  <2>1. Unwind(Termination, SubSeq(stack, 1, k))
    BY <1>3, <1>4 DEF noticeTermination
  <2>2. QED  BY <1>1, <1>2, <1>3, <2>1, TerminationLeaves, LeaveStep
<1>5. ASSUME NEW e \in Errors, jsThrow(e) PROVE Step
  <2>1. Unwind(e, SubSeq(stack, 1, k))
    BY <1>3, <1>5 DEF jsThrow
  <2>2. Flies(View(stack), View(stack'), e, FlyingOf(scheduled'), Len(stack))
    BY <1>1, <1>3, <2>1, UnwindFlies
  <2>3. QED  BY <1>2, <2>2, FlyStep
<1>6. QED  BY <1>4, <1>5

LEMMA InitImplements == Init => OnlyTopRethrows /\ Abstract!StructuredInit
<1> SUFFICES ASSUME Init PROVE OnlyTopRethrows /\ Abstract!StructuredInit
  OBVIOUS
<1>1. stack = <<Zig>> /\ scheduled = None /\ KindOf(Zig) = "plain"
  BY KindsOfFrames, KindsSeen DEF Init
<1>2. OnlyTopRethrows
  BY <1>1 DEF OnlyTopRethrows
<1>3. View(stack) = <<"plain">>
  <2>1. DOMAIN stack = {1} /\ stack[1] = Zig
    BY <1>1
  <2>2. View(stack) = [i \in {1} |-> "plain"]
    BY <1>1, <2>1 DEF View
  <2>3. QED  BY <2>2
<1>4. QED  BY <1>1, <1>2, <1>3 DEF Abstract!StructuredInit, View

LEMMA NextImplements ==
  ASSUME IInv, IInv', OnlyTopRethrows, [Next]_vars PROVE Step
<1>1. CASE TryCatchInit \/ rethrow \/ TryCatchDeinit
  BY <1>1, TryCatchInitStep, rethrowStep, TryCatchDeinitStep
<1>2. ASSUME NEW e \in Errors, throwException(e) PROVE Step
  BY <1>2, throwExceptionStep
<1>3. ASSUME NEW w \in Wrappers, Call(w) PROVE Step
  BY <1>3, CallStep
<1>4. CASE Return \/ terminateExecution \/ cancelTerminateExecution
  BY <1>4, ReturnStep, TerminationStep
<1>5. CASE JavaScript
  BY <1>5, InJavaScriptStep, ThrowStep DEF JavaScript
<1>6. CASE UNCHANGED vars
  BY <1>6, StutterStep DEF vars
<1>7. QED  BY <1>1, <1>2, <1>3, <1>4, <1>5, <1>6 DEF Next, Embedder

\* Zig, JavaScript and TryCatches together do what StructuredExceptions promises:
\* an error goes to the innermost frame that catches errors and ends all above it,
\* and nothing begins or ends by itself while it is on its way.
THEOREM ExceptionsAreStructured == Spec => ImplementsStructuredExceptions
<1>1. Init => OnlyTopRethrows /\ Abstract!StructuredInit
  BY InitImplements
<1>2. IInv /\ IInv' /\ OnlyTopRethrows /\ [Next]_vars
      => OnlyTopRethrows' /\ [Abstract!StructuredNext]_(Abstract!structuredVars)
  BY NextImplements DEF Step
<1>3. QED
  BY <1>1, <1>2, Invariance, PTL
     DEF Spec, ImplementsStructuredExceptions, Abstract!StructuredSpec
------------------------------------------------------------------------------
(***************************************************************************)
(* A termination holds until the JavaScript has ended.                     *)
(***************************************************************************)
\* A TryCatch that is about to throw again is closed before anything is scheduled.
RethrowsCalmly == Top.kind = "try" /\ Top.rethrown => scheduled = None

\* Where Deliver leaves something scheduled and a TryCatch on top, that is marked
\* by the termination; and a termination stays while there is JavaScript.
LEMMA DeliverHolds ==
  ASSUME NEW s, Nested(s), s[Len(s)].kind \in {"zig", "try"}, NEW e \in Thrown,
         Deliver(e, s)
  PROVE  /\ scheduled' # None /\ Top'.kind = "try" => Top'.caught = Termination
         /\ e = Termination /\ scheduled' # Termination => Outermost(stack')
<1>1. s \in Seq(Frames) /\ Len(s) \in 1 .. Len(s) /\ Len(s) \in Nat /\ DOMAIN s = 1 .. Len(s)
  BY DEF Nested
<1>2. Nested(stack') /\ Len(stack') = Len(s) /\ stack'[Len(s)].kind = s[Len(s)].kind
      /\ Top' = stack'[Len(s)]
  BY DeliverReaches DEF Top
<1>3. CASE e # Termination
  BY <1>2, <1>3 DEF Deliver
<1>4. CASE e = Termination /\ OfKind(s, {"try"}) = {}
  <2>1. stack' = s /\ scheduled' = IF Outermost(s) THEN None ELSE Termination
    BY <1>4 DEF Deliver, Mark
  <2>2. s[Len(s)].kind # "try"
    BY <1>1, <1>4 DEF OfKind
  <2>3. QED  BY <1>2, <2>1, <2>2
<1>5. CASE e = Termination /\ OfKind(s, {"try"}) # {}
  <2> DEFINE k == Innermost(s, {"try"})
  <2>1. stack' = Caught(s, k, Termination) /\ scheduled' = Termination
    BY <1>5 DEF Deliver, Mark, Caught
  <2>2. /\ k \in 1 .. Len(s) /\ s[k].kind = "try"
        /\ \A j \in 1 .. Len(s) : s[j].kind = "try" => j <= k
    BY <1>1, <1>5, InnermostIs
  <2> HIDE DEF k
  <2>3. s[Len(s)].kind = "try" => k = Len(s)
    <3>1. s[Len(s)].kind = "try" => Len(s) <= k
      BY <1>1, <2>2
    <3>2. \A m \in Nat : k \in 1 .. m /\ m <= k => k = m
      OBVIOUS
    <3>3. Len(s) \in Nat /\ k \in 1 .. Len(s)
      BY <1>1, <2>2, Zenon
    <3>4. Len(s) <= k => k = Len(s)
      BY <3>2, <3>3, Zenon
    <3>5. QED  BY <3>1, <3>4, Zenon
  <2>4. stack'[k].caught = Termination
    <3>1. Termination \in Thrown
      BY DEF Thrown
    <3>2. QED  BY <2>1, <2>2, <3>1, CatchNested
  <2>5. QED  BY <1>2, <2>1, <2>3, <2>4
<1>6. QED  BY <1>3, <1>4, <1>5

LEMMA UnwindHolds ==
  ASSUME NEW s, Nested(s), s[Len(s)].kind \in {"js", "block"}, NEW e \in Thrown,
         Unwind(e, s)
  PROVE  /\ scheduled' # None /\ Top'.kind = "try" => Top'.caught = Termination
         /\ e = Termination /\ scheduled' # Termination => Outermost(stack')
<1> DEFINE n == Innermost(s, {"zig", "try"})
           blocks == OfKind(s, {"block"}) \cap (n .. Len(s))
<1>1. s \in Seq(Frames) /\ Len(s) \in Nat \ {0} /\ s[1] = Zig /\ DOMAIN s = 1 .. Len(s)
  BY DEF Nested
<1>2. n \in 1 .. Len(s) /\ s[n].kind \in {"zig", "try"}
  <2>1. 1 \in OfKind(s, {"zig", "try"})
    BY <1>1, KindsOfFrames DEF OfKind
  <2>2. QED  BY <1>1, <2>1, InnermostIs
<1>3. CASE e # Termination /\ blocks # {}
  BY <1>3 DEF Unwind
<1>4. CASE ~(e # Termination /\ blocks # {})
  <2>1. Deliver(e, SubSeq(s, 1, n))
    BY <1>4 DEF Unwind
  <2> HIDE DEF n
  <2>2. /\ Nested(SubSeq(s, 1, n)) /\ Len(SubSeq(s, 1, n)) = n
        /\ SubSeq(s, 1, n)[n] = s[n]
    <3>1. n \in 1 .. n
      BY <1>2
    <3>2. QED  BY <1>2, <3>1, PrefixNested
  <2>3. QED  BY <1>2, <2>1, <2>2, DeliverHolds
<1>5. QED  BY <1>3, <1>4

\* What one step must live up to.
Holds == /\ RethrowsCalmly'
         /\ Terminating /\ ~Terminating'
               => Outermost(stack') \/ cancelTerminateExecution

LEMMA ThrowHolds ==
  ASSUME IInv, IInv', OnlyTopRethrows', NEW e \in Thrown, NEW s, Nested(s),
         \/ Deliver(e, s) /\ s[Len(s)].kind \in {"zig", "try"}
         \/ Unwind(e, s) /\ s[Len(s)].kind \in {"js", "block"},
         Terminating => requested' \/ e = Termination
  PROVE  Holds
<1>1. /\ scheduled' # None /\ Top'.kind = "try" => Top'.caught = Termination
      /\ e = Termination /\ scheduled' # Termination => Outermost(stack')
  BY DeliverHolds, UnwindHolds
\* A TryCatch that was marked does not throw again.
<1>2. RethrowsCalmly'
  <2>1. Len(stack') \in 1 .. Len(stack') /\ Top' = stack'[Len(stack')] /\ Top' \in Frames
    BY DEF IInv, Nested, Top
  <2>2. (Top.kind = "try" /\ Top.rethrown)' => Top'.caught \in Errors
    BY <2>1, KindsSeen DEF OnlyTopRethrows
  <2>3. QED  BY <1>1, <2>2 DEF RethrowsCalmly
<1>3. QED  BY <1>1, <1>2 DEF Holds, Terminating

LEMMA TryCatchDeinitHolds ==
  ASSUME IInv, IInv', OnlyTopRethrows, OnlyTopRethrows', RethrowsCalmly, TryCatchDeinit
  PROVE  Holds
<1>1. Top.kind = "try" /\ requested' = requested
  BY DEF TryCatchDeinit
<1>2. /\ Nested(Below) /\ Below[Len(Below)].kind \in {"zig", "try"}
  BY <1>1, BelowIs
<1>3. CASE Top.rethrown
  <2>1. Deliver(Top.caught, Below) /\ scheduled = None
    BY <1>1, <1>3 DEF TryCatchDeinit, RethrowsCalmly
  <2>2. Top.caught \in Thrown
    <3>1. Len(stack) \in 1 .. Len(stack) /\ Top = stack[Len(stack)] /\ Top \in Frames
      BY TopIs
    <3>2. Top.caught \in Errors
      BY <1>1, <1>3, <3>1, KindsSeen DEF OnlyTopRethrows
    <3>3. QED  BY <3>2 DEF Thrown
  <2>3. Terminating => requested'
    BY <1>1, <2>1 DEF Terminating, Thrown
  <2>4. QED  BY <1>2, <2>1, <2>2, <2>3, ThrowHolds
<1>4. CASE ~Top.rethrown
  <2>1. stack' = Below /\ scheduled' = IF Outermost(Below) THEN None ELSE scheduled
    BY <1>4 DEF TryCatchDeinit
  <2>2. ~(Top.kind = "try" /\ Top.rethrown)'
    <3> DEFINE k == Len(stack) - 1
    <3>1. Len(stack) \in Nat /\ Len(stack) > 1
      BY <1>1, BelowIs, TopIs
    <3>2. k \in 1 .. Len(stack) /\ k \in 1 .. k /\ k # Len(stack) /\ Below = SubSeq(stack, 1, k)
      BY <3>1 DEF Below
    <3> HIDE DEF k
    <3>3. Top' = stack[k] /\ stack[k] \in Frames
      BY <2>1, <3>2, PrefixNested DEF Top, IInv, Nested
    <3>4. KindOf(stack[k]) # "rethrowing"
      BY <3>2 DEF OnlyTopRethrows
    <3>5. QED  BY <3>3, <3>4, KindsSeen
  <2>3. RethrowsCalmly'
    BY <2>2 DEF RethrowsCalmly
  <2>4. QED  BY <1>1, <2>1, <2>3 DEF Holds, Terminating
<1>5. QED  BY <1>3, <1>4

\* Frames that are pushed are not TryCatches that rethrow.
LEMMA PushedOnTop ==
  ASSUME IInv, NEW f, Push(f) PROVE Top' = f
<1>1. Len(stack) \in Nat /\ stack' = Append(stack, f)
  BY TopIs DEF Push
<1>2. Len(stack') = Len(stack) + 1 /\ stack'[Len(stack) + 1] = f
  BY <1>1, TopIs
<1>3. QED  BY <1>2 DEF Top

LEMMA EmbedderHolds ==
  ASSUME IInv, IInv', OnlyTopRethrows, OnlyTopRethrows', RethrowsCalmly,
         Embedder \/ terminateExecution
  PROVE  Holds
<1>1. CASE TryCatchInit
  BY <1>1 DEF TryCatchInit, Calm, Holds, Terminating, RethrowsCalmly
<1>2. CASE rethrow
  BY <1>2 DEF rethrow, Holds, Terminating, RethrowsCalmly
<1>3. CASE TryCatchDeinit
  BY <1>3, TryCatchDeinitHolds
<1>4. ASSUME NEW e \in Errors, throwException(e) PROVE Holds
  <2>1. Deliver(e, stack) /\ Top.kind \in {"zig", "try"} /\ scheduled = None
        /\ requested' = requested
    BY <1>4 DEF throwException, InZig, Calm
  <2>2. e \in Thrown /\ Nested(stack) /\ stack[Len(stack)].kind \in {"zig", "try"}
    BY <2>1 DEF Thrown, IInv, Top
  <2>3. Terminating => requested'
    BY <2>1 DEF Terminating, Thrown
  <2>4. QED  BY <2>1, <2>2, <2>3, ThrowHolds
<1>5. ASSUME NEW w \in Wrappers, Call(w) PROVE Holds
  <2>1. scheduled' = scheduled /\ requested' = requested
    BY <1>5 DEF Call
  <2>2. RethrowsCalmly'
    <3>1. CASE Calm
      BY <2>1, <3>1 DEF Calm, RethrowsCalmly
    <3>2. CASE UNCHANGED stack
      BY <2>1, <3>2 DEF RethrowsCalmly, Top
    <3>3. QED  BY <1>5, <3>1, <3>2 DEF Call
  <2>3. QED  BY <2>1, <2>2 DEF Holds, Terminating
<1>6. CASE Return
  <2>1. Top = Zig /\ Len(stack) > 1 /\ requested' = requested
    BY <1>6 DEF Return
  <2>2. Nested(Below) /\ Below[Len(Below)].kind \in {"js", "block"}
    BY <2>1, BelowIs, KindsOfFrames
  <2>3. CASE scheduled = None
    BY <1>6, <2>1, <2>3 DEF Return, Holds, Terminating, RethrowsCalmly
  <2>4. CASE scheduled # None
    <3>1. Unwind(scheduled, Below) /\ scheduled \in Thrown
      BY <1>6, <2>4 DEF Return, IInv, OthersTyped
    <3>2. Terminating => requested' \/ scheduled = Termination
      BY <2>1 DEF Terminating
    <3>3. QED  BY <2>2, <3>1, <3>2, ThrowHolds
  <2>5. QED  BY <2>3, <2>4
<1>7. CASE cancelTerminateExecution
  <2>1. stack' = stack /\ scheduled' \in {None, scheduled}
    BY <1>7 DEF cancelTerminateExecution
  <2>2. RethrowsCalmly'
    BY <2>1 DEF RethrowsCalmly, Top
  <2>3. QED  BY <1>7, <2>2 DEF Holds
<1>8. CASE terminateExecution
  BY <1>8 DEF terminateExecution, Holds, Terminating, RethrowsCalmly, Top
<1>9. QED  BY <1>1, <1>2, <1>3, <1>4, <1>5, <1>6, <1>7, <1>8 DEF Embedder

LEMMA JavaScriptHolds ==
  ASSUME IInv, IInv', OnlyTopRethrows, OnlyTopRethrows', RethrowsCalmly, JavaScript
  PROVE  Holds
<1>1. InJavaScript /\ scheduled = None
  <2>1. InJavaScript
    BY KindsOfFrames
       DEF JavaScript, InJavaScript, callback, tryBlock, endBlock, jsReturn, jsThrow,
           noticeTermination
  <2>2. QED  BY <2>1 DEF IInv, ScheduledIsOnItsWay
<1>2. Nested(stack) /\ stack[Len(stack)].kind \in {"js", "block"}
      /\ Errors \subseteq Thrown /\ Termination \in Thrown /\ scheduled # Termination
  BY <1>1 DEF IInv, InJavaScript, Top, Thrown
<1>3. CASE callback \/ tryBlock \/ endBlock \/ jsReturn
  <2>1. scheduled' = None /\ requested' = requested
    BY <1>1, <1>3 DEF callback, tryBlock, endBlock, jsReturn
  <2>2. QED  BY <1>2, <2>1 DEF Holds, Terminating, RethrowsCalmly
<1>4. ASSUME NEW e \in Errors, jsThrow(e) PROVE Holds
  <2>1. Unwind(e, stack) /\ requested' = requested
    BY <1>4 DEF jsThrow
  <2>2. Terminating => requested'
    BY <1>2, <2>1 DEF Terminating
  <2>3. QED  BY <1>2, <2>1, <2>2, ThrowHolds
<1>5. CASE noticeTermination
  <2>1. Unwind(Termination, stack)
    BY <1>5 DEF noticeTermination
  <2>2. QED  BY <1>2, <2>1, ThrowHolds
<1>6. QED  BY <1>3, <1>4, <1>5 DEF JavaScript

\* Once termination was requested, only the end of all JavaScript puts an end to
\* it, unless it is cancelled.
THEOREM TerminationsHold == Spec => TerminationHolds
<1>1. Init => OnlyTopRethrows /\ RethrowsCalmly
  BY InitImplements DEF Init, RethrowsCalmly
<1>2. ASSUME IInv, IInv', OnlyTopRethrows, RethrowsCalmly, [Next]_vars
      PROVE  /\ OnlyTopRethrows' /\ RethrowsCalmly'
             /\ [Terminating /\ ~Terminating'
                 => Outermost(stack') \/ cancelTerminateExecution]_vars
  <2>1. OnlyTopRethrows'
    BY <1>2, NextImplements DEF Step
  <2>2. CASE Next
    BY <1>2, <2>1, <2>2, EmbedderHolds, JavaScriptHolds DEF Next, Holds
  <2>3. CASE UNCHANGED vars
    BY <1>2, <2>1, <2>3 DEF vars, RethrowsCalmly, Top
  <2>4. QED  BY <1>2, <2>1, <2>2, <2>3
<1>3. QED  BY <1>1, <1>2, Invariance, PTL DEF Spec, TerminationHolds
=============================================================================
