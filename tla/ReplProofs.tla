----------------------------- MODULE ReplProofs -----------------------------
(***************************************************************************)
(* Callers that keep to V8Lifecycle never have anything outlive what it    *)
(* needs, for any set of isolates and any depth.  The shell is such a      *)
(* caller: whatever the lines do and whichever of them throw, however many *)
(* jobs run in the background, its defers undo its calls in an order that  *)
(* V8 allows, and each line is answered with a string of its own.          *)
(***************************************************************************)
EXTENDS Repl, SequenceTheorems, TLAPS

USE LifecycleAssumption

------------------------------------------------------------------------------
\* Pushing an element adds it to those that are on the stack.
LEMMA PushRange ==
    ASSUME NEW S, NEW s \in Seq(S), NEW e \in S
    PROVE  /\ Append(s, e) \in Seq(S)
           /\ Range(Append(s, e)) = Range(s) \cup {e}
<1>1. /\ Append(s, e) \in Seq(S)
      /\ Len(Append(s, e)) = Len(s) + 1
      /\ \A k \in 1 .. Len(s) : Append(s, e)[k] = s[k]
      /\ Append(s, e)[Len(s) + 1] = e
  BY AppendProperties
<1>2. DOMAIN s = 1 .. Len(s) /\ DOMAIN Append(s, e) = 1 .. Len(s) + 1 /\ Len(s) \in Nat
  BY <1>1, LenProperties
<1> QED
  BY <1>1, <1>2 DEF Range

\* Popping an element leaves no other than those that were on the stack.
LEMMA PopRange ==
    ASSUME NEW S, NEW s \in Seq(S), s # <<>>
    PROVE  /\ Front(s) \in Seq(S)
           /\ Range(Front(s)) \subseteq Range(s)
<1>1. DOMAIN s = 1 .. Len(s) /\ Len(s) \in Nat \ {0} /\ \A k \in 1 .. Len(s) : s[k] \in S
  BY LenProperties, EmptySeq, ElementOfSeq
<1>2. /\ Front(s) \in Seq(S)
      /\ Len(Front(s)) = Len(s) - 1
      /\ \A k \in 1 .. Len(s) - 1 : Front(s)[k] = s[k]
  BY <1>1, SubSeqProperties DEF Front
<1>3. DOMAIN Front(s) = 1 .. Len(s) - 1
  BY <1>2, LenProperties
<1> QED
  BY <1>1, <1>2, <1>3 DEF Range

\* What is on a stack is of the type of its elements.
LEMMA StackRange ==
    ASSUME NEW S, NEW s \in Seq(S)
    PROVE  Range(s) \subseteq S /\ Len(s) \in Nat
BY LenProperties, ElementOfSeq DEF Range

\* The last element is on the stack.
LEMMA TopOnStack ==
    ASSUME NEW S, NEW s \in Seq(S), s # <<>>
    PROVE  Last(s) \in Range(s)
<1>1. DOMAIN s = 1 .. Len(s) /\ Len(s) \in Nat \ {0}
  BY LenProperties, EmptySeq
<1> QED
  BY <1>1 DEF Last, Range
------------------------------------------------------------------------------
\* That nothing outlives its host is inductive, given the types.
LifecycleIInv == TypeOK /\ NothingOutlivesItsHost

LEMMA LifecycleInitially == LifecycleInit => LifecycleIInv
<1> SUFFICES ASSUME LifecycleInit PROVE LifecycleIInv
  OBVIOUS
<1>1. Range(<<>>) = {} /\ <<>> \in Seq(Isolates) /\ <<>> \in Seq(Nat \ {0})
  BY DEF Range
<1>2. TypeOK
  BY <1>1 DEF LifecycleInit, TypeOK
<1>3. ScopesOutliveHandles
  BY <1>1 DEF LifecycleInit, ScopesOutliveHandles
<1>4. PlatformOutlivesV8 /\ V8OutlivesIsolates /\ IsolatesOutliveUses
  BY <1>1 DEF LifecycleInit, PlatformOutlivesV8, V8OutlivesIsolates, IsolatesOutliveUses
<1> QED
  BY <1>2, <1>3, <1>4 DEF LifecycleIInv, NothingOutlivesItsHost

\* A call on the process or the platform touches no isolate.
LEMMA ProcessCall ==
    ASSUME LifecycleIInv, NEW f \in ProcessCalls, AllowedProcess(f), EffectOnProcess(f)
    PROVE  LifecycleIInv'
<1>1. TypeOK'
  BY DEF LifecycleIInv, TypeOK, EffectOnProcess
<1>2. IsolatesOutliveUses' /\ ScopesOutliveHandles'
  BY DEF LifecycleIInv, NothingOutlivesItsHost, IsolatesOutliveUses, ScopesOutliveHandles,
     EffectOnProcess
<1>3. PlatformOutlivesV8' /\ V8OutlivesIsolates'
  BY DEF ProcessCalls, LifecycleIInv, TypeOK, NothingOutlivesItsHost, PlatformOutlivesV8,
     V8OutlivesIsolates, AllowedProcess, EffectOnProcess
<1> QED
  BY <1>1, <1>2, <1>3 DEF LifecycleIInv, NothingOutlivesItsHost

\* Every call on an isolate keeps the types and what its parts need.
LEMMA IsolateCall ==
    ASSUME LifecycleIInv, NEW f \in IsolateCalls, NEW i \in Isolates,
           AllowedIsolate(f, i), EffectOnIsolate(f, i)
    PROVE  LifecycleIInv'
<1>1. UNCHANGED <<platform, v8, allocator>>
  BY DEF EffectOnIsolate
<1>2. PlatformOutlivesV8'
  BY <1>1 DEF LifecycleIInv, NothingOutlivesItsHost, PlatformOutlivesV8
<1> SUFFICES TypeOK' /\ V8OutlivesIsolates' /\ IsolatesOutliveUses' /\ ScopesOutliveHandles'
  BY <1>2 DEF LifecycleIInv, NothingOutlivesItsHost
<1> USE DEF LifecycleIInv, NothingOutlivesItsHost
<1>3. CASE f = "Isolate.init"
  <2>1. /\ isolates' = isolates \cup {i}
        /\ UNCHANGED <<entered, scopes, made, contexts, catchers>>
    BY <1>3 DEF EffectOnIsolate
  <2>2. v8 = "up" /\ allocator
    BY <1>3 DEF AllowedIsolate
  <2>3. TypeOK'
    BY <1>1, <2>1, <2>2 DEF TypeOK
  <2>4. V8OutlivesIsolates' /\ IsolatesOutliveUses'
    BY <1>1, <2>1, <2>2 DEF TypeOK, V8OutlivesIsolates, IsolatesOutliveUses
  <2>5. ScopesOutliveHandles'
    BY <2>1, <2>2 DEF TypeOK, ScopesOutliveHandles
  <2> QED
    BY <2>3, <2>4, <2>5
<1>4. CASE f = "Isolate.deinit"
  <2>1. /\ isolates' = isolates \ {i}
        /\ UNCHANGED <<entered, scopes, made, contexts, catchers>>
    BY <1>4 DEF EffectOnIsolate
  <2>2. i \notin Range(entered) /\ scopes[i] = 0
    BY <1>4 DEF AllowedIsolate
  <2>3. TypeOK'
    BY <1>1, <2>1, <2>2 DEF TypeOK
  <2>4. V8OutlivesIsolates' /\ IsolatesOutliveUses'
    BY <1>1, <2>1, <2>2 DEF TypeOK, V8OutlivesIsolates, IsolatesOutliveUses
  <2>5. ScopesOutliveHandles'
    BY <2>1, <2>2 DEF TypeOK, ScopesOutliveHandles
  <2> QED
    BY <2>3, <2>4, <2>5
<1>5. CASE f = "Isolate.enter"
  <2>1. /\ entered' = Append(entered, i)
        /\ UNCHANGED <<isolates, scopes, made, contexts, catchers>>
    BY <1>5 DEF EffectOnIsolate
  <2>2. i \in isolates
    BY <1>5 DEF AllowedIsolate
  <2>3. /\ Append(entered, i) \in Seq(Isolates)
        /\ Range(Append(entered, i)) = Range(entered) \cup {i}
    BY PushRange DEF TypeOK
  <2>4. TypeOK'
    BY <1>1, <2>1, <2>2, <2>3 DEF TypeOK
  <2>5. V8OutlivesIsolates' /\ IsolatesOutliveUses'
    BY <1>1, <2>1, <2>2, <2>3 DEF TypeOK, V8OutlivesIsolates, IsolatesOutliveUses
  <2>6. ScopesOutliveHandles'
    BY <2>1, <2>2, <2>3 DEF TypeOK, ScopesOutliveHandles
  <2> QED
    BY <2>4, <2>5, <2>6
<1>6. CASE f = "Isolate.exit"
  <2>1. /\ entered' = Front(entered)
        /\ UNCHANGED <<isolates, scopes, made, contexts, catchers>>
    BY <1>6 DEF EffectOnIsolate
  <2>2. entered # <<>>
    BY <1>6 DEF AllowedIsolate
  <2>3. Front(entered) \in Seq(Isolates) /\ Range(Front(entered)) \subseteq Range(entered)
    BY <2>2, PopRange DEF TypeOK
  <2>4. TypeOK'
    BY <1>1, <2>1, <2>2, <2>3 DEF TypeOK
  <2>5. V8OutlivesIsolates' /\ IsolatesOutliveUses'
    BY <1>1, <2>1, <2>2, <2>3 DEF TypeOK, V8OutlivesIsolates, IsolatesOutliveUses
  <2>6. ScopesOutliveHandles'
    BY <2>1, <2>2, <2>3 DEF TypeOK, ScopesOutliveHandles
  <2> QED
    BY <2>4, <2>5, <2>6
<1>7. CASE f = "HandleScope.init"
  <2>1. /\ scopes' = [scopes EXCEPT ![i] = @ + 1]
        /\ UNCHANGED <<isolates, entered, made, contexts, catchers>>
    BY <1>7 DEF EffectOnIsolate
  <2>2. i \in isolates
    BY <1>7 DEF AllowedIsolate
  <2>3. TypeOK'
    BY <1>1, <2>1, <2>2 DEF TypeOK
  <2>4. V8OutlivesIsolates' /\ IsolatesOutliveUses'
    BY <1>1, <2>1, <2>2 DEF TypeOK, V8OutlivesIsolates, IsolatesOutliveUses
  <2>5. ScopesOutliveHandles'
    BY <2>1, <2>2 DEF TypeOK, ScopesOutliveHandles
  <2> QED
    BY <2>3, <2>4, <2>5
<1>8. CASE f = "HandleScope.deinit"
  <2>1. /\ scopes' = [scopes EXCEPT ![i] = @ - 1]
        /\ made' = [made EXCEPT ![i] = @ \ {scopes[i]}]
        /\ UNCHANGED <<isolates, entered, contexts, catchers>>
    BY <1>8 DEF EffectOnIsolate
  <2>2. /\ scopes[i] > 0
        /\ scopes[i] \notin Range(contexts[i]) \cup Range(catchers[i])
    BY <1>8 DEF AllowedIsolate
  <2>3. TypeOK'
    BY <1>1, <2>1, <2>2 DEF TypeOK
  <2>4. V8OutlivesIsolates' /\ IsolatesOutliveUses'
    BY <1>1, <2>1, <2>2 DEF TypeOK, V8OutlivesIsolates, IsolatesOutliveUses
  <2>5. ScopesOutliveHandles'
    BY <2>1, <2>2 DEF TypeOK, ScopesOutliveHandles
  <2> QED
    BY <2>3, <2>4, <2>5
<1>9. CASE f = "Context.init"
  <2>1. /\ made' = [made EXCEPT ![i] = @ \cup {scopes[i]}]
        /\ UNCHANGED <<isolates, entered, scopes, contexts, catchers>>
    BY <1>9 DEF EffectOnIsolate
  <2>2. scopes[i] > 0
    BY <1>9 DEF AllowedIsolate
  <2>3. TypeOK'
    BY <1>1, <2>1, <2>2 DEF TypeOK
  <2>4. V8OutlivesIsolates' /\ IsolatesOutliveUses'
    BY <1>1, <2>1, <2>2 DEF TypeOK, V8OutlivesIsolates, IsolatesOutliveUses
  <2>5. ScopesOutliveHandles'
    BY <2>1, <2>2 DEF TypeOK, ScopesOutliveHandles
  <2> QED
    BY <2>3, <2>4, <2>5
<1>10. CASE f = "Context.enter"
  <2>1. PICK n \in made[i] : contexts' = [contexts EXCEPT ![i] = Append(@, n)]
    BY <1>10 DEF EffectOnIsolate
  <2>2. UNCHANGED <<isolates, entered, scopes, made, catchers>>
    BY <1>10 DEF EffectOnIsolate
  <2>3. n \in Nat \ {0} /\ contexts[i] \in Seq(Nat \ {0}) /\ n \in 1 .. scopes[i]
    BY DEF TypeOK, ScopesOutliveHandles
  <2>4. /\ Append(contexts[i], n) \in Seq(Nat \ {0})
        /\ Range(Append(contexts[i], n)) = Range(contexts[i]) \cup {n}
    BY <2>3, PushRange
  <2>5. TypeOK'
    BY <1>1, <2>1, <2>2, <2>4 DEF TypeOK
  <2>6. V8OutlivesIsolates' /\ IsolatesOutliveUses'
    BY <1>1, <2>2 DEF V8OutlivesIsolates, IsolatesOutliveUses
  <2>7. ScopesOutliveHandles'
    BY <2>1, <2>2, <2>3, <2>4 DEF ScopesOutliveHandles, TypeOK
  <2> QED
    BY <2>5, <2>6, <2>7
<1>11. CASE f = "Context.exit"
  <2>1. /\ contexts' = [contexts EXCEPT ![i] = Front(@)]
        /\ UNCHANGED <<isolates, entered, scopes, made, catchers>>
    BY <1>11 DEF EffectOnIsolate
  <2>2. contexts[i] # <<>>
    BY <1>11 DEF AllowedIsolate
  <2>3. contexts[i] \in Seq(Nat \ {0})
    BY DEF TypeOK
  <2>4. /\ Front(contexts[i]) \in Seq(Nat \ {0})
        /\ Range(Front(contexts[i])) \subseteq Range(contexts[i])
    BY <2>2, <2>3, PopRange
  <2>5. TypeOK'
    BY <1>1, <2>1, <2>2, <2>4 DEF TypeOK
  <2>6. V8OutlivesIsolates' /\ IsolatesOutliveUses'
    BY <1>1, <2>1, <2>2, <2>4 DEF TypeOK, V8OutlivesIsolates, IsolatesOutliveUses
  <2>7. ScopesOutliveHandles'
    BY <2>1, <2>2, <2>4 DEF TypeOK, ScopesOutliveHandles
  <2> QED
    BY <2>5, <2>6, <2>7
<1>12. CASE f = "TryCatch.init"
  <2>1. /\ catchers' = [catchers EXCEPT ![i] = Append(@, scopes[i])]
        /\ UNCHANGED <<isolates, entered, scopes, made, contexts>>
    BY <1>12 DEF EffectOnIsolate
  <2>2. scopes[i] > 0
    BY <1>12 DEF AllowedIsolate
  <2>3. catchers[i] \in Seq(Nat \ {0}) /\ scopes[i] \in Nat \ {0}
    BY <2>2 DEF TypeOK
  <2>4. /\ Append(catchers[i], scopes[i]) \in Seq(Nat \ {0})
        /\ Range(Append(catchers[i], scopes[i])) = Range(catchers[i]) \cup {scopes[i]}
    BY <2>3, PushRange
  <2>5. TypeOK'
    BY <1>1, <2>1, <2>2, <2>3, <2>4 DEF TypeOK
  <2>6. V8OutlivesIsolates' /\ IsolatesOutliveUses'
    BY <1>1, <2>1, <2>2, <2>3, <2>4 DEF TypeOK, V8OutlivesIsolates, IsolatesOutliveUses
  <2>7. ScopesOutliveHandles'
    BY <2>1, <2>2, <2>3, <2>4 DEF TypeOK, ScopesOutliveHandles
  <2> QED
    BY <2>5, <2>6, <2>7
<1>13. CASE f = "TryCatch.deinit"
  <2>1. /\ catchers' = [catchers EXCEPT ![i] = Front(@)]
        /\ UNCHANGED <<isolates, entered, scopes, made, contexts>>
    BY <1>13 DEF EffectOnIsolate
  <2>2. catchers[i] # <<>>
    BY <1>13 DEF AllowedIsolate
  <2>3. catchers[i] \in Seq(Nat \ {0})
    BY DEF TypeOK
  <2>4. /\ Front(catchers[i]) \in Seq(Nat \ {0})
        /\ Range(Front(catchers[i])) \subseteq Range(catchers[i])
    BY <2>2, <2>3, PopRange
  <2>5. TypeOK'
    BY <1>1, <2>1, <2>2, <2>4 DEF TypeOK
  <2>6. V8OutlivesIsolates' /\ IsolatesOutliveUses'
    BY <1>1, <2>1, <2>2, <2>4 DEF TypeOK, V8OutlivesIsolates, IsolatesOutliveUses
  <2>7. ScopesOutliveHandles'
    BY <2>1, <2>2, <2>4 DEF TypeOK, ScopesOutliveHandles
  <2> QED
    BY <2>5, <2>6, <2>7
<1> QED
  BY <1>3, <1>4, <1>5, <1>6, <1>7, <1>8, <1>9, <1>10, <1>11, <1>12, <1>13 DEF IsolateCalls

\* So does every step that V8Lifecycle allows.
\* Whatever is called, what is there keeps what it needs.
LEMMA LifecycleStep == LifecycleIInv /\ [LifecycleNext]_lifecycle => LifecycleIInv'
<1> SUFFICES ASSUME LifecycleIInv, [LifecycleNext]_lifecycle PROVE LifecycleIInv'
  OBVIOUS
<1>1. CASE \E f \in ProcessCalls : AllowedProcess(f) /\ EffectOnProcess(f)
  BY <1>1, ProcessCall
<1>2. CASE \E f \in IsolateCalls, i \in Isolates :
               AllowedIsolate(f, i) /\ EffectOnIsolate(f, i)
  BY <1>2, IsolateCall
<1>3. CASE UNCHANGED lifecycle
  BY <1>3 DEF lifecycle, LifecycleIInv, TypeOK, NothingOutlivesItsHost, PlatformOutlivesV8,
     V8OutlivesIsolates, IsolatesOutliveUses, ScopesOutliveHandles
<1> QED
  BY <1>1, <1>2, <1>3 DEF LifecycleNext

\* The invariant holds in every behaviour that keeps to the requirements.
LEMMA LifecycleInvariance == LifecycleSpec => []LifecycleIInv
BY LifecycleInitially, LifecycleStep, PTL DEF LifecycleSpec

\* The state of V8 that the calls of v8.zig leave is always of its type.
THEOREM LifecycleTypes == LifecycleSpec => []TypeOK
<1>1. LifecycleIInv => TypeOK
  BY DEF LifecycleIInv
<1> QED
  BY <1>1, LifecycleInvariance, PTL

\* Whoever keeps to what each call requires tears V8 down in an order in which
\* nothing is used after what it needs is gone.
THEOREM HostsOutlive == LifecycleSpec => []NothingOutlivesItsHost
<1>1. LifecycleIInv => NothingOutlivesItsHost
  BY DEF LifecycleIInv
<1> QED
  BY <1>1, LifecycleInvariance, PTL
------------------------------------------------------------------------------
\* The defers of the three frames in the order of their statements, and all calls
\* that are deferred.
OuterDefers == << "gpa.deinit", "input_buf.deinit", "Platform.deinit",
                  "deinitV8Platform", "deinitV8", "destroyArrayBufferAllocator",
                  "Isolate.deinit", "Isolate.exit", "HandleScope.deinit", "Context.exit" >>
ExecuteDefers == << "HandleScope.deinit", "TryCatch.deinit" >>
ErrorDefers == << "HandleScope.deinit" >>

Calls == ProcessCalls \cup IsolateCalls \cup {"gpa.deinit", "input_buf.deinit"}

\* A stack of one.
LEMMA Singleton ==
  ASSUME NEW a
  PROVE /\ Append(<<>>, a) = <<a>> /\ Front(<<a>>) = <<>> /\ Last(<<a>>) = a
        /\ Range(<<a>>) = {a} /\ <<a>> # <<>> /\ Len(<<a>>) = 1
<1>1. Append(<<>>, a) = <<a>> /\ <<a>> # <<>> /\ Len(<<a>>) = 1
  OBVIOUS
<1>2. Last(<<a>>) = a
  BY DEF Last
<1>3. Front(<<a>>) = <<>>
  BY <1>1, SubSeqEmpty DEF Front
<1>4. Range(<<a>>) = {a}
  BY DEF Range
<1> QED
  BY <1>1, <1>2, <1>3, <1>4

\* The last of the first n defers, and those before it.
LEMMA Opening ==
  ASSUME NEW s, NEW m \in Nat, \A k \in 1 .. m : s[k] \in Calls, NEW n \in 1 .. m
  PROVE /\ SubSeq(s, 1, n) # <<>>
        /\ Last(SubSeq(s, 1, n)) = s[n]
        /\ Front(SubSeq(s, 1, n)) = SubSeq(s, 1, n - 1)
        /\ Append(SubSeq(s, 1, n - 1), s[n]) = SubSeq(s, 1, n)
<1>1. n \in Nat /\ \A k \in 1 .. n : s[k] \in Calls
  OBVIOUS
<1>2. /\ SubSeq(s, 1, n) \in Seq(Calls)
      /\ Len(SubSeq(s, 1, n)) = n
      /\ \A k \in 1 .. n : SubSeq(s, 1, n)[k] = s[k]
  BY <1>1, SubSeqProperties
<1>3. /\ SubSeq(s, 1, n - 1) \in Seq(Calls)
      /\ Len(SubSeq(s, 1, n - 1)) = n - 1
      /\ \A k \in 1 .. n - 1 : SubSeq(s, 1, n - 1)[k] = s[k]
  <2>1. n - 1 \in Int /\ \A k \in 1 .. n - 1 : s[k] \in Calls
    BY <1>1
  <2>2. /\ SubSeq(s, 1, n - 1) \in Seq(Calls)
        /\ Len(SubSeq(s, 1, n - 1)) = IF 1 <= n - 1 THEN n - 1 - 1 + 1 ELSE 0
        /\ \A k \in 1 .. n - 1 - 1 + 1 : SubSeq(s, 1, n - 1)[k] = s[1 + k - 1]
    BY <2>1, SubSeqProperties
  <2> QED
    BY <2>2
<1>4. SubSeq(s, 1, n) # <<>>
  <2>1. n # 0 /\ Len(<<>>) = 0
    OBVIOUS
  <2> QED
    BY <1>2, <2>1
<1>5. Last(SubSeq(s, 1, n)) = s[n]
  BY <1>2 DEF Last
<1>6. Append(SubSeq(s, 1, n - 1), s[n]) = SubSeq(s, 1, n)
  <2>1. s[n] \in Calls
    BY <1>1
  <2>2. /\ Append(SubSeq(s, 1, n - 1), s[n]) \in Seq(Calls)
        /\ Len(Append(SubSeq(s, 1, n - 1), s[n])) = n
        /\ \A k \in 1 .. n - 1 : Append(SubSeq(s, 1, n - 1), s[n])[k] = s[k]
        /\ Append(SubSeq(s, 1, n - 1), s[n])[n] = s[n]
    BY <1>3, <2>1, AppendProperties
  <2>3. \A k \in 1 .. n : Append(SubSeq(s, 1, n - 1), s[n])[k] = SubSeq(s, 1, n)[k]
    BY <2>2, <1>2
  <2> QED
    BY <2>2, <2>3, <1>2, SeqEqual
<1>7. Front(SubSeq(s, 1, n)) = SubSeq(s, 1, n - 1)
  <2>1. /\ Front(SubSeq(s, 1, n)) \in Seq(Calls)
        /\ Len(Front(SubSeq(s, 1, n))) = n - 1
        /\ \A k \in 1 .. n - 1 : Front(SubSeq(s, 1, n))[k] = s[k]
    <3>1. n - 1 \in Int /\ \A k \in 1 .. n - 1 : SubSeq(s, 1, n)[k] \in Calls
      BY <1>1, <1>2
    <3>2. /\ SubSeq(SubSeq(s, 1, n), 1, n - 1) \in Seq(Calls)
          /\ Len(SubSeq(SubSeq(s, 1, n), 1, n - 1)) = IF 1 <= n - 1 THEN n - 1 - 1 + 1 ELSE 0
          /\ \A k \in 1 .. n - 1 - 1 + 1 :
                SubSeq(SubSeq(s, 1, n), 1, n - 1)[k] = SubSeq(s, 1, n)[1 + k - 1]
      BY <3>1, SubSeqProperties
    <3> QED
      BY <3>2, <1>2 DEF Front
  <2> QED
    BY <2>1, <1>3, SeqEqual
<1> QED
  BY <1>4, <1>5, <1>6, <1>7

\* The statements and their defers, read off the tables.
LEMMA Tables ==
  /\ Len(Setup) = 11 /\ Len(ExecuteSetup) = 2 /\ Len(ErrorSetup) = 1
  /\ \A k \in 1 .. 10 : OuterDefers[k] \in Calls
  /\ \A k \in 1 .. 2 : ExecuteDefers[k] \in Calls
  /\ \A k \in 1 .. 1 : ErrorDefers[k] \in Calls
<1>1. \A k \in 1 .. 10 : OuterDefers[k] \in Calls
  BY DEF OuterDefers, Calls, ProcessCalls, IsolateCalls
<1>3. \A k \in 1 .. 2 : ExecuteDefers[k] \in Calls
  BY DEF ExecuteDefers, Calls, IsolateCalls
<1>4. \A k \in 1 .. 1 : ErrorDefers[k] \in Calls
  BY DEF ErrorDefers, Calls, IsolateCalls
<1>5. Len(Setup) = 11 /\ Len(ExecuteSetup) = 2 /\ Len(ErrorSetup) = 1
  BY DEF Setup, ExecuteSetup, ErrorSetup
<1> QED
  BY <1>1, <1>3, <1>4, <1>5

LEMMA SetupTable ==
    /\ \A k \in 1 .. 9 : Setup[k].defer = OuterDefers[k]
    /\ Setup[10].defer = Nothing /\ Setup[11].defer = OuterDefers[10]
    /\ \A k \in 1 .. 10 : OuterDefers[k] # Nothing
<1>1. Setup[10].defer = Nothing /\ Setup[11].defer = OuterDefers[10]
  BY DEF Setup, OuterDefers
<1>2. ASSUME NEW k \in 1 .. 9 PROVE Setup[k].defer = OuterDefers[k]
  BY DEF Setup, OuterDefers
<1>3. ASSUME NEW k \in 1 .. 10 PROVE OuterDefers[k] # Nothing
  BY DEF OuterDefers, Nothing
<1> QED
  BY <1>1, <1>2, <1>3
------------------------------------------------------------------------------
\* What V8 is when repl has still to run its first n defers, executeString its
\* first x and getTryCatchErrorString its first e; V8 is down before it was
\* initialised and disposed after.
V8Is(n, x, e, down) ==
    /\ platform = (IF n < 3 THEN "none" ELSE IF n = 3 THEN "made" ELSE "set")
    /\ v8 = (IF n < 5 THEN down ELSE "up")
    /\ allocator \in BOOLEAN /\ (allocator <=> n >= 6)
    /\ isolates = (IF n >= 7 THEN {Isolate} ELSE {})
    /\ entered = (IF n >= 8 THEN <<Isolate>> ELSE <<>>)
    /\ scopes[Isolate] = (IF n < 9 THEN 0 ELSE IF x = 0 THEN 1 ELSE 2 + e)
    /\ contexts[Isolate] = (IF n < 10 THEN <<>> ELSE <<1>>)
    /\ catchers[Isolate] = (IF x < 2 THEN <<>> ELSE <<2>>)

\* Whether the context exists.  It is made by a statement that defers nothing.
Made == made[Isolate] = {1}
Unmade == made[Isolate] = {}

\* The GPA, and the input buffer allocated from it, are the first to come and the
\* last to go.
Memory(n) == gpa \in BOOLEAN /\ (gpa <=> n >= 1) /\ (heap # {} => n >= 2)

\* What a call of V8 does, and what another one does.
LEMMA Performs ==
    ASSUME NEW call, Perform(call)
    PROVE  /\ call \in ProcessCalls => EffectOnProcess(call) /\ UNCHANGED <<gpa, heap>>
           /\ call \in IsolateCalls => /\ EffectOnIsolate(call, Isolate)
                                       /\ UNCHANGED <<gpa, heap>>
           /\ call \notin ProcessCalls \cup IsolateCalls => UNCHANGED lifecycle
BY DEF Perform, ProcessCalls, IsolateCalls

\* A call that is allowed is a step of V8Lifecycle.
LEMMA Obeys ==
    ASSUME NEW call, Perform(call),
           call \in ProcessCalls => AllowedProcess(call),
           call \in IsolateCalls => AllowedIsolate(call, Isolate)
    PROVE  [LifecycleNext]_lifecycle
BY Performs, ReplAssumption DEF LifecycleNext

\* The k-th statement of repl's setup is allowed, and adds to V8 what it stands for.
LEMMA SettingUp ==
    ASSUME LifecycleIInv, NEW k \in 1 .. 11,
           V8Is(IF k <= 10 THEN k - 1 ELSE 9, 0, 0, "down"),
           IF k = 11 THEN Made ELSE Unmade, Perform(Setup[k].call)
    PROVE  /\ [LifecycleNext]_lifecycle
           /\ k <= 9 => V8Is(k, 0, 0, "down")' /\ Unmade'
           /\ k = 10 => V8Is(9, 0, 0, "down")' /\ Made'
           /\ k = 11 => V8Is(10, 0, 0, "disposed")' /\ Made'
<1> USE ReplAssumption, Obeys, Performs DEF LifecycleIInv, V8Is, Made, Unmade
<1>1. CASE k = 1
  <2>1. Setup[k].call = "gpa.init"
    BY <1>1 DEF Setup
  <2>2. UNCHANGED lifecycle
    BY <2>1 DEF ProcessCalls, IsolateCalls
  <2> QED
    BY <1>1, <2>2 DEF lifecycle
<1>2. CASE k = 2
  <2>1. Setup[k].call = "input_buf.init"
    BY <1>2 DEF Setup
  <2>2. UNCHANGED lifecycle
    BY <2>1 DEF ProcessCalls, IsolateCalls
  <2> QED
    BY <1>2, <2>2 DEF lifecycle
<1>3. CASE k = 3
  <2>1. Setup[k].call = "initDefault"
    BY <1>3 DEF Setup
  <2>2. EffectOnProcess("initDefault") /\ AllowedProcess("initDefault")
    BY <1>3, <2>1 DEF ProcessCalls, AllowedProcess
  <2>3. [LifecycleNext]_lifecycle
    BY <2>1, <2>2 DEF IsolateCalls
  <2> QED
    BY <1>3, <2>2, <2>3 DEF EffectOnProcess
<1>4. CASE k = 4
  <2>1. Setup[k].call = "initV8Platform"
    BY <1>4 DEF Setup
  <2>2. EffectOnProcess("initV8Platform") /\ AllowedProcess("initV8Platform")
    BY <1>4, <2>1 DEF ProcessCalls, AllowedProcess
  <2>3. [LifecycleNext]_lifecycle
    BY <2>1, <2>2 DEF IsolateCalls
  <2> QED
    BY <1>4, <2>2, <2>3 DEF EffectOnProcess
<1>5. CASE k = 5
  <2>1. Setup[k].call = "initV8"
    BY <1>5 DEF Setup
  <2>2. EffectOnProcess("initV8") /\ AllowedProcess("initV8")
    BY <1>5, <2>1 DEF ProcessCalls, AllowedProcess
  <2>3. [LifecycleNext]_lifecycle
    BY <2>1, <2>2 DEF IsolateCalls
  <2> QED
    BY <1>5, <2>2, <2>3 DEF EffectOnProcess
<1>6. CASE k = 6
  <2>1. Setup[k].call = "createDefaultArrayBufferAllocator"
    BY <1>6 DEF Setup
  <2>2. /\ EffectOnProcess("createDefaultArrayBufferAllocator")
        /\ AllowedProcess("createDefaultArrayBufferAllocator")
    BY <1>6, <2>1 DEF ProcessCalls, AllowedProcess
  <2>3. [LifecycleNext]_lifecycle
    BY <2>1, <2>2 DEF IsolateCalls
  <2> QED
    BY <1>6, <2>2, <2>3 DEF EffectOnProcess
<1>7. CASE k = 7
  <2>1. Setup[k].call = "Isolate.init"
    BY <1>7 DEF Setup
  <2>2. EffectOnIsolate("Isolate.init", Isolate) /\ AllowedIsolate("Isolate.init", Isolate)
    BY <1>7, <2>1 DEF IsolateCalls, AllowedIsolate
  <2>3. [LifecycleNext]_lifecycle
    BY <2>1, <2>2 DEF ProcessCalls
  <2> QED
    BY <1>7, <2>2, <2>3 DEF EffectOnIsolate
<1>8. CASE k = 8
  <2>1. Setup[k].call = "Isolate.enter"
    BY <1>8 DEF Setup
  <2>2. /\ EffectOnIsolate("Isolate.enter", Isolate)
        /\ AllowedIsolate("Isolate.enter", Isolate)
    BY <1>8, <2>1 DEF IsolateCalls, AllowedIsolate
  <2>3. [LifecycleNext]_lifecycle
    BY <2>1, <2>2 DEF ProcessCalls
  <2> QED
    BY <1>8, <2>2, <2>3, Singleton DEF EffectOnIsolate
<1>9. CASE k = 9
  <2>1. Setup[k].call = "HandleScope.init"
    BY <1>9 DEF Setup
  <2>2. /\ EffectOnIsolate("HandleScope.init", Isolate)
        /\ AllowedIsolate("HandleScope.init", Isolate)
    BY <1>9, <2>1 DEF IsolateCalls, AllowedIsolate
  <2>3. [LifecycleNext]_lifecycle
    BY <2>1, <2>2 DEF ProcessCalls
  <2> QED
    BY <1>9, <2>2, <2>3 DEF EffectOnIsolate, TypeOK
<1>10. CASE k = 10
  <2>1. Setup[k].call = "Context.init"
    BY <1>10 DEF Setup
  <2>2. EffectOnIsolate("Context.init", Isolate) /\ AllowedIsolate("Context.init", Isolate)
    BY <1>10, <2>1 DEF IsolateCalls, AllowedIsolate
  <2>3. [LifecycleNext]_lifecycle
    BY <2>1, <2>2 DEF ProcessCalls
  <2> QED
    BY <1>10, <2>2, <2>3 DEF EffectOnIsolate, TypeOK
<1>11. CASE k = 11
  <2>1. Setup[k].call = "Context.enter"
    BY <1>11 DEF Setup
  <2>0. made[Isolate] # {} /\ Len(contexts[Isolate]) = 0
    BY <1>11
  <2>2. /\ EffectOnIsolate("Context.enter", Isolate)
        /\ AllowedIsolate("Context.enter", Isolate)
    BY <2>0, <2>1 DEF IsolateCalls, AllowedIsolate
  <2>3. [LifecycleNext]_lifecycle
    BY <2>1, <2>2 DEF ProcessCalls
  <2>4. contexts' = [contexts EXCEPT ![Isolate] = Append(@, 1)]
    BY <1>11, <2>2 DEF EffectOnIsolate
  <2> QED
    BY <1>11, <2>2, <2>3, <2>4, Singleton DEF EffectOnIsolate, TypeOK
<1> QED
  BY <1>1, <1>2, <1>3, <1>4, <1>5, <1>6, <1>7, <1>8, <1>9, <1>10, <1>11

\* The n-th defer of repl is allowed when it comes to it, and takes away from V8
\* what its statement had added.
LEMMA TakingDown ==
    ASSUME LifecycleIInv, NEW n \in 1 .. 10,
           V8Is(n, 0, 0, "disposed"), Memory(n), IF n >= 9 THEN Made ELSE Unmade,
           heap \subseteq {"input"}, Perform(OuterDefers[n])
    PROVE  /\ [LifecycleNext]_lifecycle
           /\ V8Is(n - 1, 0, 0, "disposed")'
           /\ Memory(n - 1)' /\ IF n - 1 >= 9 THEN Made' ELSE Unmade'
           /\ heap' \subseteq heap
<1> USE ReplAssumption, Obeys, Performs DEF LifecycleIInv, V8Is, Made, Unmade
<1>a. /\ OuterDefers[n] = "gpa.deinit" <=> n = 1
      /\ OuterDefers[n] = "input_buf.deinit" <=> n = 2
      /\ OuterDefers[n] # "gpa.init"
  BY DEF OuterDefers
<1>b. Memory(n - 1)' /\ heap' \subseteq heap
  <2>1. CASE n = 1
    BY <1>a, <2>1 DEF Perform, Memory
  <2>2. CASE n = 2
    <3>1. gpa' = gpa /\ heap' = {}
      BY <1>a, <2>2 DEF Perform
    <3> QED
      BY <2>2, <3>1 DEF Memory
  <2>3. CASE n > 2
    <3>0. OuterDefers[n] \notin {"gpa.init", "gpa.deinit", "input_buf.deinit"}
      BY <1>a, <2>3
    <3>1. gpa' = gpa /\ heap' = heap
      BY <3>0 DEF Perform
    <3> QED
      BY <2>3, <3>1 DEF Memory
  <2> QED
    BY <2>1, <2>2, <2>3
<1>1. CASE n = 1
  <2>1. OuterDefers[n] = "gpa.deinit"
    BY <1>1 DEF OuterDefers
  <2>2. UNCHANGED lifecycle
    BY <2>1 DEF ProcessCalls, IsolateCalls
  <2> QED
    BY <1>1, <1>b, <2>2 DEF lifecycle
<1>2. CASE n = 2
  <2>1. OuterDefers[n] = "input_buf.deinit"
    BY <1>2 DEF OuterDefers
  <2>2. UNCHANGED lifecycle
    BY <2>1 DEF ProcessCalls, IsolateCalls
  <2> QED
    BY <1>2, <1>b, <2>2 DEF lifecycle
<1>3. CASE n = 3
  <2>1. OuterDefers[n] = "Platform.deinit"
    BY <1>3 DEF OuterDefers
  <2>2. EffectOnProcess("Platform.deinit") /\ AllowedProcess("Platform.deinit")
    BY <1>3, <2>1 DEF ProcessCalls, AllowedProcess
  <2>3. [LifecycleNext]_lifecycle
    BY <2>1, <2>2 DEF IsolateCalls
  <2> QED
    BY <1>3, <1>b, <2>2, <2>3 DEF EffectOnProcess
<1>4. CASE n = 4
  <2>1. OuterDefers[n] = "deinitV8Platform"
    BY <1>4 DEF OuterDefers
  <2>2. EffectOnProcess("deinitV8Platform") /\ AllowedProcess("deinitV8Platform")
    BY <1>4, <2>1 DEF ProcessCalls, AllowedProcess
  <2>3. [LifecycleNext]_lifecycle
    BY <2>1, <2>2 DEF IsolateCalls
  <2> QED
    BY <1>4, <1>b, <2>2, <2>3 DEF EffectOnProcess
<1>5. CASE n = 5
  <2>1. OuterDefers[n] = "deinitV8"
    BY <1>5 DEF OuterDefers
  <2>2. EffectOnProcess("deinitV8") /\ AllowedProcess("deinitV8")
    BY <1>5, <2>1 DEF ProcessCalls, AllowedProcess
  <2>3. [LifecycleNext]_lifecycle
    BY <2>1, <2>2 DEF IsolateCalls
  <2> QED
    BY <1>5, <1>b, <2>2, <2>3 DEF EffectOnProcess
<1>6. CASE n = 6
  <2>1. OuterDefers[n] = "destroyArrayBufferAllocator"
    BY <1>6 DEF OuterDefers
  <2>2. /\ EffectOnProcess("destroyArrayBufferAllocator")
        /\ AllowedProcess("destroyArrayBufferAllocator")
    BY <1>6, <2>1 DEF ProcessCalls, AllowedProcess
  <2>3. [LifecycleNext]_lifecycle
    BY <2>1, <2>2 DEF IsolateCalls
  <2> QED
    BY <1>6, <1>b, <2>2, <2>3 DEF EffectOnProcess
<1>7. CASE n = 7
  <2>1. OuterDefers[n] = "Isolate.deinit"
    BY <1>7 DEF OuterDefers
  <2>2. /\ EffectOnIsolate("Isolate.deinit", Isolate)
        /\ AllowedIsolate("Isolate.deinit", Isolate)
    BY <1>7, <2>1, Singleton DEF IsolateCalls, AllowedIsolate, Range
  <2>3. [LifecycleNext]_lifecycle
    BY <2>1, <2>2 DEF ProcessCalls
  <2> QED
    BY <1>7, <1>b, <2>2, <2>3 DEF EffectOnIsolate, TypeOK
<1>8. CASE n = 8
  <2>1. OuterDefers[n] = "Isolate.exit"
    BY <1>8 DEF OuterDefers
  <2>2. /\ EffectOnIsolate("Isolate.exit", Isolate)
        /\ AllowedIsolate("Isolate.exit", Isolate)
    BY <1>8, <2>1, Singleton DEF IsolateCalls, AllowedIsolate
  <2>3. [LifecycleNext]_lifecycle
    BY <2>1, <2>2 DEF ProcessCalls
  <2> QED
    BY <1>8, <1>b, <2>2, <2>3, Singleton DEF EffectOnIsolate, TypeOK
<1>9. CASE n = 9
  <2>1. OuterDefers[n] = "HandleScope.deinit"
    BY <1>9 DEF OuterDefers
  <2>2. /\ EffectOnIsolate("HandleScope.deinit", Isolate)
        /\ AllowedIsolate("HandleScope.deinit", Isolate)
    BY <1>9, <2>1, Singleton DEF IsolateCalls, AllowedIsolate, Range
  <2>3. [LifecycleNext]_lifecycle
    BY <2>1, <2>2 DEF ProcessCalls
  <2> QED
    BY <1>9, <1>b, <2>2, <2>3, Singleton DEF EffectOnIsolate, TypeOK
<1>10. CASE n = 10
  <2>1. OuterDefers[n] = "Context.exit"
    BY <1>10 DEF OuterDefers
  <2>2. /\ EffectOnIsolate("Context.exit", Isolate)
        /\ AllowedIsolate("Context.exit", Isolate)
    BY <1>10, <2>1, Singleton DEF IsolateCalls, AllowedIsolate
  <2>3. [LifecycleNext]_lifecycle
    BY <2>1, <2>2 DEF ProcessCalls
  <2> QED
    BY <1>10, <1>b, <2>2, <2>3, Singleton DEF EffectOnIsolate, TypeOK
<1> QED
  BY <1>1, <1>2, <1>3, <1>4, <1>5, <1>6, <1>7, <1>8, <1>9, <1>10

\* The same for the statements of executeString and its defers, one scope further in.
LEMMA Executing ==
    ASSUME LifecycleIInv, Made, NEW x \in 0 .. 2, V8Is(10, x, 0, "disposed"), NEW call,
           Perform(call)
    PROVE  /\ x < 2 /\ call = ExecuteSetup[x + 1].call =>
                /\ [LifecycleNext]_lifecycle
                /\ V8Is(10, x + 1, 0, "disposed")' /\ Made'
           /\ x > 0 /\ call = ExecuteDefers[x] =>
                /\ [LifecycleNext]_lifecycle
                /\ V8Is(10, x - 1, 0, "disposed")' /\ Made'
<1> USE ReplAssumption, Obeys, Performs DEF LifecycleIInv, V8Is, Made, Unmade
<1>1. CASE call = "HandleScope.init" /\ x = 0
  <2>1. EffectOnIsolate(call, Isolate) /\ AllowedIsolate(call, Isolate)
    BY <1>1 DEF IsolateCalls, AllowedIsolate
  <2>2. [LifecycleNext]_lifecycle
    BY <1>1, <2>1 DEF ProcessCalls
  <2> QED
    BY <1>1, <2>1, <2>2 DEF EffectOnIsolate, TypeOK, ExecuteDefers
<1>2. CASE call = "TryCatch.init" /\ x = 1
  <2>1. EffectOnIsolate(call, Isolate) /\ AllowedIsolate(call, Isolate)
    BY <1>2 DEF IsolateCalls, AllowedIsolate
  <2>2. [LifecycleNext]_lifecycle
    BY <1>2, <2>1 DEF ProcessCalls
  <2> QED
    BY <1>2, <2>1, <2>2, Singleton DEF EffectOnIsolate, TypeOK, ExecuteDefers
<1>3. CASE call = "TryCatch.deinit" /\ x = 2
  <2>1. EffectOnIsolate(call, Isolate) /\ AllowedIsolate(call, Isolate)
    BY <1>3, Singleton DEF IsolateCalls, AllowedIsolate
  <2>2. [LifecycleNext]_lifecycle
    BY <1>3, <2>1 DEF ProcessCalls
  <2> QED
    BY <1>3, <2>1, <2>2, Singleton DEF EffectOnIsolate, TypeOK, ExecuteSetup
<1>4. CASE call = "HandleScope.deinit" /\ x = 1
  <2>1. EffectOnIsolate(call, Isolate) /\ AllowedIsolate(call, Isolate)
    BY <1>4, Singleton DEF IsolateCalls, AllowedIsolate, Range
  <2>2. [LifecycleNext]_lifecycle
    BY <1>4, <2>1 DEF ProcessCalls
  <2> QED
    BY <1>4, <2>1, <2>2 DEF EffectOnIsolate, TypeOK, ExecuteSetup
<1>5. /\ x < 2 /\ call = ExecuteSetup[x + 1].call =>
            (x = 0 /\ call = "HandleScope.init") \/ (x = 1 /\ call = "TryCatch.init")
      /\ x > 0 /\ call = ExecuteDefers[x] =>
            (x = 1 /\ call = "HandleScope.deinit") \/ (x = 2 /\ call = "TryCatch.deinit")
  BY DEF ExecuteSetup, ExecuteDefers
<1> QED
  BY <1>1, <1>2, <1>3, <1>4, <1>5

\* And for getTryCatchErrorString, inside the TryCatch.
LEMMA Reporting ==
    ASSUME LifecycleIInv, Made, NEW e \in 0 .. 1, V8Is(10, 2, e, "disposed"), NEW call,
           Perform(call)
    PROVE  /\ e = 0 /\ call = ErrorSetup[1].call =>
                /\ [LifecycleNext]_lifecycle
                /\ V8Is(10, 2, 1, "disposed")' /\ Made'
           /\ e = 1 /\ call = ErrorDefers[1] =>
                /\ [LifecycleNext]_lifecycle
                /\ V8Is(10, 2, 0, "disposed")' /\ Made'
<1> USE ReplAssumption, Obeys, Performs DEF LifecycleIInv, V8Is, Made, Unmade
<1>1. CASE call = "HandleScope.init" /\ e = 0
  <2>1. EffectOnIsolate(call, Isolate) /\ AllowedIsolate(call, Isolate)
    BY <1>1 DEF IsolateCalls, AllowedIsolate
  <2>2. [LifecycleNext]_lifecycle
    BY <1>1, <2>1 DEF ProcessCalls
  <2> QED
    BY <1>1, <2>1, <2>2 DEF EffectOnIsolate, TypeOK
<1>2. CASE call = "HandleScope.deinit" /\ e = 1
  <2>1. EffectOnIsolate(call, Isolate) /\ AllowedIsolate(call, Isolate)
    BY <1>2, Singleton DEF IsolateCalls, AllowedIsolate
  <2>2. [LifecycleNext]_lifecycle
    BY <1>2, <2>1 DEF ProcessCalls
  <2> QED
    BY <1>2, <2>1, <2>2 DEF EffectOnIsolate, TypeOK
<1>3. ErrorSetup[1].call = "HandleScope.init" /\ ErrorDefers[1] = "HandleScope.deinit"
  BY DEF ErrorSetup, ErrorDefers
<1> QED
  BY <1>1, <1>2, <1>3
------------------------------------------------------------------------------
\* The defers of a frame that has run the statements of its first n.
Opened(defers, n) == SubSeq(defers, 1, n)

\* Of n defers that are still to run the last is the n-th; without it n - 1 are left.
LEMMA Defers ==
    ASSUME NEW s, NEW m \in Nat, \A k \in 1 .. m : s[k] \in Calls, NEW n \in 0 .. m
    PROVE  /\ Opened(s, n) \in Seq(Calls)
           /\ Opened(s, n) = <<>> <=> n = 0
           /\ n > 0 => Last(Opened(s, n)) = s[n] /\ Front(Opened(s, n)) = Opened(s, n - 1)
           /\ n < m => Append(Opened(s, n), s[n + 1]) = Opened(s, n + 1)
<1>1. CASE n = 0
  <2>1. Opened(s, n) = <<>>
    BY <1>1, SubSeqEmpty DEF Opened
  <2>2. 0 < m => Append(SubSeq(s, 1, 1 - 1), s[1]) = SubSeq(s, 1, 1)
    BY Opening
  <2> QED
    BY <1>1, <2>1, <2>2 DEF Opened
<1>2. CASE n > 0
  <2>1. /\ SubSeq(s, 1, n) # <<>>
        /\ Last(SubSeq(s, 1, n)) = s[n]
        /\ Front(SubSeq(s, 1, n)) = SubSeq(s, 1, n - 1)
    BY <1>2, Opening
  <2>2. SubSeq(s, 1, n) \in Seq(Calls)
    BY <1>2, SubSeqProperties
  <2>3. ASSUME n < m PROVE Append(SubSeq(s, 1, n), s[n + 1]) = SubSeq(s, 1, n + 1)
    <3>1. n + 1 \in 1 .. m /\ (n + 1) - 1 = n
      BY <1>2, <2>3
    <3>2. Append(SubSeq(s, 1, (n + 1) - 1), s[n + 1]) = SubSeq(s, 1, n + 1)
      BY <3>1, Opening
    <3> QED
      BY <3>1, <3>2
  <2> QED
    BY <1>2, <2>1, <2>2, <2>3 DEF Opened
<1> QED
  BY <1>1, <1>2

\* In repl, in executeString and in getTryCatchErrorString.
LEMMA OuterOpened ==
    ASSUME NEW n \in 0 .. 10
    PROVE  /\ Opened(OuterDefers, n) \in Seq(Calls)
           /\ Opened(OuterDefers, n) = <<>> <=> n = 0
           /\ n > 0 => /\ Last(Opened(OuterDefers, n)) = OuterDefers[n]
                       /\ Front(Opened(OuterDefers, n)) = Opened(OuterDefers, n - 1)
           /\ n < 10 => Append(Opened(OuterDefers, n), OuterDefers[n + 1]) =
                            Opened(OuterDefers, n + 1)
<1> DEFINE s == OuterDefers
           m == 10
<1>1. m \in Nat /\ n \in 0 .. m /\ \A k \in 1 .. m : s[k] \in Calls
  BY Tables
<1> HIDE DEF s, m
<1>2. /\ Opened(s, n) \in Seq(Calls)
      /\ Opened(s, n) = <<>> <=> n = 0
      /\ n > 0 => Last(Opened(s, n)) = s[n] /\ Front(Opened(s, n)) = Opened(s, n - 1)
      /\ n < m => Append(Opened(s, n), s[n + 1]) = Opened(s, n + 1)
  BY <1>1, Defers
<1> QED
  BY <1>2 DEF s, m

LEMMA ExecuteOpened ==
    ASSUME NEW n \in 0 .. 2
    PROVE  /\ Opened(ExecuteDefers, n) \in Seq(Calls)
           /\ Opened(ExecuteDefers, n) = <<>> <=> n = 0
           /\ n > 0 => /\ Last(Opened(ExecuteDefers, n)) = ExecuteDefers[n]
                       /\ Front(Opened(ExecuteDefers, n)) = Opened(ExecuteDefers, n - 1)
           /\ n < 2 => Append(Opened(ExecuteDefers, n), ExecuteDefers[n + 1]) =
                            Opened(ExecuteDefers, n + 1)
<1> DEFINE s == ExecuteDefers
           m == 2
<1>1. m \in Nat /\ n \in 0 .. m /\ \A k \in 1 .. m : s[k] \in Calls
  BY Tables
<1> HIDE DEF s, m
<1>2. /\ Opened(s, n) \in Seq(Calls)
      /\ Opened(s, n) = <<>> <=> n = 0
      /\ n > 0 => Last(Opened(s, n)) = s[n] /\ Front(Opened(s, n)) = Opened(s, n - 1)
      /\ n < m => Append(Opened(s, n), s[n + 1]) = Opened(s, n + 1)
  BY <1>1, Defers
<1> QED
  BY <1>2 DEF s, m

LEMMA ErrorOpened ==
    ASSUME NEW n \in 0 .. 1
    PROVE  /\ Opened(ErrorDefers, n) \in Seq(Calls)
           /\ Opened(ErrorDefers, n) = <<>> <=> n = 0
           /\ n > 0 => /\ Last(Opened(ErrorDefers, n)) = ErrorDefers[n]
                       /\ Front(Opened(ErrorDefers, n)) = Opened(ErrorDefers, n - 1)
           /\ n < 1 => Append(Opened(ErrorDefers, n), ErrorDefers[n + 1]) =
                            Opened(ErrorDefers, n + 1)
<1> DEFINE s == ErrorDefers
           m == 1
<1>1. m \in Nat /\ n \in 0 .. m /\ \A k \in 1 .. m : s[k] \in Calls
  BY Tables
<1> HIDE DEF s, m
<1>2. /\ Opened(s, n) \in Seq(Calls)
      /\ Opened(s, n) = <<>> <=> n = 0
      /\ n > 0 => Last(Opened(s, n)) = s[n] /\ Front(Opened(s, n)) = Opened(s, n - 1)
      /\ n < m => Append(Opened(s, n), s[n + 1]) = Opened(s, n + 1)
  BY <1>1, Defers
<1> QED
  BY <1>2 DEF s, m

\* A frame is entered, gets or loses a defer, and is left.
LEMMA Entering ==
    ASSUME NEW S, NEW f \in Seq(S), NEW top \in S
    PROVE  /\ Append(f, top) \in Seq(S)
           /\ Len(Append(f, top)) = Len(f) + 1
           /\ \A k \in 1 .. Len(f) : Append(f, top)[k] = f[k]
           /\ Append(f, top)[Len(f) + 1] = top
BY AppendProperties

LEMMA Replacing ==
    ASSUME NEW S, NEW f \in Seq(S), NEW top \in S, Len(f) > 0
    PROVE  /\ [f EXCEPT ![Len(f)] = top] \in Seq(S)
           /\ Len([f EXCEPT ![Len(f)] = top]) = Len(f)
           /\ \A k \in 1 .. Len(f) : [f EXCEPT ![Len(f)] = top][k] =
                                       IF k = Len(f) THEN top ELSE f[k]
<1>1. Len(f) \in 1 .. Len(f)
  BY LenProperties
<1> QED
  BY <1>1, ExceptSeq

LEMMA Leaving ==
    ASSUME NEW S, NEW f \in Seq(S), Len(f) > 0
    PROVE  /\ Front(f) \in Seq(S)
           /\ Len(Front(f)) = Len(f) - 1
           /\ \A k \in 1 .. Len(f) - 1 : Front(f)[k] = f[k]
<1> DEFINE m == Len(f) - 1
<1>1. 1 \in Int /\ m \in Int /\ (\A k \in 1 .. m : f[k] \in S) /\ m >= 0
  BY LenProperties, ElementOfSeq
<1> HIDE DEF m
<1>2. /\ SubSeq(f, 1, m) \in Seq(S)
      /\ Len(SubSeq(f, 1, m)) = IF 1 <= m THEN m - 1 + 1 ELSE 0
      /\ \A k \in 1 .. m - 1 + 1 : SubSeq(f, 1, m)[k] = f[1 + k - 1]
  BY <1>1, SubSeqProperties
<1>3. Front(f) = SubSeq(f, 1, m)
  BY DEF Front, m
<1>4. /\ Front(f) \in Seq(S) /\ Len(Front(f)) = m
      /\ \A k \in 1 .. m : Front(f)[k] = f[k]
  BY <1>1, <1>2, <1>3
<1> QED
  BY <1>4 DEF m
------------------------------------------------------------------------------
(***************************************************************************)
(* The inductive invariant: the frames, and what V8 is, are what the       *)
(* program counter says.                                                   *)
(***************************************************************************)
Framed == frames \in Seq(Seq(Calls))

Outer(n, down) == /\ Len(frames) = 1
                  /\ frames[1] = Opened(OuterDefers, n)
                  /\ V8Is(n, 0, 0, down) /\ Memory(n)
Executes(x) == /\ Len(frames) = 2
               /\ frames[1] = Opened(OuterDefers, 10)
               /\ frames[2] = Opened(ExecuteDefers, x)
               /\ V8Is(10, x, 0, "disposed") /\ Made /\ Memory(10)
Reports(e) == /\ Len(frames) = 3
              /\ frames[1] = Opened(OuterDefers, 10)
              /\ frames[2] = Opened(ExecuteDefers, 2)
              /\ frames[3] = Opened(ErrorDefers, e)
              /\ V8Is(10, 2, e, "disposed") /\ Made /\ Memory(10)

Control ==
    /\ pc = "setup" => /\ \E n \in 0 .. 9 : /\ n = (IF at <= 10 THEN at - 1 ELSE 9)
                                            /\ Outer(n, "down")
                       /\ IF at = 11 THEN Made ELSE Unmade
    /\ pc \in {"getInput", "print", "pump"} => Outer(10, "disposed") /\ Made
    /\ pc = "leave" => \E n \in 0 .. 10 : /\ Outer(n, "disposed")
                                          /\ IF n >= 9 THEN Made ELSE Unmade
    /\ pc = "exited" => V8Is(0, 0, 0, "disposed") /\ Memory(0)
    /\ pc = "executeString" => \E x \in 0 .. 1 : at = x + 1 /\ Executes(x)
    /\ pc \in {"compile", "run", "valueToUtf8"} => Executes(2)
    /\ pc = "return" => \E x \in 0 .. 2 : Executes(x)
    /\ pc = "getErrorString" => at = 1 /\ Reports(0)
    /\ pc = "errorToUtf8" => Reports(1)
    /\ pc = "returnError" => \E e \in 0 .. 1 : Reports(e)
    /\ pc = "panic" => gpa

\* What is on the heap beside the input buffer is what res will be or is, and it
\* tells how the line ended.
Answer ==
    /\ pc \in {"setup", "getInput", "executeString", "compile", "run", "valueToUtf8",
               "getErrorString", "errorToUtf8", "leave", "exited"} =>
            heap \subseteq {"input"} /\ res = Nothing
    /\ pc = "valueToUtf8" => ending = "value"
    /\ pc \in {"getErrorString", "errorToUtf8", "returnError"} => ending = "throw"
    /\ pc = "returnError" => heap \subseteq {"input", "error"} /\ "error" \in heap
    /\ pc \in {"return", "print", "pump"} =>
            /\ res \in heap /\ heap \subseteq {"input", res}
            /\ res = (IF ending = "throw" THEN "error" ELSE "value")

\* Only while the tasks are pumped are there tasks that are still to run.
Owed == owed # {} => pc = "pump"

\* The inductive invariant.
ReplIInv == /\ LifecycleIInv /\ ThreadOK /\ TasksOK
            /\ Framed /\ Control /\ Answer /\ Owed

\* The shell's own calls are what changes V8.
LEMMA Untouched == UNCHANGED lifecycle => [LifecycleNext]_lifecycle
OBVIOUS

\* Before the first statement nothing is there and nothing is deferred.
LEMMA InitiallyReady == ReplInit => ReplIInv
<1> SUFFICES ASSUME ReplInit PROVE ReplIInv
  OBVIOUS
<1>1. /\ LifecycleInit /\ pc = "setup" /\ at = 1
      /\ frames = << <<>> >> /\ heap = {} /\ gpa = FALSE /\ lines = 0
      /\ ending = Nothing /\ res = Nothing
      /\ fresh = Tasks /\ running = {} /\ queue = {} /\ owed = {}
  BY DEF ReplInit
<1>2. LifecycleIInv
  BY <1>1, LifecycleInitially
<1>3. V8Is(0, 0, 0, "down")
  <2>1. allocator \in BOOLEAN /\ ~allocator
    BY <1>1, Zenon DEF LifecycleInit
  <2> QED
    BY <1>1, <2>1, ReplAssumption DEF LifecycleInit, V8Is
<1>4. Unmade
  BY <1>1, ReplAssumption DEF LifecycleInit, Unmade
<1>5. Memory(0)
  <2>1. gpa \in BOOLEAN /\ ~gpa
    BY <1>1, Zenon
  <2> QED
    BY <1>1, <2>1 DEF Memory
<1>6. <<>> \in Seq(Calls) /\ <<>> = Opened(OuterDefers, 0)
  BY OuterOpened
<1>7. Framed /\ Len(frames) = 1 /\ frames[1] = Opened(OuterDefers, 0)
  BY <1>1, <1>6 DEF Framed
<1>8. Outer(0, "down")
  BY <1>3, <1>5, <1>7 DEF Outer
<1>9. Control
  BY <1>1, <1>4, <1>8 DEF Control
<1>10. ThreadOK
  <2>1. gpa \in BOOLEAN
    BY <1>1, Zenon
  <2> QED
    BY <1>1, <2>1, Tables, ReplAssumption DEF ThreadOK
<1>11. TasksOK /\ Answer /\ Owed
  BY <1>1 DEF TasksOK, Answer, Owed
<1> QED
  BY <1>2, <1>7, <1>9, <1>10, <1>11 DEF ReplIInv

\* repl runs a statement of its setup.
LEMMA SetUpKeeps ==
    ASSUME ReplIInv, SetUp PROVE ReplIInv' /\ [LifecycleNext]_lifecycle
<1> PICK k \in 1 .. 11 : at = k
  BY Tables DEF ReplIInv, ThreadOK
<1> PICK n \in 0 .. 9 : n = IF k <= 10 THEN k - 1 ELSE 9
  OBVIOUS
<1>1. /\ Perform(Setup[k].call)
      /\ frames' = IF Setup[k].defer = Nothing THEN frames
                   ELSE [frames EXCEPT ![Len(frames)] = Append(@, Setup[k].defer)]
      /\ IF k = 11 THEN pc' = "getInput" /\ at' = 1 ELSE pc' = "setup" /\ at' = k + 1
      /\ UNCHANGED <<lines, ending, res, platformTasks>>
  BY Tables DEF SetUp, Do
<1>2. Outer(n, "down") /\ heap \subseteq {"input"} /\ res = Nothing /\ owed = {}
      /\ IF k = 11 THEN Made ELSE Unmade
  BY DEF ReplIInv, Control, Answer, Owed, SetUp
<1>3. /\ [LifecycleNext]_lifecycle
      /\ k <= 9 => V8Is(k, 0, 0, "down")' /\ Unmade'
      /\ k = 10 => V8Is(9, 0, 0, "down")' /\ Made'
      /\ k = 11 => V8Is(10, 0, 0, "disposed")' /\ Made'
  BY <1>1, <1>2, SettingUp DEF ReplIInv, Outer
<1>4. LifecycleIInv'
  BY <1>3, LifecycleStep DEF ReplIInv
<1>5. heap' = heap /\ gpa' \in BOOLEAN /\ gpa' /\ (heap # {} => k > 2)
  <2>1. Setup[k].call = "gpa.init" <=> k = 1
    BY DEF Setup
  <2>2. Setup[k].call \notin {"gpa.deinit", "input_buf.deinit"}
    BY DEF Setup
  <2>3. heap' = heap /\ (k = 1 => gpa' = TRUE) /\ (k # 1 => gpa' = gpa)
    BY <1>1, <2>1, <2>2 DEF Perform
  <2> QED
    <3>1. gpa \in BOOLEAN /\ (gpa <=> n >= 1) /\ (heap # {} => n >= 2)
      BY <1>2 DEF Memory, Outer
    <3>2. CASE k = 1
      BY <2>3, <3>1, <3>2
    <3>3. CASE k # 1
      <4>1. gpa' = gpa /\ gpa
        BY <2>3, <3>1, <3>3
      <4> QED
        BY <2>3, <3>1, <3>3, <4>1
    <3> QED
      BY <3>2, <3>3
<1>6. /\ Framed' /\ Len(frames') = 1
      /\ frames'[1] = Opened(OuterDefers, IF k <= 9 THEN k ELSE IF k = 10 THEN 9 ELSE 10)
  <2>1. CASE k = 10
    BY <1>1, <1>2, <2>1, SetupTable DEF ReplIInv, Framed, Outer
  <2>2. CASE k # 10
    <3>1. n + 1 \in 1 .. 10 /\ n \in 0 .. 10 /\ n < 10 /\ Setup[k].defer = OuterDefers[n + 1]
          /\ Setup[k].defer # Nothing
      BY <2>2, SetupTable
    <3>2. /\ Opened(OuterDefers, n + 1) \in Seq(Calls)
          /\ Append(Opened(OuterDefers, n), OuterDefers[n + 1]) = Opened(OuterDefers, n + 1)
      <4>1. Append(Opened(OuterDefers, n), OuterDefers[n + 1]) = Opened(OuterDefers, n + 1)
        BY <3>1, OuterOpened
      <4>2. \A j \in 0 .. 10 : Opened(OuterDefers, j) \in Seq(Calls)
        BY OuterOpened
      <4>3. n + 1 \in 0 .. 10
        BY <3>1
      <4> QED
        BY <4>1, <4>2, <4>3
    <3>3. frames' = [frames EXCEPT ![Len(frames)] = Opened(OuterDefers, n + 1)]
      BY <1>1, <1>2, <3>1, <3>2 DEF Outer
    <3>4. Framed' /\ Len(frames') = 1 /\ frames'[1] = Opened(OuterDefers, n + 1)
      <4> DEFINE top == Opened(OuterDefers, n + 1)
      <4>1. frames \in Seq(Seq(Calls)) /\ Len(frames) = 1 /\ top \in Seq(Calls)
        BY <1>2, <3>2 DEF ReplIInv, Framed, Outer
      <4>2. frames' = [frames EXCEPT ![Len(frames)] = top]
        BY <3>3
      <4> HIDE DEF top
      <4>3. /\ frames' \in Seq(Seq(Calls)) /\ Len(frames') = Len(frames)
            /\ \A j \in 1 .. Len(frames) : frames'[j] = IF j = Len(frames) THEN top
                                                                           ELSE frames[j]
        BY <4>1, <4>2, Replacing
      <4> QED
        BY <4>1, <4>3 DEF Framed, top
    <3> QED
      BY <2>2, <3>4
  <2> QED
    BY <2>1, <2>2
<1>7. Control'
  <2>1. CASE k <= 9
    <3>1. pc' = "setup" /\ at' = k + 1 /\ at' <= 10 /\ at' - 1 = k /\ k \in 0 .. 9
      BY <1>1, <2>1
    <3>2. Memory(k)'
      BY <1>5, <2>1 DEF Memory
    <3>3. Outer(k, "down")' /\ Unmade'
      BY <1>3, <1>6, <2>1, <3>2 DEF Outer
    <3> QED
      BY <3>1, <3>3 DEF Control
  <2>2. CASE k = 10
    <3>1. pc' = "setup" /\ at' = 11
      BY <1>1, <2>2
    <3>2. Memory(9)'
      BY <1>5, <2>2 DEF Memory
    <3>3. Outer(9, "down")' /\ Made'
      BY <1>3, <1>6, <2>2, <3>2 DEF Outer
    <3> QED
      BY <3>1, <3>3 DEF Control
  <2>3. CASE k = 11
    <3>1. pc' = "getInput"
      BY <1>1, <2>3
    <3>2. Memory(10)'
      BY <1>5, <2>3 DEF Memory
    <3>3. Outer(10, "disposed")' /\ Made'
      BY <1>3, <1>6, <2>3, <3>2 DEF Outer
    <3> QED
      BY <3>1, <3>3 DEF Control
  <2> QED
    BY <2>1, <2>2, <2>3
<1>8. ThreadOK' /\ TasksOK' /\ Answer' /\ Owed'
  BY <1>1, <1>2, <1>5, Tables DEF ReplIInv, ThreadOK, TasksOK, Answer, Owed, platformTasks
<1> QED
  BY <1>3, <1>4, <1>6, <1>7, <1>8 DEF ReplIInv

\* What does not touch V8, the frames and the GPA keeps what is said of them.
LEMMA Steady ==
    ASSUME UNCHANGED <<lifecycle, frames, gpa>>
    PROVE  /\ [LifecycleNext]_lifecycle
           /\ LifecycleIInv => LifecycleIInv'
           /\ Framed => Framed'
           /\ Outer(10, "disposed") => Outer(10, "disposed")'
           /\ \A x \in 0 .. 2 : Executes(x) => Executes(x)'
           /\ \A e \in 0 .. 1 : Reports(e) => Reports(e)'
           /\ Made => Made'
<1>1. [LifecycleNext]_lifecycle
  OBVIOUS
<1>2. LifecycleIInv => LifecycleIInv'
  BY <1>1, LifecycleStep
<1>3. Made => Made'
  BY DEF Made, lifecycle
<1>4. \A n, x, e : V8Is(n, x, e, "disposed") => V8Is(n, x, e, "disposed")'
  BY DEF V8Is, lifecycle
<1>5. Memory(10) => Memory(10)'
  BY DEF Memory
<1>6. Framed => Framed'
  BY DEF Framed
<1>7. Outer(10, "disposed") => Outer(10, "disposed")'
  BY <1>4, <1>5 DEF Outer
<1>8. \A x \in 0 .. 2 : Executes(x) => Executes(x)'
  BY <1>3, <1>4, <1>5 DEF Executes
<1>9. \A e \in 0 .. 1 : Reports(e) => Reports(e)'
  BY <1>3, <1>4, <1>5 DEF Reports
<1> QED
  BY <1>1, <1>2, <1>3, <1>6, <1>7, <1>8, <1>9

\* The statements between the calls.
LEMMA PlainStatementsKeep ==
    ASSUME ReplIInv,
           \/ ReadExit \/ ReadError \/ PrintAnswer \/ PumpTask \/ PumpNothing
           \/ ValueToUtf8 \/ ErrorToUtf8
    PROVE  ReplIInv' /\ [LifecycleNext]_lifecycle
<1>1. UNCHANGED <<lifecycle, frames, gpa>>
  BY DEF ReadExit, ReadError, PrintAnswer, PumpTask, PumpNothing, ValueToUtf8, ErrorToUtf8,
     Goto, thread
<1>2. [LifecycleNext]_lifecycle /\ LifecycleIInv' /\ Framed'
  BY <1>1, Steady DEF ReplIInv
<1> SUFFICES ThreadOK' /\ TasksOK' /\ Control' /\ Answer' /\ Owed'
  BY <1>2 DEF ReplIInv
<1>3. ThreadOK /\ TasksOK /\ Control /\ Answer /\ Owed
  BY DEF ReplIInv
<1>4. /\ Outer(10, "disposed") => Outer(10, "disposed")'
      /\ Executes(2) => Executes(2)'
      /\ Reports(1) => Reports(1)'
      /\ Made => Made'
  BY <1>1, Steady
<1>5. CASE ReadExit
  <2>1. /\ pc = "getInput" /\ pc' = "leave" /\ heap' = heap \cup {"input"}
        /\ UNCHANGED <<at, gpa, lines, ending, res, fresh, running, queue, owed>>
    BY <1>5 DEF ReadExit, Goto, platformTasks
  <2>2. Control'
    BY <1>3, <1>4, <2>1 DEF Control
  <2>3. ThreadOK' /\ TasksOK' /\ Answer' /\ Owed'
    BY <1>3, <2>1 DEF ThreadOK, TasksOK, Answer, Owed
  <2> QED
    BY <2>2, <2>3
<1>6. CASE ReadError
  <2>1. /\ pc = "getInput" /\ pc' = "panic"
        /\ UNCHANGED <<at, heap, gpa, lines, ending, res, fresh, running, queue, owed>>
    BY <1>6 DEF ReadError, Goto, platformTasks
  <2>2. gpa
    BY <1>3, <2>1 DEF Control, Outer, Memory
  <2>3. Control'
    BY <2>1, <2>2 DEF Control
  <2>4. ThreadOK' /\ TasksOK' /\ Answer' /\ Owed'
    BY <1>3, <2>1 DEF ThreadOK, TasksOK, Answer, Owed
  <2> QED
    BY <2>3, <2>4
<1>7. CASE PrintAnswer
  <2>1. /\ pc = "print" /\ pc' = "pump" /\ owed' = queue
        /\ UNCHANGED <<at, heap, gpa, lines, ending, res, fresh, running, queue>>
    BY <1>7 DEF PrintAnswer, Goto
  <2>2. Control'
    BY <1>3, <1>4, <2>1 DEF Control
  <2>3. ThreadOK' /\ TasksOK' /\ Answer' /\ Owed'
    BY <1>3, <2>1 DEF ThreadOK, TasksOK, Answer, Owed
  <2> QED
    BY <2>2, <2>3
<1>8. CASE PumpTask
  <2>1. PICK t \in queue : queue' = queue \ {t} /\ owed' = owed \ {t}
    BY <1>8 DEF PumpTask
  <2>2. PICK new \in SUBSET fresh : fresh' = fresh \ new /\ running' = running \cup new
    BY <1>8 DEF PumpTask, RunJavaScript
  <2>3. pc = "pump" /\ UNCHANGED <<pc, at, heap, gpa, lines, ending, res>>
    BY <1>8 DEF PumpTask, thread
  <2>4. Control'
    BY <1>3, <1>4, <2>3 DEF Control
  <2>5. ThreadOK' /\ TasksOK' /\ Answer' /\ Owed'
    BY <1>3, <2>1, <2>2, <2>3 DEF ThreadOK, TasksOK, Answer, Owed
  <2> QED
    BY <2>4, <2>5
<1>9. CASE PumpNothing
  <2>1. /\ pc = "pump" /\ pc' = "getInput" /\ queue = {} /\ heap' = heap \ {res}
        /\ res' = Nothing /\ ending' = Nothing
        /\ UNCHANGED <<at, gpa, lines, fresh, running, queue, owed>>
    BY <1>9 DEF PumpNothing, Goto, platformTasks
  <2>2. Control'
    BY <1>3, <1>4, <2>1 DEF Control
  <2>3. ThreadOK' /\ TasksOK' /\ Answer' /\ Owed'
    BY <1>3, <2>1 DEF ThreadOK, TasksOK, Answer, Owed
  <2> QED
    BY <2>2, <2>3
<1>10. CASE ValueToUtf8
  <2>1. PICK new \in SUBSET fresh : fresh' = fresh \ new /\ running' = running \cup new
    BY <1>10 DEF ValueToUtf8, RunJavaScript
  <2>2. /\ pc = "valueToUtf8"
        /\ \/ heap' = heap \cup {"value"} /\ res' = "value" /\ pc' = "return"
           \/ UNCHANGED <<heap, res>> /\ pc' = "panic"
        /\ UNCHANGED <<at, gpa, lines, ending, queue, owed>>
    BY <1>10 DEF ValueToUtf8, Goto
  <2>3. gpa /\ Executes(2) /\ 2 \in 0 .. 2
    BY <1>3, <2>2 DEF Control, Executes, Memory
  <2>4. Control'
    BY <1>4, <2>2, <2>3 DEF Control
  <2>5. ThreadOK' /\ TasksOK' /\ Answer' /\ Owed'
    BY <1>3, <2>1, <2>2 DEF ThreadOK, TasksOK, Answer, Owed
  <2> QED
    BY <2>4, <2>5
<1>11. CASE ErrorToUtf8
  <2>1. PICK new \in SUBSET fresh : fresh' = fresh \ new /\ running' = running \cup new
    BY <1>11 DEF ErrorToUtf8, RunJavaScript
  <2>2. /\ pc = "errorToUtf8"
        /\ \/ heap' = heap \cup {"error"} /\ pc' = "returnError"
           \/ UNCHANGED heap /\ pc' = "panic"
        /\ UNCHANGED <<at, gpa, lines, ending, res, queue, owed>>
    BY <1>11 DEF ErrorToUtf8, Goto
  <2>3. gpa /\ Reports(1) /\ 1 \in 0 .. 1
    BY <1>3, <2>2 DEF Control, Reports, Memory
  <2>4. Control'
    BY <1>4, <2>2, <2>3 DEF Control
  <2>5. ThreadOK' /\ TasksOK' /\ Answer' /\ Owed'
    BY <1>3, <2>1, <2>2 DEF ThreadOK, TasksOK, Answer, Owed
  <2> QED
    BY <2>4, <2>5
<1> QED
  BY <1>5, <1>6, <1>7, <1>8, <1>9, <1>10, <1>11

\* Reading a line calls executeString; an exception calls getTryCatchErrorString.
LEMMA CallsKeep ==
    ASSUME ReplIInv, ReadLine \/ Compile \/ Run
    PROVE  ReplIInv' /\ [LifecycleNext]_lifecycle
<1>1. UNCHANGED <<lifecycle, gpa>>
  BY DEF ReadLine, Compile, Run
<1>2. [LifecycleNext]_lifecycle /\ LifecycleIInv'
  BY <1>1, LifecycleStep DEF ReplIInv
<1> SUFFICES Framed' /\ ThreadOK' /\ TasksOK' /\ Control' /\ Answer' /\ Owed'
  BY <1>2 DEF ReplIInv
<1>3. ThreadOK /\ TasksOK /\ Framed /\ Control /\ Answer /\ Owed
  BY DEF ReplIInv
<1>4. <<>> \in Seq(Calls) /\ <<>> = Opened(ExecuteDefers, 0) /\ <<>> = Opened(ErrorDefers, 0)
  BY ExecuteOpened, ErrorOpened
<1>5. V8Is(10, 0, 0, "disposed") => V8Is(10, 0, 0, "disposed")'
  BY <1>1 DEF V8Is, lifecycle
<1>6. V8Is(10, 2, 0, "disposed") => V8Is(10, 2, 0, "disposed")'
  BY <1>1 DEF V8Is, lifecycle
<1>7. (Made => Made') /\ (Memory(10) => Memory(10)')
  BY <1>1 DEF Made, Memory, lifecycle
<1>8. Len(frames) \in Nat
  BY <1>3, LenProperties DEF Framed
<1>f. /\ Append(frames, <<>>) \in Seq(Seq(Calls))
      /\ Len(Append(frames, <<>>)) = Len(frames) + 1
      /\ \A k \in 1 .. Len(frames) : Append(frames, <<>>)[k] = frames[k]
      /\ Append(frames, <<>>)[Len(frames) + 1] = <<>>
  BY <1>3, <1>4, Entering DEF Framed
<1>9. CASE ReadLine
  <2>1. /\ pc = "getInput" /\ pc' = "executeString" /\ at' = 1 /\ lines' = lines + 1
        /\ frames' = Append(frames, <<>>) /\ heap' = heap \cup {"input"} /\ lines < MaxLines
        /\ UNCHANGED <<gpa, ending, res, fresh, running, queue, owed>>
    BY <1>9 DEF ReadLine, Call, platformTasks
  <2>2. Outer(10, "disposed") /\ Made
    BY <1>3, <2>1 DEF Control
  <2>3. /\ Framed' /\ Len(frames') = 2
        /\ frames'[1] = Opened(OuterDefers, 10) /\ frames'[2] = Opened(ExecuteDefers, 0)
    BY <1>f, <1>4, <2>1, <2>2 DEF Framed, Outer
  <2>4. V8Is(10, 0, 0, "disposed") /\ Memory(10)
    BY <2>2 DEF Outer
  <2>5. Executes(0)'
    BY <1>5, <1>7, <2>2, <2>3, <2>4 DEF Executes
  <2>6. Control'
    BY <2>1, <2>5 DEF Control
  <2>7. ThreadOK' /\ TasksOK' /\ Answer' /\ Owed'
    BY <1>3, <2>1, Tables, ReplAssumption DEF ThreadOK, TasksOK, Answer, Owed
  <2> QED
    BY <2>3, <2>6, <2>7
<1>10. CASE Compile \/ Run
  <2>1. /\ pc \in {"compile", "run"}
        /\ \/ pc' \in {"run", "valueToUtf8"} /\ UNCHANGED <<at, frames>>
              /\ (pc' = "valueToUtf8" => ending' = "value")
              /\ (pc' = "run" => ending' = ending)
           \/ /\ pc' = "getErrorString" /\ at' = 1 /\ frames' = Append(frames, <<>>)
              /\ ending' = "throw"
        /\ UNCHANGED <<heap, gpa, lines, res, queue, owed>>
    BY <1>10 DEF Compile, Run, Goto, Call, platformTasks
  <2>2. \E new \in SUBSET fresh : fresh' = fresh \ new /\ running' = running \cup new
    <3>1. CASE Run
      BY <3>1 DEF Run, RunJavaScript
    <3>2. CASE Compile
      <4>1. {} \in SUBSET fresh /\ fresh' = fresh \ {} /\ running' = running \cup {}
        BY <3>2 DEF Compile, platformTasks
      <4> QED
        BY <4>1
    <3> QED
      BY <1>10, <3>1, <3>2
  <2>3. Executes(2)
    BY <1>3, <2>1 DEF Control
  <2>4. ThreadOK' /\ TasksOK' /\ Answer' /\ Owed'
    BY <1>3, <2>1, <2>2, Tables DEF ThreadOK, TasksOK, Answer, Owed
  <2>5. CASE pc' # "getErrorString"
    <3>1. UNCHANGED <<lifecycle, frames, gpa>> /\ 2 \in 0 .. 2
      BY <1>1, <2>1, <2>5
    <3>2. Executes(2)' /\ Framed'
      BY <1>3, <2>3, <3>1, Steady
    <3>3. Control'
      BY <2>1, <2>5, <3>2 DEF Control
    <3> QED
      BY <2>4, <3>2, <3>3
  <2>6. CASE pc' = "getErrorString"
    <3>1. at' = 1 /\ frames' = Append(frames, <<>>)
      BY <2>1, <2>6
    <3>2. /\ Framed' /\ Len(frames') = 3
          /\ frames'[1] = Opened(OuterDefers, 10) /\ frames'[2] = Opened(ExecuteDefers, 2)
          /\ frames'[3] = Opened(ErrorDefers, 0)
      BY <1>f, <1>4, <2>3, <3>1 DEF Framed, Executes
    <3>3. V8Is(10, 2, 0, "disposed") /\ Made /\ Memory(10)
      BY <2>3 DEF Executes
    <3>4. Reports(0)'
      BY <1>6, <1>7, <3>2, <3>3 DEF Reports
    <3>5. Control'
      BY <2>6, <3>1, <3>4 DEF Control
    <3> QED
      BY <2>4, <3>2, <3>5
  <2> QED
    BY <2>5, <2>6
<1> QED
  BY <1>9, <1>10

\* executeString opens its handle scope and its TryCatch.
LEMMA ExecuteSetUpKeeps ==
    ASSUME ReplIInv, ExecuteSetUp PROVE ReplIInv' /\ [LifecycleNext]_lifecycle
<1>1. pc = "executeString" /\ ThreadOK /\ TasksOK /\ Framed /\ Answer /\ Owed
  BY DEF ReplIInv, ExecuteSetUp
<1>2. PICK x \in 0 .. 1 : at = x + 1 /\ Executes(x)
  BY <1>1 DEF ReplIInv, Control
<1>3. /\ Perform(ExecuteSetup[x + 1].call)
      /\ frames' = IF ExecuteSetup[x + 1].defer = Nothing THEN frames
                   ELSE [frames EXCEPT ![Len(frames)] = Append(@, ExecuteSetup[x + 1].defer)]
      /\ IF x = 1 THEN pc' = "compile" /\ at' = 1 ELSE pc' = "executeString" /\ at' = x + 2
      /\ UNCHANGED <<lines, ending, res, fresh, running, queue, owed>>
  BY <1>1, <1>2, Tables DEF ExecuteSetUp, Do, platformTasks
<1>4. /\ ExecuteSetup[x + 1].defer = ExecuteDefers[x + 1]
      /\ ExecuteDefers[x + 1] # Nothing
      /\ ExecuteSetup[x + 1].call \in IsolateCalls
  BY DEF ExecuteSetup, ExecuteDefers, Nothing, IsolateCalls
<1>5. /\ V8Is(10, x, 0, "disposed") /\ Made /\ Memory(10) /\ Len(frames) = 2
      /\ frames[1] = Opened(OuterDefers, 10) /\ frames[2] = Opened(ExecuteDefers, x)
  BY <1>2 DEF Executes
<1>6. /\ [LifecycleNext]_lifecycle
      /\ V8Is(10, x + 1, 0, "disposed")' /\ Made'
  BY <1>3, <1>5, Executing DEF ReplIInv
<1>7. LifecycleIInv'
  BY <1>6, LifecycleStep DEF ReplIInv
<1>8. UNCHANGED <<gpa, heap>> /\ Memory(10)'
  BY <1>3, <1>4, <1>5, Performs DEF Memory
<1>9. /\ Opened(ExecuteDefers, x + 1) \in Seq(Calls)
      /\ Append(Opened(ExecuteDefers, x), ExecuteDefers[x + 1]) = Opened(ExecuteDefers, x + 1)
  <2>1. Append(Opened(ExecuteDefers, x), ExecuteDefers[x + 1]) = Opened(ExecuteDefers, x + 1)
    BY ExecuteOpened
  <2>2. \A j \in 0 .. 2 : Opened(ExecuteDefers, j) \in Seq(Calls)
    BY ExecuteOpened
  <2> QED
    BY <2>1, <2>2
<1>10. frames' = [frames EXCEPT ![Len(frames)] = Opened(ExecuteDefers, x + 1)]
  BY <1>3, <1>4, <1>5, <1>9
<1>11. /\ frames' \in Seq(Seq(Calls)) /\ Len(frames') = Len(frames)
       /\ \A k \in 1 .. Len(frames) :
            frames'[k] = IF k = Len(frames) THEN Opened(ExecuteDefers, x + 1) ELSE frames[k]
  <2>1. frames \in Seq(Seq(Calls)) /\ Len(frames) > 0
    BY <1>1, <1>5 DEF Framed
  <2> QED
    BY <1>9, <1>10, <2>1, Replacing
<1>12. PICK y \in 1 .. 2 : y = x + 1
  OBVIOUS
<1>13. Executes(y)' /\ Framed'
  BY <1>5, <1>6, <1>8, <1>11, <1>12 DEF Executes, Framed, V8Is
<1>14. Control'
  BY <1>3, <1>12, <1>13 DEF Control
<1>15. ThreadOK' /\ TasksOK' /\ Answer' /\ Owed'
  BY <1>1, <1>3, <1>8, Tables DEF ThreadOK, TasksOK, Answer, Owed
<1> QED
  BY <1>6, <1>7, <1>13, <1>14, <1>15 DEF ReplIInv

\* getTryCatchErrorString opens its handle scope.
LEMMA ErrorSetUpKeeps ==
    ASSUME ReplIInv, ErrorSetUp PROVE ReplIInv' /\ [LifecycleNext]_lifecycle
<1>1. pc = "getErrorString" /\ ThreadOK /\ TasksOK /\ Framed /\ Answer /\ Owed
  BY DEF ReplIInv, ErrorSetUp
<1>2. at = 1 /\ Reports(0)
  BY <1>1 DEF ReplIInv, Control
<1>3. /\ Perform(ErrorSetup[1].call)
      /\ frames' = IF ErrorSetup[1].defer = Nothing THEN frames
                   ELSE [frames EXCEPT ![Len(frames)] = Append(@, ErrorSetup[1].defer)]
      /\ pc' = "errorToUtf8" /\ at' = 1
      /\ UNCHANGED <<lines, ending, res, fresh, running, queue, owed>>
  BY <1>1, <1>2, Tables DEF ErrorSetUp, Do, platformTasks
<1>4. /\ ErrorSetup[1].defer = ErrorDefers[1]
      /\ ErrorDefers[1] # Nothing
      /\ ErrorSetup[1].call \in IsolateCalls
  BY DEF ErrorSetup, ErrorDefers, Nothing, IsolateCalls
<1>5. /\ V8Is(10, 2, 0, "disposed") /\ Made /\ Memory(10) /\ Len(frames) = 3
      /\ frames[1] = Opened(OuterDefers, 10) /\ frames[2] = Opened(ExecuteDefers, 2)
      /\ frames[3] = Opened(ErrorDefers, 0)
  BY <1>2 DEF Reports
<1>6. /\ [LifecycleNext]_lifecycle
      /\ V8Is(10, 2, 1, "disposed")' /\ Made'
  BY <1>3, <1>5, Reporting DEF ReplIInv
<1>7. LifecycleIInv'
  BY <1>6, LifecycleStep DEF ReplIInv
<1>8. UNCHANGED <<gpa, heap>> /\ Memory(10)'
  BY <1>3, <1>4, <1>5, Performs DEF Memory
<1>9. /\ Opened(ErrorDefers, 1) \in Seq(Calls)
      /\ Append(Opened(ErrorDefers, 0), ErrorDefers[1]) = Opened(ErrorDefers, 1)
  <2>1. Append(Opened(ErrorDefers, 0), ErrorDefers[0 + 1]) = Opened(ErrorDefers, 0 + 1)
    BY ErrorOpened
  <2>2. Opened(ErrorDefers, 1) \in Seq(Calls)
    BY ErrorOpened
  <2> QED
    BY <2>1, <2>2
<1>10. frames' = [frames EXCEPT ![Len(frames)] = Opened(ErrorDefers, 1)]
  BY <1>3, <1>4, <1>5, <1>9
<1>11. /\ frames' \in Seq(Seq(Calls)) /\ Len(frames') = Len(frames)
       /\ \A k \in 1 .. Len(frames) :
            frames'[k] = IF k = Len(frames) THEN Opened(ErrorDefers, 1) ELSE frames[k]
  <2>1. frames \in Seq(Seq(Calls)) /\ Len(frames) > 0
    BY <1>1, <1>5 DEF Framed
  <2> QED
    BY <1>9, <1>10, <2>1, Replacing
<1>12. Reports(1)' /\ Framed'
  BY <1>5, <1>6, <1>8, <1>11 DEF Reports, Framed
<1>13. Control'
  BY <1>3, <1>12 DEF Control
<1>14. ThreadOK' /\ TasksOK' /\ Answer' /\ Owed'
  BY <1>1, <1>3, <1>8, Tables DEF ThreadOK, TasksOK, Answer, Owed
<1> QED
  BY <1>6, <1>7, <1>12, <1>13, <1>14 DEF ReplIInv

\* Dropping tasks leaves none that was not there.
LEMMA DropTasksTypes ==
    ASSUME TasksOK, owed = {}, NEW call, DropTasks(call)
    PROVE  TasksOK' /\ owed' = {}
BY DEF TasksOK, DropTasks

\* repl is taken down by its defers, last to first.
LEMMA LeaveKeeps ==
    ASSUME ReplIInv, Leave PROVE ReplIInv' /\ [LifecycleNext]_lifecycle
<1>1. pc = "leave" /\ ThreadOK /\ TasksOK /\ Framed /\ Answer /\ Owed
  BY DEF ReplIInv, Leave
<1>2. PICK n \in 0 .. 10 : Outer(n, "disposed") /\ IF n >= 9 THEN Made ELSE Unmade
  BY <1>1 DEF ReplIInv, Control
<1>3. /\ V8Is(n, 0, 0, "disposed") /\ Memory(n)
      /\ Len(frames) = 1 /\ frames[1] = Opened(OuterDefers, n)
  BY <1>2 DEF Outer
<1>4. owed = {} /\ heap \subseteq {"input"} /\ res = Nothing
  BY <1>1 DEF Owed, Answer
<1>5. Last(frames) = Opened(OuterDefers, n)
  BY <1>3 DEF Last
<1>6. Opened(OuterDefers, n) = <<>> <=> n = 0
  BY OuterOpened
<1>7. CASE n > 0
  <2>0. n \in 1 .. 10
    BY <1>7
  <2>1. /\ Opened(OuterDefers, n) # <<>>
        /\ Last(Opened(OuterDefers, n)) = OuterDefers[n]
        /\ Front(Opened(OuterDefers, n)) = Opened(OuterDefers, n - 1)
    <3>1. n > 0 => /\ Last(Opened(OuterDefers, n)) = OuterDefers[n]
                   /\ Front(Opened(OuterDefers, n)) = Opened(OuterDefers, n - 1)
      BY OuterOpened
    <3> QED
      BY <1>6, <1>7, <3>1
  <2>2. PICK m \in 0 .. 10 : m = n - 1
    BY <1>7
  <2>3. /\ Perform(OuterDefers[n]) /\ DropTasks(OuterDefers[n])
        /\ frames' = [frames EXCEPT ![Len(frames)] = Front(@)]
        /\ UNCHANGED <<pc, at, lines, ending, res>>
    BY <1>5, <2>1 DEF Leave, Unwind
  <2>4. /\ [LifecycleNext]_lifecycle
        /\ V8Is(n - 1, 0, 0, "disposed")'
        /\ Memory(n - 1)' /\ IF n - 1 >= 9 THEN Made' ELSE Unmade'
        /\ heap' \subseteq heap
    BY <1>2, <1>3, <1>4, <2>0, <2>3, TakingDown DEF ReplIInv
  <2>5. LifecycleIInv'
    BY <2>4, LifecycleStep DEF ReplIInv
  <2>6. Opened(OuterDefers, m) \in Seq(Calls)
    BY OuterOpened
  <2>7. frames' = [frames EXCEPT ![Len(frames)] = Opened(OuterDefers, m)]
    BY <1>3, <2>1, <2>2, <2>3
  <2>8. /\ frames' \in Seq(Seq(Calls)) /\ Len(frames') = Len(frames)
        /\ \A k \in 1 .. Len(frames) :
             frames'[k] = IF k = Len(frames) THEN Opened(OuterDefers, m) ELSE frames[k]
    <3>1. frames \in Seq(Seq(Calls)) /\ Len(frames) > 0
      BY <1>1, <1>3 DEF Framed
    <3> QED
      BY <2>6, <2>7, <3>1, Replacing
  <2>9. Outer(m, "disposed")' /\ IF m >= 9 THEN Made' ELSE Unmade'
    BY <1>3, <2>2, <2>4, <2>8 DEF Outer, V8Is, Memory
  <2>10. Framed' /\ Control'
    BY <1>1, <2>3, <2>8, <2>9 DEF Framed, Control
  <2>11. TasksOK' /\ owed' = {}
    BY <1>1, <1>4, <2>3, DropTasksTypes
  <2>12. gpa' \in BOOLEAN
    BY <2>4 DEF Memory
  <2>13. ThreadOK' /\ Answer' /\ Owed'
    BY <1>1, <1>4, <2>3, <2>4, <2>11, <2>12 DEF ThreadOK, Answer, Owed
  <2> QED
    BY <2>4, <2>5, <2>10, <2>11, <2>13 DEF ReplIInv
<1>8. CASE n = 0
  <2>1. /\ frames' = Front(frames) /\ pc' = "exited"
        /\ UNCHANGED <<lifecycle, at, heap, gpa, lines, ending, res, platformTasks>>
    BY <1>5, <1>6, <1>8 DEF Leave, Unwind
  <2>2. V8Is(0, 0, 0, "disposed") /\ Memory(0)
    BY <1>3, <1>8
  <2>3. V8Is(0, 0, 0, "disposed")'
    BY <2>1, <2>2 DEF V8Is, lifecycle
  <2>4. Memory(0)'
    BY <2>1, <2>2 DEF Memory
  <2>5. Control'
    BY <2>1, <2>3, <2>4 DEF Control
  <2>6. [LifecycleNext]_lifecycle /\ LifecycleIInv'
    BY <2>1, LifecycleStep DEF ReplIInv
  <2>7. Front(frames) \in Seq(Seq(Calls))
    <3>1. frames \in Seq(Seq(Calls)) /\ Len(frames) > 0
      BY <1>1, <1>3 DEF Framed
    <3> QED
      BY <3>1, Leaving
  <2>8. ThreadOK' /\ TasksOK' /\ Answer' /\ Owed'
    BY <1>1, <2>1 DEF ThreadOK, TasksOK, Answer, Owed, platformTasks
  <2> QED
    BY <2>1, <2>5, <2>6, <2>7, <2>8 DEF ReplIInv, Framed
<1> QED
  BY <1>7, <1>8

\* executeString returns: its TryCatch is taken down before its handle scope.
LEMMA ReturnKeeps ==
    ASSUME ReplIInv, Return PROVE ReplIInv' /\ [LifecycleNext]_lifecycle
<1>1. pc = "return" /\ ThreadOK /\ TasksOK /\ Framed /\ Answer /\ Owed
  BY DEF ReplIInv, Return
<1>2. PICK x \in 0 .. 2 : Executes(x)
  BY <1>1 DEF ReplIInv, Control
<1>3. /\ V8Is(10, x, 0, "disposed") /\ Made /\ Memory(10) /\ Len(frames) = 2
      /\ frames[1] = Opened(OuterDefers, 10) /\ frames[2] = Opened(ExecuteDefers, x)
  BY <1>2 DEF Executes
<1>4. owed = {}
  BY <1>1 DEF Owed
<1>5. Last(frames) = Opened(ExecuteDefers, x)
  BY <1>3 DEF Last
<1>6. Opened(ExecuteDefers, x) = <<>> <=> x = 0
  BY ExecuteOpened
<1>7. CASE x > 0
  <2>1. /\ Opened(ExecuteDefers, x) # <<>>
        /\ Last(Opened(ExecuteDefers, x)) = ExecuteDefers[x]
        /\ Front(Opened(ExecuteDefers, x)) = Opened(ExecuteDefers, x - 1)
    BY <1>6, <1>7, ExecuteOpened
  <2>2. PICK y \in 0 .. 1 : y = x - 1
    BY <1>7
  <2>3. /\ Perform(ExecuteDefers[x]) /\ DropTasks(ExecuteDefers[x])
        /\ frames' = [frames EXCEPT ![Len(frames)] = Front(@)]
        /\ UNCHANGED <<pc, at, lines, ending, res>>
    BY <1>5, <2>1 DEF Return, Unwind
  <2>4. /\ [LifecycleNext]_lifecycle
        /\ V8Is(10, x - 1, 0, "disposed")' /\ Made'
    BY <1>3, <1>7, <2>3, Executing DEF ReplIInv
  <2>5. LifecycleIInv'
    BY <2>4, LifecycleStep DEF ReplIInv
  <2>6. ExecuteDefers[x] \in IsolateCalls
    BY <1>7 DEF ExecuteDefers, IsolateCalls
  <2>7. UNCHANGED <<gpa, heap>> /\ Memory(10)'
    BY <1>3, <2>3, <2>6, Performs DEF Memory
  <2>8. Opened(ExecuteDefers, y) \in Seq(Calls)
    BY ExecuteOpened
  <2>9. frames' = [frames EXCEPT ![Len(frames)] = Opened(ExecuteDefers, y)]
    BY <1>3, <2>1, <2>2, <2>3
  <2>10. /\ frames' \in Seq(Seq(Calls)) /\ Len(frames') = Len(frames)
         /\ \A k \in 1 .. Len(frames) :
              frames'[k] = IF k = Len(frames) THEN Opened(ExecuteDefers, y) ELSE frames[k]
    <3>1. frames \in Seq(Seq(Calls)) /\ Len(frames) > 0
      BY <1>1, <1>3 DEF Framed
    <3> QED
      BY <2>8, <2>9, <3>1, Replacing
  <2>11. Executes(y)'
    BY <1>3, <2>2, <2>4, <2>7, <2>10 DEF Executes, V8Is
  <2>12. Framed' /\ Control'
    BY <1>1, <1>3, <2>3, <2>10, <2>11 DEF Framed, Control
  <2>13. TasksOK' /\ owed' = {}
    BY <1>1, <1>4, <2>3, DropTasksTypes
  <2>14. ThreadOK' /\ Answer' /\ Owed'
    BY <1>1, <2>3, <2>7, <2>13 DEF ThreadOK, Answer, Owed
  <2> QED
    BY <2>4, <2>5, <2>12, <2>13, <2>14 DEF ReplIInv
<1>8. CASE x = 0
  <2>1. /\ frames' = Front(frames) /\ pc' = "print"
        /\ UNCHANGED <<lifecycle, at, heap, gpa, lines, ending, res, platformTasks>>
    BY <1>5, <1>6, <1>8 DEF Return, Unwind
  <2>2. /\ Front(frames) \in Seq(Seq(Calls)) /\ Len(Front(frames)) = Len(frames) - 1
        /\ \A k \in 1 .. Len(frames) - 1 : Front(frames)[k] = frames[k]
    <3>1. frames \in Seq(Seq(Calls)) /\ Len(frames) > 0
      BY <1>1, <1>3 DEF Framed
    <3> QED
      BY <3>1, Leaving
  <2>3. V8Is(10, 0, 0, "disposed")' /\ Made' /\ Memory(10)'
    BY <1>3, <1>8, <2>1 DEF V8Is, Made, Memory, lifecycle
  <2>4. Outer(10, "disposed")' /\ Framed'
    BY <1>3, <2>1, <2>2, <2>3 DEF Outer, Framed
  <2>5. Control'
    BY <2>1, <2>3, <2>4 DEF Control
  <2>6. [LifecycleNext]_lifecycle /\ LifecycleIInv'
    BY <2>1, LifecycleStep DEF ReplIInv
  <2>7. ThreadOK' /\ TasksOK' /\ Answer' /\ Owed'
    BY <1>1, <2>1 DEF ThreadOK, TasksOK, Answer, Owed, platformTasks
  <2> QED
    BY <2>4, <2>5, <2>6, <2>7 DEF ReplIInv
<1> QED
  BY <1>7, <1>8

\* getTryCatchErrorString returns, and the result is filled in.
LEMMA ReturnErrorKeeps ==
    ASSUME ReplIInv, ReturnError PROVE ReplIInv' /\ [LifecycleNext]_lifecycle
<1>1. pc = "returnError" /\ ThreadOK /\ TasksOK /\ Framed /\ Answer /\ Owed
  BY DEF ReplIInv, ReturnError
<1>2. PICK e \in 0 .. 1 : Reports(e)
  BY <1>1 DEF ReplIInv, Control
<1>3. /\ V8Is(10, 2, e, "disposed") /\ Made /\ Memory(10) /\ Len(frames) = 3
      /\ frames[1] = Opened(OuterDefers, 10) /\ frames[2] = Opened(ExecuteDefers, 2)
      /\ frames[3] = Opened(ErrorDefers, e)
  BY <1>2 DEF Reports
<1>4. owed = {}
  BY <1>1 DEF Owed
<1>5. Last(frames) = Opened(ErrorDefers, e)
  BY <1>3 DEF Last
<1>6. Opened(ErrorDefers, e) = <<>> <=> e = 0
  BY ErrorOpened
<1>7. CASE e = 1
  <2>1. /\ Opened(ErrorDefers, 1) # <<>>
        /\ Last(Opened(ErrorDefers, 1)) = ErrorDefers[1]
        /\ Front(Opened(ErrorDefers, 1)) = Opened(ErrorDefers, 1 - 1)
    BY <1>6, <1>7, ErrorOpened
  <2>3. /\ Perform(ErrorDefers[1]) /\ DropTasks(ErrorDefers[1])
        /\ frames' = [frames EXCEPT ![Len(frames)] = Front(@)]
        /\ UNCHANGED <<pc, at, lines, ending, res>>
    BY <1>5, <1>7, <2>1 DEF ReturnError, Unwind
  <2>4. /\ [LifecycleNext]_lifecycle
        /\ V8Is(10, 2, 0, "disposed")' /\ Made'
    BY <1>3, <1>7, <2>3, Reporting DEF ReplIInv
  <2>5. LifecycleIInv'
    BY <2>4, LifecycleStep DEF ReplIInv
  <2>6. ErrorDefers[1] \in IsolateCalls
    BY DEF ErrorDefers, IsolateCalls
  <2>7. UNCHANGED <<gpa, heap>> /\ Memory(10)'
    BY <1>3, <2>3, <2>6, Performs DEF Memory
  <2>8. Opened(ErrorDefers, 0) \in Seq(Calls)
    BY ErrorOpened
  <2>9. frames' = [frames EXCEPT ![Len(frames)] = Opened(ErrorDefers, 0)]
    <3>1. frames[Len(frames)] = Opened(ErrorDefers, 1) /\ 1 - 1 = 0
      BY <1>3, <1>7
    <3>2. Front(frames[Len(frames)]) = Opened(ErrorDefers, 0)
      BY <2>1, <3>1
    <3> QED
      BY <2>3, <3>2
  <2>10. /\ frames' \in Seq(Seq(Calls)) /\ Len(frames') = Len(frames)
         /\ \A k \in 1 .. Len(frames) :
              frames'[k] = IF k = Len(frames) THEN Opened(ErrorDefers, 0) ELSE frames[k]
    <3>1. frames \in Seq(Seq(Calls)) /\ Len(frames) > 0
      BY <1>1, <1>3 DEF Framed
    <3> QED
      BY <2>8, <2>9, <3>1, Replacing
  <2>11. Reports(0)'
    BY <1>3, <2>4, <2>7, <2>10 DEF Reports
  <2>12. Framed' /\ Control'
    BY <1>1, <1>3, <2>3, <2>10, <2>11 DEF Framed, Control
  <2>13. TasksOK' /\ owed' = {}
    BY <1>1, <1>4, <2>3, DropTasksTypes
  <2>14. ThreadOK' /\ Answer' /\ Owed'
    BY <1>1, <2>3, <2>7, <2>13 DEF ThreadOK, Answer, Owed
  <2> QED
    BY <2>4, <2>5, <2>12, <2>13, <2>14 DEF ReplIInv
<1>8. CASE e = 0
  <2>1. /\ frames' = Front(frames) /\ pc' = "return" /\ res' = "error"
        /\ UNCHANGED <<lifecycle, at, heap, gpa, lines, ending, platformTasks>>
    BY <1>5, <1>6, <1>8 DEF ReturnError
  <2>2. /\ Front(frames) \in Seq(Seq(Calls)) /\ Len(Front(frames)) = Len(frames) - 1
        /\ \A k \in 1 .. Len(frames) - 1 : Front(frames)[k] = frames[k]
    <3>1. frames \in Seq(Seq(Calls)) /\ Len(frames) > 0
      BY <1>1, <1>3 DEF Framed
    <3> QED
      BY <3>1, Leaving
  <2>3. V8Is(10, 2, 0, "disposed")' /\ Made' /\ Memory(10)'
    BY <1>3, <1>8, <2>1 DEF V8Is, Made, Memory, lifecycle
  <2>4. Executes(2)' /\ Framed'
    BY <1>3, <2>1, <2>2, <2>3 DEF Executes, Framed
  <2>5. Control'
    BY <2>1, <2>4 DEF Control
  <2>6. [LifecycleNext]_lifecycle /\ LifecycleIInv'
    BY <2>1, LifecycleStep DEF ReplIInv
  <2>7. ThreadOK' /\ TasksOK' /\ Answer' /\ Owed'
    BY <1>1, <2>1 DEF ThreadOK, TasksOK, Answer, Owed, platformTasks
  <2> QED
    BY <2>4, <2>5, <2>6, <2>7 DEF ReplIInv
<1> QED
  BY <1>7, <1>8

\* The workers touch only the tasks.
LEMMA PostTaskKeeps ==
    ASSUME ReplIInv, PostTask PROVE ReplIInv' /\ [LifecycleNext]_lifecycle
<1>1. /\ TasksOK' /\ UNCHANGED owed
      /\ UNCHANGED <<lifecycle, pc, at, frames, heap, gpa, lines, ending, res>>
  BY DEF ReplIInv, TasksOK, PostTask, thread
<1>2. [LifecycleNext]_lifecycle /\ LifecycleIInv' /\ Framed'
  BY <1>1, Steady DEF ReplIInv
<1>3. ThreadOK' /\ Answer' /\ Owed'
  BY <1>1 DEF ReplIInv, ThreadOK, Answer, Owed
<1>4. Control'
  BY <1>1 DEF ReplIInv, Control, Outer, Executes, Reports, V8Is, Made, Unmade, Memory,
     lifecycle
<1> QED
  BY <1>1, <1>2, <1>3, <1>4 DEF ReplIInv
------------------------------------------------------------------------------
\* Nothing moves.
LEMMA StutterKeeps ==
    ASSUME ReplIInv, UNCHANGED vars PROVE ReplIInv' /\ [LifecycleNext]_lifecycle
<1>1. /\ UNCHANGED <<lifecycle, pc, at, frames, heap, gpa, lines, ending, res>>
      /\ UNCHANGED <<fresh, running, queue, owed>>
  BY DEF vars, thread, platformTasks
<1>2. [LifecycleNext]_lifecycle /\ LifecycleIInv' /\ Framed'
  BY <1>1, Steady DEF ReplIInv
<1>3. ThreadOK' /\ TasksOK' /\ Answer' /\ Owed'
  BY <1>1 DEF ReplIInv, ThreadOK, TasksOK, Answer, Owed
<1>4. Control'
  BY <1>1 DEF ReplIInv, Control, Outer, Executes, Reports, V8Is, Made, Unmade, Memory,
     lifecycle
<1> QED
  BY <1>2, <1>3, <1>4 DEF ReplIInv

\* Every step keeps the invariant, and is to V8 an allowed call or none.
LEMMA ReplStep ==
    ASSUME ReplIInv, [ReplNext]_vars PROVE ReplIInv' /\ [LifecycleNext]_lifecycle
<1>1. CASE Shell
  BY <1>1, SetUpKeeps, PlainStatementsKeep, ExecuteSetUpKeeps, ErrorSetUpKeeps,
     LeaveKeeps, ReturnKeeps, ReturnErrorKeeps, CallsKeep DEF Shell
<1>2. CASE Input
  BY <1>2, PlainStatementsKeep, CallsKeep DEF Input
<1>3. CASE PostTask
  BY <1>3, PostTaskKeeps
<1>4. CASE Ended \/ UNCHANGED vars
  BY <1>4, StutterKeeps DEF Ended
<1> QED
  BY <1>1, <1>2, <1>3, <1>4 DEF ReplNext

\* So the invariant always holds.
LEMMA ReplInvariance == ReplSpec => []ReplIInv
<1>1. ReplIInv /\ [ReplNext]_vars => ReplIInv'
  BY ReplStep
<1> QED
  BY <1>1, InitiallyReady, PTL DEF ReplSpec

\* The shell's own state and that of V8 are always of their types.
THEOREM ReplTypes == ReplSpec => []ReplTypeOK
<1>1. ReplIInv => ReplTypeOK
  BY DEF ReplIInv, LifecycleIInv, ReplTypeOK
<1> QED
  BY <1>1, ReplInvariance, PTL

\* Every call that the shell makes is one that V8Lifecycle allows at that moment, its
\* defers included: with ReplSpec it implements LifecycleSpec.
THEOREM ShellObeysLifecycle == ReplSpec => ObeysLifecycle
<1>1. ReplInit => LifecycleInit
  BY DEF ReplInit
<1>2. ReplIInv /\ [ReplNext]_vars => [LifecycleNext]_lifecycle
  BY ReplStep
<1> QED
  BY <1>1, <1>2, ReplInvariance, PTL DEF ReplSpec, ObeysLifecycle

\* So in the shell nothing outlives what it needs.
THEOREM ShellHostsOutlive == ReplSpec => []NothingOutlivesItsHost
BY ShellObeysLifecycle, HostsOutlive, PTL DEF ObeysLifecycle, LifecycleSpec

\* Between two lines and at the end the shell has given back all it took.
THEOREM ShellLeavesNothing == ReplSpec => []LeavesNothing
<1>1. ReplIInv => LeavesNothing
  <2> SUFFICES ASSUME ReplIInv PROVE LeavesNothing
    OBVIOUS
  <2>1. LinesLeaveNothing
    BY DEF ReplIInv, Control, Outer, V8Is, Answer, LinesLeaveNothing
  <2>2. heap # {} => gpa
    BY DEF ReplIInv, ThreadOK, Control, Outer, Executes, Reports, Memory
  <2>3. pc = "exited" => /\ platform = "none" /\ v8 = "disposed" /\ ~allocator
                         /\ isolates = {} /\ entered = <<>>
                         /\ heap = {} /\ ~gpa
    BY DEF ReplIInv, Control, V8Is, Memory
  <2> QED
    BY <2>1, <2>2, <2>3 DEF LeavesNothing
<1> QED
  BY <1>1, ReplInvariance, PTL

\* What is printed is the string made for this line, an error just if it threw.
THEOREM ShellAnswersTheLine == ReplSpec => []AnswersTheLine
<1>1. ReplIInv => AnswersTheLine
  BY DEF ReplIInv, Answer, AnswersTheLine
<1> QED
  BY <1>1, ReplInvariance, PTL

\* Tasks that waited when a line was answered have run before the next is read.
THEOREM ShellRunsTasks == ReplSpec => []TasksRunBeforeInput
<1>1. ReplIInv => TasksRunBeforeInput
  BY DEF ReplIInv, Owed, TasksRunBeforeInput
<1> QED
  BY <1>1, ReplInvariance, PTL
==============================================================================
