--------------------------- MODULE Wrappers_proofs ----------------------------
(* Theorems about the wrappers around handlers and publishers: how they work *)
(* inside one another, for any chains (HandlerChain), and what the retry     *)
(* wrapper does on its own, for any options (Retry).                         *)
EXTENDS HandlerChain, Retry, DataLemmas

-----------------------------------------------------------------------------
(* The chain: what holds of it in every state                                *)

Span == [parent : Nat, by : 0..N, over : BOOLEAN]
Message == [by : Actors, kind : {"event", "dead"}, span : Nat, answer : Results, map : Nat]

\* Sequences and sets the model does not bound.
DataInv ==
    /\ stack \in [Actors -> Seq(Frames)]
    /\ heap \in Seq(Nat) /\ N <= Len(heap)
    /\ spans \in Seq(Span) /\ N <= Len(spans)
    /\ sent \subseteq Message /\ IsFiniteSet(sent)

\* The stack of calls is a beginning of the chain of wrappers; where it ends the
\* mode says what is going on.
Matches(a) ==
    /\ Len(stack[a]) < Len(Callees(a))
    /\ \A i \in 1..Len(stack[a]) :
          /\ stack[a][i].wrapper = Callees(a)[i]
          /\ stack[a][i].wrapper = "otel" => stack[a][i].span # 0

Rests(a) ==
    /\ mode[a] \in {"idle", "done"} => stack[a] = <<>>
    /\ mode[a] = "injecting" => stack[a] # <<>> /\ Top(a).wrapper = "otel"
    /\ mode[a] = "running" => stack[a] # <<>> /\ Top(a).wrapper = "handler"
    /\ mode[a] # "done" => answer[a] = "none"

ShapeInv == TypeOK /\ DataInv /\ \A a \in Actors : Matches(a) /\ Rests(a)

\* An open span is one of a call in progress.
OfCall(b, i) == \E j \in 1..Len(stack[b]) : stack[b][j].wrapper = "otel" /\ stack[b][j].span = i
Watched(i) == spans[i].by # 0 /\ spans[i].over = FALSE => OfCall(spans[i].by, i)
OpenInv == \A i \in 1..Len(spans) : Watched(i)

Settled(r) == {a \in Actors \ requests : answer[a] = r \/ (mode[a] = r /\ stack[a] = <<>>)}
Uncounted(r) == {a \in Actors : mode[a] = r /\ Len(stack[a]) > Len(Handling(a))}
Events(r) == {x \in sent : x.kind = "event" /\ x.answer = r}

SubCountInv ==
    Outermost(subs) = "prometheus" =>
        /\ counted["sub"]["success"] = Cardinality(Settled("ok"))
        /\ counted["sub"]["error"] = Cardinality(Settled("error"))

PubCountInv ==
    Outermost(pubs) = "prometheus" /\ Traced(pubs) =>
        /\ counted["pub"]["success"] + Cardinality(Uncounted("ok")) = Cardinality(Events("ok"))
        /\ counted["pub"]["error"] + Cardinality(Uncounted("error")) >= Cardinality(Events("error"))

\* A chain has the metrics wrapper once, or it would count twice.
MeasuresOnce(chain) ==
    \A i, j \in 1..Len(chain) : chain[i] = "prometheus" /\ chain[j] = "prometheus" => i = j
ChainsMeasureOnce == \A c \in Chains : MeasuresOnce(c[1]) /\ MeasuresOnce(c[2])

Injected(a, i) == i < Len(stack[a]) \/ mode[a] # "injecting"

\* Whose map it is: a delivery's frames all have the one of its message; a request
\* makes its own at the first span, which the calls inside it inherit.
InheritsMap(a, i) ==
    /\ stack[a][i].wrapper = "otel" /\ Injected(a, i) => stack[a][i].map # 0
    /\ stack[a][i].map # 0 => \A j \in i..Len(stack[a]) : stack[a][j].map = stack[a][i].map

Private(a, m) ==
    m # 0 => /\ m > N
             /\ \A b \in Actors \ {a} : \A j \in 1..Len(stack[b]) : stack[b][j].map # m

Given(a, i) ==
    /\ a \notin requests => stack[a][i].map = MapOf(a)
    /\ a \in requests => Private(a, stack[a][i].map)

\* Nobody writes to the map of a message that was sent.
Detached(x) ==
    /\ x.map \in N + 1..Len(heap)
    /\ \A a \in Actors : \A i \in 1..Len(stack[a]) : stack[a][i].map # x.map

MapInv ==
    /\ requests # {} => sharing = "none"
    /\ \A a \in Actors : \A i \in 1..Len(stack[a]) : Given(a, i) /\ InheritsMap(a, i)
    /\ \A x \in sent : Detached(x)

LeadInv ==
    /\ \A m \in 1..N : m \in Line[heap[m]]
    /\ \A a \in Actors : \A i \in 1..Len(stack[a]) :
          /\ stack[a][i].wrapper = "otel" =>
                Upstream(a) \in Line[stack[a][i].span] /\ spans[stack[a][i].span].by = a
          /\ stack[a][i].map # 0 => Upstream(a) \in Line[heap[stack[a][i].map]]
    /\ \A x \in sent : Upstream(x.by) \in Line[heap[x.map]]

Alone(a) == sharing # "concurrent" \/ a \in requests

TurnInv ==
    sharing = "sequential" =>
        \A a, b \in Actors : b < a /\ mode[a] # "idle" => mode[b] = "done"

LastSpan(a, i) ==
    /\ i > Len(Handling(a)) /\ stack[a][i].wrapper = "otel"
    /\ \A j \in i + 1..Len(stack[a]) : stack[a][j].wrapper # "otel"

NameInv ==
    /\ \A a \in Actors : \A i \in 1..Len(stack[a]) :
          Alone(a) /\ mode[a] = "calling" /\ LastSpan(a, i) =>
              heap[Top(a).map] = stack[a][i].span
    /\ \A x \in sent : Alone(x.by) /\ x.kind = "event" /\ Traced(pubs) => heap[x.map] = x.span

Marked(a) == \E i \in Line[heap[MapOf(a)]] : spans[i].by = a
NotYet(a) ==
    /\ mode[a] \in {"calling", "injecting"}
    /\ \A i \in 1..Len(stack[a]) : stack[a][i].wrapper = "otel" => ~Injected(a, i)

MarkInv ==
    Traced(subs) =>
    /\ \A a \in Actors \ requests :
          Alone(a) /\ mode[a] \notin {"idle", "done"} => Marked(a) \/ NotYet(a)
    /\ \A x \in sent : Alone(x.by) /\ x.by \notin requests =>
                           \E i \in Line[heap[x.map]] : spans[i].by = x.by
-----------------------------------------------------------------------------
(* The chain of calls                                                         *)

LEMMA HandlingIs ==
    ASSUME <<subs, pubs>> \in Chains, NEW a \in Actors
    PROVE  /\ subs \in Seq({"otel", "prometheus", "retry"}) /\ pubs \in Seq({"otel", "prometheus"})
           /\ Handling(a) \in Seq({"otel", "prometheus", "retry", "handler"})
           /\ a \in requests => Len(Handling(a)) = 1
           /\ a \notin requests => /\ Len(Handling(a)) = Len(subs) + 1
                                  /\ \A i \in 1..Len(subs) : Handling(a)[i] = subs[i]
           /\ Handling(a)[Len(Handling(a))] = "handler"
           /\ \A i \in 1..Len(Handling(a)) :
                 i # Len(Handling(a)) => Handling(a)[i] \in {"otel", "prometheus", "retry"}
<1> DEFINE W == {"otel", "prometheus", "retry", "handler"}
           last == <<"handler">>
<1>1. subs \in Seq({"otel", "prometheus", "retry"}) /\ pubs \in Seq({"otel", "prometheus"})
    BY WrappersAreKnown
<1>2. subs \in Seq(W)
    BY <1>1, SeqMonotonic
<1>3. last \in Seq(W) /\ Len(last) = 1 /\ last[1] = "handler"
    OBVIOUS
<1>4. CASE a \in requests
    <2>1. Handling(a) = <<>> \o last
        BY <1>4 DEF Handling
    <2>2. Handling(a) = last
        BY <1>3, <2>1, ConcatEmptySeq
    <2> QED BY <1>1, <1>3, <1>4, <2>2
<1>5. CASE a \notin requests
    <2>1. Handling(a) = subs \o last
        BY <1>5 DEF Handling
    <2>2. Len(subs) \in Nat
        BY <1>1, LenProperties
    <2> HIDE DEF last
    <2>3. /\ Handling(a) \in Seq(W) /\ Len(Handling(a)) = Len(subs) + 1
          /\ \A i \in 1..Len(subs) + 1 :
                Handling(a)[i] = IF i <= Len(subs) THEN subs[i] ELSE last[i - Len(subs)]
        <3>1. /\ subs \o last \in Seq(W) /\ Len(subs \o last) = Len(subs) + Len(last)
              /\ \A i \in 1..Len(subs) + Len(last) :
                    (subs \o last)[i] = IF i <= Len(subs) THEN subs[i] ELSE last[i - Len(subs)]
            BY <1>2, <1>3, ConcatProperties
        <3> QED BY <1>3, <2>1, <3>1
    <2>4. \A i \in 1..Len(subs) : subs[i] \in {"otel", "prometheus", "retry"}
        BY <1>1, ElementOfSeq
    <2>5. Handling(a)[Len(subs) + 1] = last[1]
        <3>1. Len(subs) + 1 \in 1..Len(subs) + 1 /\ (Len(subs) + 1) - Len(subs) = 1
              /\ ~(Len(subs) + 1 <= Len(subs))
            BY <2>2
        <3> QED BY <2>3, <3>1
    <2>6. \A i \in 1..Len(subs) : Handling(a)[i] = subs[i]
        BY <2>2, <2>3
    <2>7. ASSUME NEW i \in 1..Len(Handling(a)), i # Len(Handling(a))
          PROVE  Handling(a)[i] \in {"otel", "prometheus", "retry"}
        <3>1. i \in 1..Len(subs)
            BY <2>2, <2>3, <2>7
        <3> QED BY <3>1, <2>4, <2>6
    <2> QED BY <1>1, <1>3, <1>5, <2>2, <2>3, <2>5, <2>6, <2>7
<1> QED BY <1>4, <1>5

LEMMA CalleesAre ==
    ASSUME <<subs, pubs>> \in Chains, NEW a \in Actors
    PROVE  /\ Len(Handling(a)) \in Nat \ {0} /\ Len(pubs) \in Nat
           /\ Len(Callees(a)) = Len(Handling(a)) + Len(pubs) + 1
           /\ \A i \in 1..Len(Handling(a)) : Callees(a)[i] = Handling(a)[i]
           /\ \A i \in 1..Len(pubs) : Callees(a)[Len(Handling(a)) + i] = pubs[i]
           /\ Callees(a)[Len(Callees(a))] = "publish"
<1> DEFINE W == {"otel", "prometheus", "retry", "handler", "publish"}
           last == <<"publish">>
           H == Handling(a)
<1>1. /\ H \in Seq({"otel", "prometheus", "retry", "handler"}) /\ pubs \in Seq({"otel", "prometheus"})
      /\ Len(H) \in Nat \ {0}
    <2>1. subs \in Seq({"otel", "prometheus", "retry"})
        BY HandlingIs
    <2>2. Len(subs) \in Nat
        BY <2>1, LenProperties
    <2>3. Len(H) = 1 \/ Len(H) = Len(subs) + 1
        BY HandlingIs
    <2> HIDE DEF H
    <2>4. Len(H) \in Nat \ {0}
        BY <2>2, <2>3
    <2> QED BY <2>4, HandlingIs DEF H
<1>2. H \in Seq(W) /\ pubs \in Seq(W) /\ Len(pubs) \in Nat
    <2>1. Len(pubs) \in Nat
        BY <1>1, LenProperties
    <2> HIDE DEF H
    <2>2. H \in Seq(W)
        BY <1>1, SeqMonotonic
    <2>3. pubs \in Seq(W)
        BY <1>1, SeqMonotonic
    <2> QED BY <2>1, <2>2, <2>3
<1>3. last \in Seq(W) /\ Len(last) = 1 /\ last[1] = "publish"
    OBVIOUS
<1>4. Callees(a) = (H \o pubs) \o last
    BY DEF Callees
<1> HIDE DEF H, last
<1>5. /\ H \o pubs \in Seq(W) /\ Len(H \o pubs) = Len(H) + Len(pubs)
      /\ \A i \in 1..Len(H) + Len(pubs) :
            (H \o pubs)[i] = IF i <= Len(H) THEN H[i] ELSE pubs[i - Len(H)]
    BY <1>2, ConcatProperties
<1> DEFINE HP == H \o pubs
<1>6. HP \in Seq(W) /\ Len(HP) = Len(H) + Len(pubs) /\ Callees(a) = HP \o last
    BY <1>4, <1>5
<1>7. /\ \A i \in 1..Len(H) : HP[i] = H[i]
      /\ \A i \in 1..Len(pubs) : HP[Len(H) + i] = pubs[i]
    <2>1. \A i \in 1..Len(H) : HP[i] = H[i]
        BY <1>1, <1>2, <1>5
    <2>2. ASSUME NEW i \in 1..Len(pubs) PROVE HP[Len(H) + i] = pubs[i]
        <3>1. /\ Len(H) + i \in 1..Len(H) + Len(pubs) /\ ~(Len(H) + i <= Len(H))
              /\ (Len(H) + i) - Len(H) = i
            BY <1>1, <1>2
        <3> QED BY <3>1, <1>5
    <2> QED BY <2>1, <2>2
<1> HIDE DEF HP
<1>8. /\ Len(Callees(a)) = Len(HP) + 1
      /\ \A i \in 1..Len(HP) + 1 :
            Callees(a)[i] = IF i <= Len(HP) THEN HP[i] ELSE last[i - Len(HP)]
    <2>1. /\ Len(HP \o last) = Len(HP) + Len(last)
          /\ \A i \in 1..Len(HP) + Len(last) :
                (HP \o last)[i] = IF i <= Len(HP) THEN HP[i] ELSE last[i - Len(HP)]
        <3>1. HP \in Seq(W) /\ last \in Seq(W)
            BY <1>3, <1>6
        <3> HIDE DEF W
        <3> QED BY <3>1, ConcatProperties
    <2> QED BY <1>3, <1>6, <2>1
<1>9. \A i \in 1..Len(HP) : Callees(a)[i] = HP[i]
    BY <1>1, <1>2, <1>6, <1>8
<1>10. Callees(a)[Len(HP) + 1] = "publish"
    <2>1. /\ Len(HP) + 1 \in 1..Len(HP) + 1 /\ ~(Len(HP) + 1 <= Len(HP))
          /\ (Len(HP) + 1) - Len(HP) = 1
        BY <1>1, <1>2, <1>6
    <2> QED BY <2>1, <1>3, <1>8
<1>11. /\ \A i \in 1..Len(H) : Callees(a)[i] = H[i]
       /\ \A i \in 1..Len(pubs) : Callees(a)[Len(H) + i] = pubs[i]
    <2>1. \A i \in 1..Len(H) : i \in 1..Len(HP)
        BY <1>1, <1>2, <1>6
    <2>2. \A i \in 1..Len(pubs) : Len(H) + i \in 1..Len(HP)
        BY <1>1, <1>2, <1>6
    <2> QED BY <2>1, <2>2, <1>7, <1>9
<1> QED BY <1>1, <1>2, <1>6, <1>8, <1>10, <1>11 DEF H

\* Which place in the chain a callee has.
LEMMA PlaceOf ==
    ASSUME <<subs, pubs>> \in Chains, NEW a \in Actors, NEW i \in 1..Len(Callees(a))
    PROVE  /\ Callees(a)[i] \in {"otel", "prometheus", "retry", "handler", "publish"}
           /\ Callees(a)[i] = "handler" <=> i = Len(Handling(a))
           /\ Callees(a)[i] = "publish" <=> i = Len(Callees(a))
           /\ Callees(a)[i] = "retry" => i < Len(Handling(a))
<1> DEFINE H == Len(Handling(a))
           P == Len(pubs)
<1>1. H \in Nat \ {0} /\ P \in Nat /\ Len(Callees(a)) = H + P + 1
    BY CalleesAre
<1>2. i \in 1..H \/ (i - H \in 1..P /\ i = H + (i - H)) \/ i = H + P + 1
    BY <1>1
<1>3. CASE i \in 1..H
    <2>1. Callees(a)[i] = Handling(a)[i]
        BY <1>3, CalleesAre
    <2>2. IF i = H THEN Handling(a)[i] = "handler"
                   ELSE Handling(a)[i] \in {"otel", "prometheus", "retry"} /\ i < H
        BY <1>1, <1>3, HandlingIs
    <2> QED BY <1>1, <1>3, <2>1, <2>2
<1>4. CASE i - H \in 1..P /\ i = H + (i - H)
    <2>1. Callees(a)[i] = pubs[i - H]
        BY <1>4, CalleesAre
    <2>2. pubs[i - H] \in {"otel", "prometheus"}
        <3>1. pubs \in Seq({"otel", "prometheus"})
            BY HandlingIs
        <3> HIDE DEF H
        <3> QED BY <3>1, <1>4, ElementOfSeq
    <2> QED BY <1>1, <1>4, <2>1, <2>2
<1>5. CASE i = H + P + 1
    BY <1>1, <1>5, CalleesAre
<1> QED BY <1>2, <1>3, <1>4, <1>5
-----------------------------------------------------------------------------
(* What a step does to a stack                                                *)

Frame(w, span, map) == [wrapper |-> w, span |-> span,
                        tries |-> IF w = "retry" THEN 1 ELSE 0, map |-> map]

Stacks == stack \in [Actors -> Seq(Frames)]
Elsewhere(a) == \A b \in Actors : b # a => stack'[b] = stack[b]

Pushed(a, f) ==
    /\ Stacks' /\ Elsewhere(a)
    /\ Len(stack'[a]) = Len(stack[a]) + 1
    /\ \A i \in 1..Len(stack[a]) : stack'[a][i] = stack[a][i]
    /\ stack'[a][Len(stack[a]) + 1] = f

Popped(a) ==
    /\ Stacks' /\ Elsewhere(a)
    /\ Len(stack'[a]) = Len(stack[a]) - 1
    /\ \A i \in 1..Len(stack[a]) - 1 : stack'[a][i] = stack[a][i]

Touched(a, f) ==
    /\ Stacks' /\ Elsewhere(a)
    /\ Len(stack'[a]) = Len(stack[a])
    /\ \A i \in 1..Len(stack[a]) - 1 : stack'[a][i] = stack[a][i]
    /\ stack'[a][Len(stack[a])] = f

LEMMA StackFacts ==
    ASSUME Stacks, NEW a \in Actors
    PROVE  /\ stack[a] \in Seq(Frames) /\ Len(stack[a]) \in Nat
           /\ stack[a] = <<>> <=> Len(stack[a]) = 0
           /\ \A i \in 1..Len(stack[a]) : stack[a][i] \in Frames
<1>1. stack[a] \in Seq(Frames)
    BY DEF Stacks
<1> DEFINE q == stack[a]
<1> HIDE DEF q
<1>2. q \in Seq(Frames)
    BY <1>1 DEF q
<1>3. Len(q) \in Nat /\ \A i \in 1..Len(q) : q[i] \in Frames
    BY <1>2, LenProperties, ElementOfSeq
<1>4. q = <<>> <=> Len(q) = 0
    BY <1>2, EmptySeq
<1> QED BY <1>2, <1>3, <1>4 DEF q

LEMMA PushDoes ==
    ASSUME Stacks, NEW a \in Actors, NEW w \in {"otel", "prometheus", "retry", "handler"},
           NEW span \in Nat, NEW map \in Nat, Push(a, w, span, map)
    PROVE  Pushed(a, Frame(w, span, map))
<1> DEFINE f == Frame(w, span, map)
           q == Append(stack[a], f)
<1>1. f \in Frames
    BY Bounds DEF Frame, Frames
<1>2. stack' = [stack EXCEPT ![a] = q]
    BY DEF Push, Frame
<1>3. /\ q \in Seq(Frames) /\ Len(q) = Len(stack[a]) + 1
      /\ \A i \in 1..Len(stack[a]) : q[i] = stack[a][i]
      /\ q[Len(stack[a]) + 1] = f
    <2> HIDE DEF f
    <2> QED BY <1>1, StackFacts, AppendProperties
<1> HIDE DEF q
<1>4. stack' \in [Actors -> Seq(Frames)]
    BY <1>2, <1>3 DEF Stacks
<1>5. stack'[a] = q /\ \A b \in Actors : b # a => stack'[b] = stack[b]
    BY <1>2 DEF Stacks
<1> QED BY <1>3, <1>4, <1>5 DEF Pushed, Elsewhere, Stacks

LEMMA PopDoes ==
    ASSUME Stacks, NEW a \in Actors, stack[a] # <<>>, Pop(a)
    PROVE  Popped(a) /\ Len(stack[a]) \in Nat \ {0}
<1> DEFINE n == Len(stack[a]) - 1
           q == SubSeq(stack[a], 1, n)
<1>1. n \in Nat /\ n + 1 = Len(stack[a])
    BY StackFacts
<1>2. stack' = [stack EXCEPT ![a] = q]
    BY DEF Pop
<1>3. /\ q \in Seq(Frames) /\ Len(q) = n
      /\ \A i \in 1..n : q[i] = stack[a][i]
    <2>1. \A i \in 1..n : stack[a][i] \in Frames
        BY <1>1, StackFacts
    <2> HIDE DEF n
    <2>2. /\ q \in Seq(Frames) /\ Len(q) = IF 1 <= n THEN n - 1 + 1 ELSE 0
          /\ \A i \in 1..n - 1 + 1 : q[i] = stack[a][1 + i - 1]
        <3>1. 1 \in Int /\ n \in Int
            BY <1>1
        <3> QED BY <2>1, <3>1, SubSeqProperties
    <2> HIDE DEF q
    <2>3. /\ n - 1 + 1 = n
          /\ \A i \in 1..n : 1 + i - 1 = i
        BY <1>1
    <2>4. Len(q) = n
        BY <1>1, <2>2
    <2> QED BY <2>2, <2>3, <2>4
<1> HIDE DEF q
<1>4. stack' \in [Actors -> Seq(Frames)]
    BY <1>2, <1>3 DEF Stacks
<1>5. stack'[a] = q /\ \A b \in Actors : b # a => stack'[b] = stack[b]
    BY <1>2 DEF Stacks
<1>6. Len(stack[a]) \in Nat \ {0}
    BY <1>1
<1> QED BY <1>3, <1>4, <1>5, <1>6 DEF Popped, Elsewhere, Stacks

LEMMA TouchDoes ==
    ASSUME Stacks, NEW a \in Actors, stack[a] # <<>>, NEW f \in Frames,
           stack' = [stack EXCEPT ![a] = [stack[a] EXCEPT ![Len(stack[a])] = f]]
    PROVE  Touched(a, f) /\ Len(stack[a]) \in Nat \ {0}
<1> DEFINE n == Len(stack[a])
           q == [stack[a] EXCEPT ![n] = f]
<1>1. n \in Nat \ {0} /\ n \in 1..Len(stack[a])
    BY StackFacts
<1>2. stack' = [stack EXCEPT ![a] = q]
    OBVIOUS
<1>3. /\ q \in Seq(Frames) /\ Len(q) = n
      /\ \A j \in 1..n : q[j] = IF j = n THEN f ELSE stack[a][j]
    <2>1. stack[a] \in Seq(Frames)
        BY StackFacts
    <2> QED BY <1>1, <2>1, ExceptSeq
<1> HIDE DEF q
<1>4. stack' \in [Actors -> Seq(Frames)]
    BY <1>2, <1>3 DEF Stacks
<1>5. stack'[a] = q /\ \A b \in Actors : b # a => stack'[b] = stack[b]
    BY <1>2 DEF Stacks
<1>6. q[n] = f /\ \A j \in 1..n - 1 : q[j] = stack[a][j]
    BY <1>1, <1>3
<1> QED BY <1>1, <1>3, <1>4, <1>5, <1>6 DEF Touched, Elsewhere, Stacks

\* Which frames there are after a step.
Same(b, i) == i \in 1..Len(stack[b]) /\ stack'[b][i] = stack[b][i]

LEMMA FramesAfter ==
    ASSUME Stacks, NEW a \in Actors, NEW f, NEW b \in Actors, NEW i \in 1..Len(stack'[b])
    PROVE  /\ Pushed(a, f) => \/ Same(b, i)
                              \/ b = a /\ i = Len(stack[a]) + 1 /\ stack'[b][i] = f
           /\ Popped(a) => Same(b, i) /\ (b = a => i < Len(stack[a]))
           /\ Touched(a, f) => \/ Same(b, i)
                               \/ b = a /\ i = Len(stack[a]) /\ stack'[b][i] = f
           /\ stack' = stack => Same(b, i)
<1> DEFINE n == Len(stack[a])
<1>1. n \in Nat
    BY StackFacts
<1>2. CASE b # a
    BY <1>2 DEF Pushed, Popped, Touched, Elsewhere, Same
<1>3. CASE b = a
    <2>1. ASSUME Pushed(a, f)
          PROVE  Same(b, i) \/ (i = n + 1 /\ stack'[b][i] = f)
        <3>1. stack'[a][n + 1] = f /\ Len(stack'[a]) = n + 1 /\ \A j \in 1..n : stack'[a][j] = stack[a][j]
            BY <2>1 DEF Pushed
        <3>2. i \in 1..n \/ i = n + 1
            BY <1>1, <1>3, <3>1
        <3>3. i \in 1..n => Same(a, i)
            BY <3>1 DEF Same
        <3>4. i = n + 1 => stack'[a][i] = f
            BY <3>1
        <3> QED BY <1>3, <3>2, <3>3, <3>4
    <2>2. ASSUME Popped(a)
          PROVE  Same(b, i) /\ i < n
        <3>1. Len(stack'[a]) = n - 1 /\ \A j \in 1..n - 1 : stack'[a][j] = stack[a][j]
            BY <2>2 DEF Popped
        <3>2. i \in 1..n - 1 /\ i \in 1..n /\ i < n
            BY <1>1, <1>3, <3>1
        <3> QED BY <1>3, <3>1, <3>2 DEF Same
    <2>3. ASSUME Touched(a, f)
          PROVE  Same(b, i) \/ (i = n /\ stack'[b][i] = f)
        <3>1. stack'[a][n] = f /\ Len(stack'[a]) = n /\ \A j \in 1..n - 1 : stack'[a][j] = stack[a][j]
            BY <2>3 DEF Touched
        <3>2. (i \in 1..n - 1 /\ i \in 1..n) \/ i = n
            BY <1>1, <1>3, <3>1
        <3>3. i \in 1..n - 1 /\ i \in 1..n => Same(a, i)
            BY <3>1 DEF Same
        <3>4. i = n => stack'[a][i] = f
            BY <3>1
        <3> QED BY <1>3, <3>2, <3>3, <3>4
    <2>4. stack' = stack => Same(b, i)
        BY DEF Same
    <2> QED BY <1>3, <2>1, <2>2, <2>3, <2>4
<1> QED BY <1>2, <1>3

\* What the invariant says of a frame, of the top and of the next callee.
LEMMA FrameIs ==
    ASSUME ShapeInv, NEW a \in Actors, NEW i \in 1..Len(stack[a])
    PROVE  /\ stack[a][i] \in Frames
           /\ stack[a][i].span \in 0..Len(spans) /\ stack[a][i].map \in 0..Len(heap)
           /\ stack[a][i].wrapper = "otel" => stack[a][i].span \in 1..Len(spans)
           /\ i \in 1..Len(Callees(a)) /\ stack[a][i].wrapper = Callees(a)[i]
           /\ stack[a][i].wrapper = "handler" <=> i = Len(Handling(a))
           /\ stack[a][i].wrapper = "retry" => i < Len(Handling(a))
<1>1. stack[a][i] \in Frames /\ Len(stack[a]) \in Nat
    BY StackFacts DEF ShapeInv, DataInv, Stacks
<1>2. stack[a][i].span <= Len(spans) /\ stack[a][i].map <= Len(heap)
    BY DEF ShapeInv, TypeOK
<1>3. Len(spans) \in Nat /\ Len(heap) \in Nat
    BY LenProperties DEF ShapeInv, DataInv
<1>4. stack[a][i].span \in Nat /\ stack[a][i].map \in Nat
    BY <1>1 DEF Frames
<1>5. stack[a][i].wrapper = "otel" => stack[a][i].span # 0
    BY DEF ShapeInv, Matches
<1>6. Len(stack[a]) < Len(Callees(a)) /\ stack[a][i].wrapper = Callees(a)[i]
    BY DEF ShapeInv, Matches
<1>7. <<subs, pubs>> \in Chains
    BY DEF ShapeInv, TypeOK
<1>8. Len(Callees(a)) \in Nat
    BY <1>7, CalleesAre
<1>9. i \in 1..Len(Callees(a))
    BY <1>1, <1>6, <1>8
<1>10. /\ Callees(a)[i] = "handler" <=> i = Len(Handling(a))
       /\ Callees(a)[i] = "retry" => i < Len(Handling(a))
    BY <1>7, <1>9, PlaceOf
<1>11. stack[a][i].span \in 0..Len(spans) /\ stack[a][i].map \in 0..Len(heap)
    BY <1>2, <1>3, <1>4
<1>12. stack[a][i].wrapper = "otel" => stack[a][i].span \in 1..Len(spans)
    BY <1>3, <1>5, <1>11
<1> QED BY <1>1, <1>6, <1>9, <1>10, <1>11, <1>12

LEMMA TopIs ==
    ASSUME ShapeInv, NEW a \in Actors, stack[a] # <<>>
    PROVE  Len(stack[a]) \in 1..Len(stack[a]) /\ Len(stack[a]) \in Nat \ {0}
<1> QED BY StackFacts DEF ShapeInv, DataInv, Stacks

LEMMA CalleeIs ==
    ASSUME ShapeInv, NEW a \in Actors
    PROVE  /\ Len(stack[a]) \in Nat /\ Len(stack[a]) + 1 \in 1..Len(Callees(a))
           /\ Callee(a) = "handler" <=> Len(stack[a]) + 1 = Len(Handling(a))
           /\ Callee(a) = "publish" <=> Len(stack[a]) + 1 = Len(Callees(a))
           /\ Callee(a) = "retry" => Len(stack[a]) + 1 < Len(Handling(a))
<1>1. Len(stack[a]) \in Nat /\ Len(stack[a]) < Len(Callees(a)) /\ <<subs, pubs>> \in Chains
    BY StackFacts DEF ShapeInv, DataInv, Stacks, Matches, TypeOK
<1>2. Len(Callees(a)) \in Nat
    BY <1>1, CalleesAre
<1>3. Len(stack[a]) + 1 \in 1..Len(Callees(a))
    BY <1>1, <1>2
<1> QED BY <1>1, <1>3, PlaceOf DEF Callee

LEMMA MetadataIs ==
    ASSUME ShapeInv, NEW a \in Actors
    PROVE  /\ MapOf(a) \in 0..N /\ (a \notin requests => MapOf(a) \in 1..N)
           /\ Upstream(a) \in 1..N
           /\ Metadata(a) \in 0..Len(heap)
           /\ Parent(a) \in 1..Len(spans)
           /\ \A m \in 1..Len(heap) : heap[m] \in 1..Len(spans)
<1>1. /\ N \in Nat /\ a \in 1..N /\ 1 \in 1..N
      /\ Len(heap) \in Nat /\ Len(spans) \in Nat /\ N <= Len(heap) /\ N <= Len(spans)
    BY Bounds, LenProperties DEF Actors, ShapeInv, DataInv
<1>2. MapOf(a) \in 0..N /\ (a \notin requests => MapOf(a) \in 1..N)
    BY <1>1 DEF MapOf
<1>3. Upstream(a) \in 1..N
    BY <1>1, <1>2 DEF Upstream
<1>4. Metadata(a) \in 0..Len(heap)
    <2>1. CASE stack[a] = <<>>
        BY <1>1, <1>2, <2>1 DEF Metadata
    <2>2. CASE stack[a] # <<>>
        BY <2>2, TopIs, FrameIs DEF Metadata, Top
    <2> QED BY <2>1, <2>2
<1>5. \A m \in 1..Len(heap) : heap[m] \in 1..Len(spans)
    BY DEF ShapeInv, TypeOK
<1>6. Parent(a) \in 1..Len(spans)
    <2>1. CASE Metadata(a) = 0
        BY <1>1, <1>3, <2>1 DEF Parent
    <2>2. CASE Metadata(a) # 0
        BY <1>1, <1>4, <1>5, <2>2 DEF Parent
    <2> QED BY <2>1, <2>2
<1> QED BY <1>2, <1>3, <1>4, <1>5, <1>6

\* What every action does to the stack.
LEMMA PushingSteps ==
    ASSUME ShapeInv, NEW a \in Actors
    PROVE  /\ StartSpan(a) => Pushed(a, Frame("otel", Len(spans) + 1, Metadata(a)))
           /\ Measure(a) => Pushed(a, Frame("prometheus", 0, Metadata(a)))
           /\ Try(a) => Pushed(a, Frame("retry", 0, Metadata(a)))
           /\ Decode(a) => \/ Pushed(a, Frame("handler", 0, Metadata(a))) /\ Goes(a, "running")
                           \/ a \notin requests /\ Goes(a, "error") /\ UNCHANGED stack
<1>1. Metadata(a) \in Nat /\ Len(spans) + 1 \in Nat
    <2>1. Metadata(a) \in 0..Len(heap) /\ Len(heap) \in Nat /\ Len(spans) \in Nat
        BY MetadataIs, LenProperties DEF ShapeInv, DataInv
    <2> QED BY <2>1
<1>2. Stacks
    BY DEF Stacks, ShapeInv, DataInv
<1>3. StartSpan(a) => Pushed(a, Frame("otel", Len(spans) + 1, Metadata(a)))
    BY <1>1, <1>2, PushDoes DEF StartSpan
<1>4. Measure(a) => Pushed(a, Frame("prometheus", 0, Metadata(a)))
    BY <1>1, <1>2, PushDoes DEF Measure
<1>5. Try(a) => Pushed(a, Frame("retry", 0, Metadata(a)))
    BY <1>1, <1>2, PushDoes DEF Try
<1>6. Push(a, "handler", 0, Metadata(a)) => Pushed(a, Frame("handler", 0, Metadata(a)))
    BY <1>1, <1>2, PushDoes
<1> QED BY <1>3, <1>4, <1>5, <1>6 DEF Decode

LEMMA PoppingSteps ==
    ASSUME ShapeInv, NEW a \in Actors
    PROVE  /\ OtelReturns(a) => Popped(a)
           /\ PrometheusReturns(a) => Popped(a)
           /\ RetryReturns(a) => Popped(a)
           /\ HandlerReturns(a) => Popped(a)
           /\ Published(a) => \/ mode[a] # "panic" /\ Goes(a, "running") /\ UNCHANGED stack
                              \/ mode[a] = "panic" /\ Popped(a) /\ UNCHANGED mode
<1>1. Stacks
    BY DEF Stacks, ShapeInv, DataInv
<1>2. stack[a] # <<>> /\ Pop(a) => Popped(a)
    BY <1>1, PopDoes
<1>3. mode[a] = "running" => stack[a] # <<>>
    BY DEF ShapeInv, Rests
<1> QED BY <1>2, <1>3 DEF OtelReturns, PrometheusReturns, RetryReturns, HandlerReturns, Published

LEMMA TouchingSteps ==
    ASSUME ShapeInv, NEW a \in Actors
    PROVE  /\ TryAgain(a) => Touched(a, [Top(a) EXCEPT !.tries = @ + 1])
           /\ Inject(a) =>
                 \/ /\ Top(a).map \in 1..Len(heap)
                    /\ heap' = [heap EXCEPT ![Top(a).map] = Top(a).span]
                    /\ UNCHANGED stack
                 \/ /\ Top(a).map = 0
                    /\ heap' = Append(heap, Top(a).span)
                    /\ Touched(a, [Top(a) EXCEPT !.map = Len(heap) + 1])
<1> DEFINE n == Len(stack[a])
<1>1. Stacks
    BY DEF Stacks, ShapeInv, DataInv
<1>2. ASSUME TryAgain(a) PROVE Touched(a, [Top(a) EXCEPT !.tries = @ + 1])
    <2>1. stack[a] # <<>> /\ Top(a) \in Frames
        BY <1>2, TopIs, FrameIs DEF TryAgain, Top
    <2>2. [Top(a) EXCEPT !.tries = @ + 1] \in Frames
        BY <1>2, <2>1, Bounds DEF TryAgain, TriesAgain, Frames
    <2>3. stack' = [stack EXCEPT ![a] = [stack[a] EXCEPT ![n] = [Top(a) EXCEPT !.tries = @ + 1]]]
        BY <1>2 DEF TryAgain, Top
    <2> QED BY <1>1, <2>1, <2>2, <2>3, TouchDoes
<1>3. ASSUME Inject(a)
      PROVE  \/ /\ Top(a).map \in 1..Len(heap)
                /\ heap' = [heap EXCEPT ![Top(a).map] = Top(a).span]
                /\ UNCHANGED stack
             \/ /\ Top(a).map = 0
                /\ heap' = Append(heap, Top(a).span)
                /\ Touched(a, [Top(a) EXCEPT !.map = Len(heap) + 1])
    <2>1. stack[a] # <<>>
        BY <1>3 DEF Inject, ShapeInv, Rests
    <2>2. Top(a) \in Frames /\ Top(a).map \in 0..Len(heap) /\ Len(heap) \in Nat
        BY <2>1, TopIs, FrameIs, LenProperties DEF Top, ShapeInv, DataInv
    <2>3. CASE Top(a).map # 0
        BY <1>3, <2>2, <2>3 DEF Inject
    <2>4. CASE Top(a).map = 0
        <3>1. [Top(a) EXCEPT !.map = Len(heap) + 1] \in Frames
            BY <2>2 DEF Frames
        <3>2. /\ stack' = [stack EXCEPT ![a] = [stack[a] EXCEPT ![n] =
                                                    [Top(a) EXCEPT !.map = Len(heap) + 1]]]
              /\ heap' = Append(heap, Top(a).span)
            BY <1>3, <2>4 DEF Inject, Top
        <3> QED BY <1>1, <2>1, <2>4, <3>1, <3>2, TouchDoes
    <2> QED BY <2>3, <2>4
<1> QED BY <1>2, <1>3
-----------------------------------------------------------------------------
(* What a step does to the maps, the spans and the messages                   *)

HeapOK ==
    /\ heap \in Seq(Nat) /\ N <= Len(heap)
    /\ \A m \in 1..Len(heap) : heap[m] \in 1..Len(spans)

SpansOK ==
    /\ spans \in Seq(Span) /\ N <= Len(spans)
    /\ \A i \in 1..Len(spans) : spans[i].parent < i

Rewritten(m, s) ==
    /\ m \in 1..Len(heap) /\ s \in 1..Len(spans)
    /\ Len(heap') = Len(heap) /\ heap'[m] = s
    /\ \A k \in 1..Len(heap) : k # m => heap'[k] = heap[k]

Added(s) ==
    /\ s \in 1..Len(spans)
    /\ Len(heap') = Len(heap) + 1 /\ heap'[Len(heap) + 1] = s
    /\ \A k \in 1..Len(heap) : heap'[k] = heap[k]

Started(a) ==
    /\ Len(spans') = Len(spans) + 1
    /\ \A i \in 1..Len(spans) : spans'[i] = spans[i]
    /\ spans'[Len(spans) + 1] = [parent |-> Parent(a), by |-> a, over |-> FALSE]

Ended(i) ==
    /\ i \in 1..Len(spans) /\ Len(spans') = Len(spans)
    /\ \A j \in 1..Len(spans) :
          /\ spans'[j].parent = spans[j].parent /\ spans'[j].by = spans[j].by
          /\ spans'[j].over = IF j = i THEN TRUE ELSE spans[j].over

LEMMA SizesAre ==
    ASSUME ShapeInv
    PROVE  /\ N \in Nat /\ Len(heap) \in Nat /\ Len(spans) \in Nat
           /\ N <= Len(heap) /\ N <= Len(spans)
           /\ HeapOK /\ SpansOK
<1> QED BY Bounds, LenProperties DEF ShapeInv, DataInv, TypeOK, HeapOK, SpansOK

LEMMA RewriteDoes ==
    ASSUME ShapeInv, NEW m \in 1..Len(heap), NEW s \in 1..Len(spans),
           heap' = [heap EXCEPT ![m] = s], UNCHANGED spans
    PROVE  Rewritten(m, s) /\ HeapOK'
<1>1. heap \in Seq(Nat) /\ s \in Nat /\ Len(heap) \in Nat /\ N \in Nat /\ N <= Len(heap)
    BY SizesAre DEF HeapOK
<1>2. /\ heap' \in Seq(Nat) /\ Len(heap') = Len(heap)
      /\ \A k \in 1..Len(heap) : heap'[k] = IF k = m THEN s ELSE heap[k]
    BY <1>1, ExceptSeq
<1>3. Rewritten(m, s)
    BY <1>2 DEF Rewritten
<1>4. \A k \in 1..Len(heap') : heap'[k] \in 1..Len(spans')
    BY <1>2, SizesAre DEF HeapOK
<1> QED BY <1>1, <1>2, <1>3, <1>4 DEF HeapOK

LEMMA AddDoes ==
    ASSUME ShapeInv, NEW s \in 1..Len(spans), heap' = Append(heap, s), UNCHANGED spans
    PROVE  Added(s) /\ HeapOK'
<1>1. heap \in Seq(Nat) /\ s \in Nat /\ Len(heap) \in Nat /\ N \in Nat /\ N <= Len(heap)
    BY SizesAre DEF HeapOK
<1>2. /\ heap' \in Seq(Nat) /\ Len(heap') = Len(heap) + 1
      /\ \A k \in 1..Len(heap) : heap'[k] = heap[k]
      /\ heap'[Len(heap) + 1] = s
    BY <1>1, AppendProperties
<1>3. Added(s)
    BY <1>2 DEF Added
<1>4. ASSUME NEW k \in 1..Len(heap') PROVE heap'[k] \in 1..Len(spans')
    <2>1. k \in 1..Len(heap) \/ k = Len(heap) + 1
        BY <1>1, <1>2
    <2>2. k \in 1..Len(heap) => heap'[k] \in 1..Len(spans')
        BY <1>2, SizesAre DEF HeapOK
    <2>3. k = Len(heap) + 1 => heap'[k] \in 1..Len(spans')
        BY <1>2
    <2> QED BY <2>1, <2>2, <2>3
<1>5. N <= Len(heap')
    BY <1>1, <1>2
<1> QED BY <1>2, <1>3, <1>4, <1>5 DEF HeapOK

LEMMA StartDoes ==
    ASSUME ShapeInv, NEW a \in Actors, StartSpan(a)
    PROVE  Started(a) /\ SpansOK' /\ HeapOK'
<1> DEFINE new == [parent |-> Parent(a), by |-> a, over |-> FALSE]
           n == Len(spans)
<1>1. /\ n \in Nat /\ spans \in Seq(Span) /\ N \in Nat /\ N <= n
      /\ \A i \in 1..n : spans[i].parent < i
    BY SizesAre DEF SpansOK
<1>2. Parent(a) \in 1..n
    BY MetadataIs
<1>3. new \in Span
    BY <1>1, <1>2, Bounds DEF Span, Actors
<1>4. spans' = Append(spans, new) /\ heap' = heap
    BY DEF StartSpan
<1>5. /\ spans' \in Seq(Span) /\ Len(spans') = n + 1
      /\ \A i \in 1..n : spans'[i] = spans[i]
      /\ spans'[n + 1] = new
    <2> HIDE DEF new
    <2> QED BY <1>1, <1>3, <1>4, AppendProperties
<1>6. Started(a)
    BY <1>5 DEF Started
<1>7. ASSUME NEW i \in 1..Len(spans') PROVE spans'[i].parent < i
    <2>1. i \in 1..n \/ i = n + 1
        BY <1>1, <1>5
    <2>2. i \in 1..n => spans'[i].parent < i
        BY <1>1, <1>5
    <2>3. new.parent = Parent(a) /\ Parent(a) < n + 1
        BY <1>1, <1>2
    <2>4. i = n + 1 => spans'[i].parent < i
        BY <1>5, <2>3
    <2> QED BY <2>1, <2>2, <2>4
<1>8. N <= Len(spans')
    BY <1>1, <1>5
<1>9. \A m \in 1..Len(heap') : heap'[m] \in 1..Len(spans')
    <2>1. \A m \in 1..Len(heap) : heap[m] \in 1..n
        BY SizesAre DEF HeapOK
    <2> QED BY <1>1, <1>4, <1>5, <2>1
<1>10. heap' \in Seq(Nat) /\ N <= Len(heap')
    BY <1>4, SizesAre DEF HeapOK
<1> QED BY <1>5, <1>6, <1>7, <1>8, <1>9, <1>10 DEF SpansOK, HeapOK

LEMMA EndDoes ==
    ASSUME ShapeInv, NEW a \in Actors, OtelReturns(a)
    PROVE  Ended(Top(a).span) /\ SpansOK' /\ HeapOK'
<1> DEFINE i == Top(a).span
           n == Len(spans)
           f == [spans[i] EXCEPT !.over = TRUE]
<1>1. /\ n \in Nat /\ spans \in Seq(Span) /\ N \in Nat /\ N <= n
      /\ \A j \in 1..n : spans[j].parent < j
    BY SizesAre DEF SpansOK
<1>2. i \in 1..n
    BY TopIs, FrameIs DEF OtelReturns, Top
<1>3. spans[i] \in Span /\ \A j \in 1..n : spans[j] \in Span
    BY <1>1, <1>2, ElementOfSeq
<1>4. f \in Span /\ f.parent = spans[i].parent /\ f.by = spans[i].by /\ f.over = TRUE
    BY <1>3 DEF Span
<1>5. spans' = [spans EXCEPT ![i] = f] /\ heap' = heap
    BY DEF OtelReturns, Ends
<1> HIDE DEF f
<1>6. /\ spans' \in Seq(Span) /\ Len(spans') = n
      /\ \A j \in 1..n : spans'[j] = IF j = i THEN f ELSE spans[j]
    <2> HIDE DEF i
    <2> QED BY <1>1, <1>2, <1>4, <1>5, ExceptSeq
<1>7. ASSUME NEW j \in 1..n
      PROVE  /\ spans'[j].parent = spans[j].parent /\ spans'[j].by = spans[j].by
             /\ spans'[j].over = IF j = i THEN TRUE ELSE spans[j].over
    BY <1>4, <1>6
<1>8. Ended(i)
    BY <1>2, <1>6, <1>7 DEF Ended
<1>9. SpansOK'
    BY <1>1, <1>6, <1>7 DEF SpansOK
<1>10. HeapOK'
    <2>1. Len(spans') = Len(spans) /\ heap' = heap
        BY <1>5, <1>6
    <2> QED BY <2>1, SizesAre DEF HeapOK
<1> QED BY <1>8, <1>9, <1>10

\* The span of a publish call is that of the last tracing wrapper of the publisher.
LEMMA CallSpanIs ==
    ASSUME ShapeInv, NEW a \in Actors
    PROVE  /\ CallSpan(a) \in Nat
           /\ \A i \in 1..Len(stack[a]) : LastSpan(a, i) => CallSpan(a) = stack[a][i].span
<1> DEFINE n == Len(stack[a])
           h == Len(Handling(a))
           own == {i \in 1..n : /\ stack[a][i].wrapper = "otel"
                                /\ \E j \in 1..(i - 1) : stack[a][j].wrapper = "handler"}
           Last(i) == i \in own /\ \A j \in own : j <= i
<1>1. n \in Nat /\ h \in Nat \ {0}
    BY StackFacts, CalleesAre DEF ShapeInv, DataInv, Stacks, TypeOK
<1>2. \A i \in own : i > h
    <2> SUFFICES ASSUME NEW i \in own PROVE i > h
        OBVIOUS
    <2>1. PICK j \in 1..(i - 1) : stack[a][j].wrapper = "handler"
        OBVIOUS
    <2>2. j \in 1..n /\ j < i
        BY <1>1
    <2>3. j = h
        BY <2>1, <2>2, FrameIs
    <2> QED BY <1>1, <2>2, <2>3
<1>3. CallSpan(a) = IF own = {} THEN 0
                    ELSE stack[a][CHOOSE i \in own : \A j \in own : j <= i].span
    BY DEF CallSpan
<1>4. \A i \in 1..n : stack[a][i].wrapper = "otel" /\ i > h => i \in own
    <2> SUFFICES ASSUME NEW i \in 1..n, stack[a][i].wrapper = "otel", i > h
                 PROVE  i \in own
        OBVIOUS
    <2>1. h \in 1..n /\ h \in 1..(i - 1)
        BY <1>1
    <2>2. stack[a][h].wrapper = "handler"
        BY <2>1, FrameIs
    <2> QED BY <2>1, <2>2
<1>5. own \subseteq 1..n
    OBVIOUS
<1> HIDE DEF own
<1>6. own # {} => \E i \in own : \A j \in own : j <= i
    <2>1. own \subseteq Nat /\ \A i \in own : i <= n
        BY <1>1, <1>5
    <2> HIDE DEF n
    <2> QED BY <1>1, <2>1, GreatestNumber
<1> DEFINE c == CHOOSE i \in own : \A j \in own : j <= i
<1>7. own # {} => c \in own /\ \A j \in own : j <= c
    BY <1>6
<1> HIDE DEF c
<1>8. CallSpan(a) \in Nat
    <2>1. CASE own = {}
        BY <1>3, <2>1
    <2>2. CASE own # {}
        <3>1. c \in 1..n
            BY <1>5, <1>7, <2>2
        <3>2. stack[a][c].span \in 0..Len(spans) /\ Len(spans) \in Nat
            BY <3>1, FrameIs, SizesAre
        <3> QED BY <1>3, <2>2, <3>2 DEF c
    <2> QED BY <2>1, <2>2
<1>9. ASSUME NEW i \in 1..n, LastSpan(a, i) PROVE CallSpan(a) = stack[a][i].span
    <2>1. i \in own
        BY <1>4, <1>9 DEF LastSpan
    <2>2. c \in own /\ i <= c /\ c \in 1..n
        BY <1>5, <1>7, <2>1
    <2>3. stack[a][c].wrapper = "otel"
        BY <2>2 DEF own
    <2>4. c = i
        <3>1. c # i => c \in i + 1..n
            BY <1>1, <2>2
        <3> QED BY <3>1, <2>3, <1>9 DEF LastSpan
    <2> QED BY <1>3, <2>1, <2>4 DEF c
<1> QED BY <1>8, <1>9

LEMMA SendDoes ==
    ASSUME ShapeInv, NEW a \in Actors, NEW kind \in {"event", "dead"}, NEW r \in Results,
           Send(a, kind, r), UNCHANGED spans
    PROVE  /\ HeapOK' /\ sent' \subseteq Message /\ IsFiniteSet(sent')
           /\ \/ /\ Metadata(a) \in 1..Len(heap)
                 /\ Added(heap[Metadata(a)])
                 /\ sent' = sent \cup {[by |-> a, kind |-> kind, span |-> CallSpan(a),
                                        answer |-> r, map |-> Len(heap) + 1]}
              \/ Metadata(a) = 0 /\ UNCHANGED <<heap, sent>>
<1>1. sent \subseteq Message /\ IsFiniteSet(sent) /\ Len(heap) \in Nat
    BY SizesAre DEF ShapeInv, DataInv
<1>2. Metadata(a) \in 0..Len(heap)
    BY MetadataIs
<1>3. CASE Metadata(a) # 0
    <2> DEFINE x == [by |-> a, kind |-> kind, span |-> CallSpan(a), answer |-> r, map |-> Len(heap) + 1]
    <2>1. Metadata(a) \in 1..Len(heap) /\ heap[Metadata(a)] \in 1..Len(spans)
        BY <1>1, <1>2, <1>3, MetadataIs
    <2>2. heap' = Append(heap, heap[Metadata(a)])
        BY <1>3 DEF Send, Copied
    <2>3. Added(heap[Metadata(a)]) /\ HeapOK'
        BY <2>1, <2>2, AddDoes
    <2>4. Len(heap') = Len(heap) + 1 /\ heap' # heap
        BY <1>1, <2>3 DEF Added
    <2>5. sent' = sent \cup {x}
        BY <1>3, <2>4 DEF Send
    <2>6. x \in Message
        BY <1>1, CallSpanIs DEF Message
    <2> HIDE DEF x
    <2>7. sent' \subseteq Message /\ IsFiniteSet(sent')
        BY <1>1, <2>5, <2>6, FS_AddElement
    <2> QED BY <2>1, <2>3, <2>5, <2>7 DEF x
<1>4. CASE Metadata(a) = 0
    <2>1. UNCHANGED <<heap, sent>>
        BY <1>4 DEF Send
    <2> QED BY <1>1, <1>4, <2>1, SizesAre DEF HeapOK
<1> QED BY <1>3, <1>4

\* A broker answers, and has the message if it answers with nil.
LEMMA BrokerDoes ==
    ASSUME NEW a, NEW kind, BrokerPublish(a, kind)
    PROVE  \E r \in Results :
               /\ Goes(a, r)
               /\ Send(a, kind, r) \/ (r # "ok" /\ UNCHANGED <<heap, sent>>)
<1>1. CASE \E r \in {"ok", "error"} : Goes(a, r) /\ Send(a, kind, r)
    BY <1>1 DEF Results
<1>2. CASE \E r \in {"error", "panic"} : Goes(a, r) /\ UNCHANGED <<heap, sent>>
    BY <1>2 DEF Results
<1>3. \/ \E r \in {"ok", "error"} : Goes(a, r) /\ Send(a, kind, r)
      \/ \E r \in {"error", "panic"} : Goes(a, r) /\ UNCHANGED <<heap, sent>>
    BY DEF BrokerPublish
<1> QED BY <1>1, <1>2, <1>3

\* A retry wrapper and a publish call send at most one message.
LEMMA SendingSteps ==
    ASSUME NEW a
    PROVE  /\ RetryReturns(a) =>
                 /\ \E r \in Results : Send(a, "dead", r) \/ UNCHANGED <<heap, sent>>
                 /\ UNCHANGED spans
                 /\ mode' = mode \/ \E r \in Results : Goes(a, r)
           /\ Publish(a) =>
                 /\ \E r \in Results : Send(a, "event", r) \/ UNCHANGED <<heap, sent>>
                 /\ UNCHANGED spans
                 /\ \E r \in Results : Goes(a, r)
<1>1. ASSUME RetryReturns(a)
      PROVE  /\ \E r \in Results : Send(a, "dead", r) \/ UNCHANGED <<heap, sent>>
             /\ UNCHANGED spans
             /\ mode' = mode \/ \E r \in Results : Goes(a, r)
    <2>1. CASE BrokerPublish(a, "dead")
        BY <1>1, <2>1, BrokerDoes DEF RetryReturns
    <2>2. CASE UNCHANGED <<mode, heap, sent>>
        BY <1>1, <2>2 DEF RetryReturns, Results
    <2>3. BrokerPublish(a, "dead") \/ UNCHANGED <<mode, heap, sent>>
        BY <1>1 DEF RetryReturns
    <2> QED BY <2>1, <2>2, <2>3
<1>2. ASSUME Publish(a)
      PROVE  /\ \E r \in Results : Send(a, "event", r) \/ UNCHANGED <<heap, sent>>
             /\ UNCHANGED spans
             /\ \E r \in Results : Goes(a, r)
    <2>1. BrokerPublish(a, "event") /\ UNCHANGED spans
        BY <1>2 DEF Publish
    <2> QED BY <2>1, BrokerDoes
<1> QED BY <1>1, <1>2

-----------------------------------------------------------------------------
(* The shape of the state is kept                                             *)

ActorSteps(a) ==
    \/ Begin(a) \/ End(a)
    \/ StartSpan(a) \/ Inject(a) \/ OtelReturns(a)
    \/ Measure(a) \/ PrometheusReturns(a)
    \/ Try(a) \/ TryAgain(a) \/ RetryReturns(a)
    \/ Decode(a) \/ PublishEvent(a) \/ Publish(a) \/ Published(a) \/ HandlerReturns(a)

Steady(a) == mode' \in [Actors -> {"idle", "calling", "injecting", "running", "done"} \cup Results]
             /\ \A b \in Actors : b # a => mode'[b] = mode[b] /\ answer'[b] = answer[b]

\* No step changes the wrappers, nor the mode or the answer of another actor.
LEMMA Frame0 ==
    ASSUME ShapeInv, NEW a \in Actors, ActorSteps(a)
    PROVE  /\ UNCHANGED config
           /\ answer' \in [Actors -> Results \cup {"none"}]
           /\ Steady(a)
<1>1. /\ mode \in [Actors -> {"idle", "calling", "injecting", "running", "done"} \cup Results]
      /\ answer \in [Actors -> Results \cup {"none"}]
    BY DEF ShapeInv, TypeOK
<1>2. UNCHANGED config
    BY DEF ActorSteps, Begin, End, StartSpan, Inject, OtelReturns, Measure, PrometheusReturns,
           Try, TryAgain, RetryReturns, Decode, PublishEvent, Publish, Published, HandlerReturns
<1>3. answer' = answer \/ (answer' = [answer EXCEPT ![a] = mode[a]] /\ mode[a] \in Results)
    BY DEF ActorSteps, Begin, End, StartSpan, Inject, OtelReturns, Measure, PrometheusReturns,
           Try, TryAgain, RetryReturns, Decode, PublishEvent, Publish, Published, HandlerReturns
<1>4. answer' \in [Actors -> Results \cup {"none"}] /\ \A b \in Actors : b # a => answer'[b] = answer[b]
    BY <1>1, <1>3
<1>5. \/ mode' = mode
      \/ \E m \in {"idle", "calling", "injecting", "running", "done"} \cup Results : Goes(a, m)
    <2> DEFINE M == {"idle", "calling", "injecting", "running", "done"} \cup Results
    <2>1. ASSUME Begin(a) \/ End(a) \/ StartSpan(a) \/ Inject(a) \/ TryAgain(a) \/ PublishEvent(a)
          PROVE  \E m \in M : Goes(a, m)
        BY <2>1 DEF Begin, End, StartSpan, Inject, TryAgain, PublishEvent
    <2>2. ASSUME OtelReturns(a) \/ Measure(a) \/ PrometheusReturns(a) \/ Try(a)
          PROVE  mode' = mode
        BY <2>2 DEF OtelReturns, Measure, PrometheusReturns, Try
    <2>3. ASSUME RetryReturns(a) \/ Decode(a) \/ Published(a)
          PROVE  mode' = mode \/ \E m \in M : Goes(a, m)
        BY <2>3, SendingSteps DEF Decode, Published, Results
    <2>4. ASSUME Publish(a) \/ HandlerReturns(a)
          PROVE  \E m \in M : Goes(a, m)
        BY <2>4, SendingSteps DEF HandlerReturns, Results
    <2> QED BY <2>1, <2>2, <2>3, <2>4 DEF ActorSteps
<1>6. Steady(a)
    BY <1>1, <1>4, <1>5 DEF Steady, Goes
<1> QED BY <1>2, <1>4, <1>6

\* The maps and the spans keep their types, and there are never fewer.
LEMMA DataStep ==
    ASSUME ShapeInv, NEW a \in Actors, ActorSteps(a)
    PROVE  /\ HeapOK' /\ SpansOK' /\ sent' \subseteq Message /\ IsFiniteSet(sent')
           /\ Len(heap') \in Nat /\ Len(heap) <= Len(heap')
           /\ Len(spans') \in Nat /\ Len(spans) <= Len(spans')
<1> DEFINE G == /\ HeapOK' /\ SpansOK' /\ sent' \subseteq Message /\ IsFiniteSet(sent')
                /\ Len(heap') \in Nat /\ Len(heap) <= Len(heap')
                /\ Len(spans') \in Nat /\ Len(spans) <= Len(spans')
<1>1. /\ HeapOK /\ SpansOK /\ Len(heap) \in Nat /\ Len(spans) \in Nat
      /\ sent \subseteq Message /\ IsFiniteSet(sent)
    BY SizesAre DEF ShapeInv, DataInv
<1>2. ASSUME UNCHANGED <<heap, spans, sent>> PROVE G
    BY <1>1, <1>2 DEF HeapOK, SpansOK
<1>3. ASSUME UNCHANGED spans PROVE SpansOK' /\ Len(spans') \in Nat /\ Len(spans) <= Len(spans')
    BY <1>1, <1>3 DEF SpansOK
<1>4. CASE StartSpan(a)
    <2>1. Started(a) /\ SpansOK' /\ HeapOK'
        BY <1>4, StartDoes
    <2>2. UNCHANGED <<heap, sent>> /\ Len(spans') = Len(spans) + 1
        BY <1>4, <2>1 DEF StartSpan, Started
    <2> QED BY <1>1, <2>1, <2>2
<1>5. CASE OtelReturns(a)
    <2>1. Ended(Top(a).span) /\ SpansOK' /\ HeapOK'
        BY <1>5, EndDoes
    <2>2. UNCHANGED <<heap, sent>> /\ Len(spans') = Len(spans)
        BY <1>5, <2>1 DEF OtelReturns, Ended
    <2> QED BY <1>1, <2>1, <2>2
<1>6. CASE Inject(a)
    <2>1. Top(a).span \in 1..Len(spans) /\ UNCHANGED <<spans, sent>>
        BY <1>6, TopIs, FrameIs DEF Inject, ShapeInv, Rests, Top
    <2>2. HeapOK' /\ Len(heap') \in Nat /\ Len(heap) <= Len(heap')
        <3>1. CASE Top(a).map \in 1..Len(heap) /\ heap' = [heap EXCEPT ![Top(a).map] = Top(a).span]
            <4>1. HeapOK' /\ Len(heap') = Len(heap)
                BY <2>1, <3>1, RewriteDoes DEF Rewritten
            <4> QED BY <1>1, <4>1
        <3>2. CASE heap' = Append(heap, Top(a).span)
            <4>1. HeapOK' /\ Len(heap') = Len(heap) + 1
                BY <2>1, <3>2, AddDoes DEF Added
            <4> QED BY <1>1, <4>1
        <3> QED BY <1>6, <3>1, <3>2, TouchingSteps
    <2> QED BY <1>1, <1>3, <2>1, <2>2
<1>7. ASSUME NEW kind \in {"event", "dead"}, NEW r \in Results, Send(a, kind, r),
             UNCHANGED spans
      PROVE  G
    <2>1. /\ HeapOK' /\ sent' \subseteq Message /\ IsFiniteSet(sent')
          /\ (\E m : Added(m)) \/ UNCHANGED heap
        BY <1>7, SendDoes
    <2>2. Len(heap') = Len(heap) + 1 \/ Len(heap') = Len(heap)
        BY <2>1 DEF Added
    <2> QED BY <1>1, <1>3, <1>7, <2>1, <2>2
<1>8. CASE RetryReturns(a)
    <2>1. UNCHANGED spans /\ \E r \in Results : Send(a, "dead", r) \/ UNCHANGED <<heap, sent>>
        BY <1>8, SendingSteps
    <2> QED BY <1>2, <1>7, <2>1
<1>9. CASE Publish(a)
    <2>1. /\ UNCHANGED spans
          /\ \E r \in Results : Send(a, "event", r) \/ UNCHANGED <<heap, sent>>
        BY <1>9, SendingSteps
    <2> QED BY <1>2, <1>7, <2>1
<1>10. CASE \/ Begin(a) \/ End(a) \/ Measure(a) \/ PrometheusReturns(a) \/ Try(a) \/ TryAgain(a)
            \/ Decode(a) \/ PublishEvent(a) \/ Published(a) \/ HandlerReturns(a)
    <2>1. UNCHANGED <<heap, spans, sent>>
        BY <1>10 DEF Begin, End, Measure, PrometheusReturns, Try, TryAgain, Decode, PublishEvent,
                     Published, HandlerReturns, trace
    <2> QED BY <1>2, <2>1
<1> QED BY <1>4, <1>5, <1>6, <1>8, <1>9, <1>10 DEF ActorSteps

\* The frames of the stacks after a step: those before it, a new one or the top changed.
FrameOK(f, w) ==
    /\ f.span <= Len(spans') /\ f.map <= Len(heap')
    /\ f.wrapper = w /\ (w = "otel" => f.span # 0)

LEMMA StackStep ==
    ASSUME ShapeInv, NEW a \in Actors, ActorSteps(a)
    PROVE  /\ Stacks'
           /\ \A b \in Actors : b # a => stack'[b] = stack[b]
           /\ Len(stack'[a]) < Len(Callees(a))
           /\ \A b \in Actors : \A i \in 1..Len(stack'[b]) : FrameOK(stack'[b][i], Callees(b)[i])
<1> DEFINE n == Len(stack[a])
           G == /\ Stacks'
                /\ \A b \in Actors : b # a => stack'[b] = stack[b]
                /\ Len(stack'[a]) < Len(Callees(a))
                /\ \A b \in Actors : \A i \in 1..Len(stack'[b]) :
                      FrameOK(stack'[b][i], Callees(b)[i])
<1>1. /\ Stacks /\ n \in Nat /\ n < Len(Callees(a)) /\ Len(Callees(a)) \in Nat
      /\ n + 1 \in 1..Len(Callees(a))
    <2>1. Stacks /\ n < Len(Callees(a)) /\ <<subs, pubs>> \in Chains
        BY DEF Stacks, ShapeInv, DataInv, TypeOK, Matches
    <2>2. Len(Callees(a)) \in Nat
        BY <2>1, CalleesAre
    <2> QED BY <2>1, <2>2, CalleeIs
<1>2. /\ Len(heap') \in Nat /\ Len(heap) <= Len(heap') /\ Len(heap) \in Nat
      /\ Len(spans') \in Nat /\ Len(spans) <= Len(spans') /\ Len(spans) \in Nat
    BY DataStep, SizesAre
<1>3. ASSUME NEW b \in Actors, NEW i, Same(b, i) PROVE FrameOK(stack'[b][i], Callees(b)[i])
    <2>1. /\ i \in 1..Len(stack[b]) /\ stack'[b][i] = stack[b][i]
          /\ stack[b][i].span \in 0..Len(spans) /\ stack[b][i].map \in 0..Len(heap)
          /\ stack[b][i].wrapper = Callees(b)[i]
          /\ stack[b][i].wrapper = "otel" => stack[b][i].span \in 1..Len(spans)
        BY <1>3, FrameIs DEF Same
    <2>2. /\ stack'[b][i].span \in 0..Len(spans') /\ stack'[b][i].map \in 0..Len(heap')
          /\ stack'[b][i].wrapper = Callees(b)[i]
          /\ stack'[b][i].wrapper = "otel" => stack'[b][i].span # 0
        BY <1>2, <2>1
    <2> QED BY <2>2 DEF FrameOK
<1>4. ASSUME stack' = stack PROVE G
    <2>1. Stacks'
        BY <1>1, <1>4 DEF Stacks
    <2>2. \A b \in Actors : \A i \in 1..Len(stack'[b]) : Same(b, i)
        BY <1>4 DEF Same
    <2> QED BY <1>1, <1>3, <1>4, <2>1, <2>2
<1>5. ASSUME Popped(a) PROVE G
    <2>1. Stacks' /\ Len(stack'[a]) = n - 1 /\ \A b \in Actors : b # a => stack'[b] = stack[b]
        BY <1>5 DEF Popped, Elsewhere
    <2>2. \A b \in Actors : \A i \in 1..Len(stack'[b]) : Same(b, i)
        BY <1>1, <1>5, FramesAfter
    <2>3. Len(stack'[a]) < Len(Callees(a))
        BY <1>1, <2>1
    <2> QED BY <1>3, <2>1, <2>2, <2>3
<1>6. ASSUME NEW f, Pushed(a, f), FrameOK(f, Callee(a)), Callee(a) # "publish" PROVE G
    <2>1. Stacks' /\ Len(stack'[a]) = n + 1 /\ \A b \in Actors : b # a => stack'[b] = stack[b]
        BY <1>6 DEF Pushed, Elsewhere
    <2>2. \A b \in Actors : \A i \in 1..Len(stack'[b]) :
             Same(b, i) \/ (b = a /\ i = n + 1 /\ stack'[b][i] = f)
        BY <1>1, <1>6, FramesAfter
    <2>3. n + 1 < Len(Callees(a)) /\ Callee(a) = Callees(a)[n + 1]
        <3>1. n + 1 # Len(Callees(a))
            BY <1>6, CalleeIs
        <3> QED BY <1>1, <3>1 DEF Callee
    <2>4. \A b \in Actors : \A i \in 1..Len(stack'[b]) : FrameOK(stack'[b][i], Callees(b)[i])
        BY <1>3, <1>6, <2>2, <2>3
    <2> QED BY <2>1, <2>3, <2>4
<1>7. ASSUME NEW f, Touched(a, f), FrameOK(f, Callees(a)[n]) PROVE G
    <2>1. Stacks' /\ Len(stack'[a]) = n /\ \A b \in Actors : b # a => stack'[b] = stack[b]
        BY <1>7 DEF Touched, Elsewhere
    <2>2. \A b \in Actors : \A i \in 1..Len(stack'[b]) :
             Same(b, i) \/ (b = a /\ i = n /\ stack'[b][i] = f)
        BY <1>1, <1>7, FramesAfter
    <2>3. \A b \in Actors : \A i \in 1..Len(stack'[b]) : FrameOK(stack'[b][i], Callees(b)[i])
        BY <1>3, <1>7, <2>2
    <2> QED BY <1>1, <2>1, <2>3
<1>8. Metadata(a) \in 0..Len(heap)
    BY MetadataIs
<1>9. ASSUME NEW w \in {"prometheus", "retry", "handler"}
      PROVE  FrameOK(Frame(w, 0, Metadata(a)), w)
    BY <1>2, <1>8 DEF FrameOK, Frame
<1>10. CASE StartSpan(a)
    <2>1. Len(spans') = Len(spans) + 1 /\ Callee(a) = "otel"
        BY <1>10, StartDoes DEF Started, StartSpan, Calls
    <2>2. FrameOK(Frame("otel", Len(spans) + 1, Metadata(a)), "otel")
        BY <1>2, <1>8, <2>1 DEF FrameOK, Frame
    <2> QED BY <1>6, <1>10, <2>1, <2>2, PushingSteps
<1>11. CASE Measure(a)
    <2>1. Callee(a) = "prometheus"
        BY <1>11 DEF Measure, Calls
    <2> QED BY <1>6, <1>9, <1>11, <2>1, PushingSteps
<1>12. CASE Try(a)
    <2>1. Callee(a) = "retry"
        BY <1>12 DEF Try, Calls
    <2> QED BY <1>6, <1>9, <1>12, <2>1, PushingSteps
<1>13. CASE Decode(a)
    <2>1. Callee(a) = "handler"
        BY <1>13 DEF Decode, Calls
    <2>2. Pushed(a, Frame("handler", 0, Metadata(a))) \/ stack' = stack
        BY <1>13, PushingSteps
    <2> QED BY <1>4, <1>6, <1>9, <2>1, <2>2
<1>14. ASSUME stack[a] # <<>>
       PROVE  /\ Top(a) \in Frames /\ Top(a).span \in 0..Len(spans) /\ Top(a).map \in 0..Len(heap)
              /\ Top(a).wrapper = Callees(a)[n]
              /\ Top(a).wrapper = "otel" => Top(a).span \in 1..Len(spans)
    BY <1>14, TopIs, FrameIs DEF Top
<1>15. CASE TryAgain(a)
    <2> DEFINE f == [Top(a) EXCEPT !.tries = @ + 1]
    <2>1. stack[a] # <<>>
        BY <1>15 DEF TryAgain
    <2>2. f.span = Top(a).span /\ f.map = Top(a).map /\ f.wrapper = Top(a).wrapper
        BY <1>14, <2>1 DEF Frames
    <2>3. Touched(a, f)
        BY <1>15, TouchingSteps
    <2> HIDE DEF f
    <2>4. FrameOK(f, Callees(a)[n])
        BY <1>2, <1>14, <2>1, <2>2 DEF FrameOK
    <2> QED BY <1>7, <2>3, <2>4
<1>16. CASE Inject(a)
    <2> DEFINE f == [Top(a) EXCEPT !.map = Len(heap) + 1]
    <2>1. stack[a] # <<>>
        BY <1>16 DEF Inject, ShapeInv, Rests
    <2>2. f.span = Top(a).span /\ f.map = Len(heap) + 1 /\ f.wrapper = Top(a).wrapper
        BY <1>14, <2>1 DEF Frames
    <2>3. CASE stack' = stack
        BY <1>4, <2>3
    <2>4. CASE heap' = Append(heap, Top(a).span) /\ Touched(a, f)
        <3>1. Len(heap') = Len(heap) + 1
            <4>1. Top(a).span \in 1..Len(spans) /\ UNCHANGED spans
                BY <1>14, <1>16, <2>1 DEF Inject, ShapeInv, Rests
            <4> QED BY <4>1, <2>4, AddDoes DEF Added
        <3> HIDE DEF f
        <3>2. FrameOK(f, Callees(a)[n])
            BY <1>2, <1>14, <2>1, <2>2, <3>1 DEF FrameOK
        <3> QED BY <1>7, <2>4, <3>2
    <2> QED BY <1>16, <2>3, <2>4, TouchingSteps
<1>17. CASE \/ OtelReturns(a) \/ PrometheusReturns(a) \/ RetryReturns(a) \/ Published(a)
            \/ HandlerReturns(a)
    <2>1. Popped(a) \/ stack' = stack
        BY <1>17, PoppingSteps
    <2> QED BY <1>4, <1>5, <2>1
<1>18. CASE Begin(a) \/ End(a) \/ PublishEvent(a) \/ Publish(a)
    <2>1. stack' = stack
        BY <1>18 DEF Begin, End, PublishEvent, Publish
    <2> QED BY <1>4, <2>1
<1> HIDE DEF G
<1> QED
    BY <1>10, <1>11, <1>12, <1>13, <1>15, <1>16, <1>17, <1>18 DEF ActorSteps

\* Where the step leaves the actor that takes it.
LEMMA RestsStep ==
    ASSUME ShapeInv, NEW a \in Actors, ActorSteps(a)
    PROVE  Rests(a)'
<1> DEFINE n == Len(stack[a])
<1>1. /\ mode \in [Actors -> {"idle", "calling", "injecting", "running", "done"} \cup Results]
      /\ answer \in [Actors -> Results \cup {"none"}]
      /\ Rests(a)
    BY DEF ShapeInv, TypeOK
<1>2. ASSUME mode'[a] \in {"calling"} \cup Results, answer' = answer, mode[a] # "done"
      PROVE  Rests(a)'
    BY <1>1, <1>2 DEF Rests, Results
<1>3. n \in Nat
    BY StackFacts DEF ShapeInv, DataInv, Stacks
<1>4. ASSUME NEW f, Pushed(a, f) PROVE stack'[a] # <<>> /\ Top(a)' = f
    <2>1. Stacks' /\ Len(stack'[a]) = n + 1 /\ stack'[a][n + 1] = f
        BY <1>4 DEF Pushed
    <2>2. Len(stack'[a]) # 0
        BY <1>3, <2>1
    <2>3. stack'[a] # <<>>
        BY <2>2
    <2> QED BY <2>1, <2>3 DEF Top
<1>5. CASE Begin(a) \/ PublishEvent(a) \/ HandlerReturns(a) \/ Inject(a) \/ TryAgain(a)
    <2>1. mode'[a] \in {"calling"} \cup Results /\ answer' = answer /\ mode[a] # "done"
        BY <1>1, <1>5 DEF Begin, PublishEvent, HandlerReturns, Inject, TryAgain, Goes, Results
    <2> QED BY <1>2, <2>1
<1>6. CASE End(a)
    <2>1. mode'[a] = "done" /\ stack'[a] = <<>>
        BY <1>1, <1>6 DEF End, Goes
    <2> QED BY <2>1 DEF Rests
<1>7. CASE StartSpan(a)
    <2>1. mode'[a] = "injecting" /\ answer' = answer /\ mode[a] # "done"
        BY <1>1, <1>7 DEF StartSpan, Goes, Calls
    <2>2. Pushed(a, Frame("otel", Len(spans) + 1, Metadata(a)))
        BY <1>7, PushingSteps
    <2>3. stack'[a] # <<>> /\ Top(a)'.wrapper = "otel"
        BY <1>4, <2>2 DEF Frame
    <2> QED BY <1>1, <2>1, <2>3 DEF Rests
<1>8. CASE OtelReturns(a) \/ PrometheusReturns(a) \/ Measure(a) \/ Try(a)
    <2>1. mode' = mode /\ answer' = answer /\ mode[a] \in {"calling"} \cup Results
        BY <1>8 DEF OtelReturns, PrometheusReturns, Measure, Try, Calls
    <2> QED BY <1>2, <2>1 DEF Results
<1>9. CASE RetryReturns(a)
    <2>1. mode'[a] \in Results /\ answer' = answer /\ mode[a] \in Results
        <3>1. mode[a] \in Results /\ answer' = answer
            BY <1>9 DEF RetryReturns
        <3>2. mode' = mode \/ \E r \in Results : Goes(a, r)
            BY <1>9, SendingSteps
        <3> QED BY <1>1, <3>1, <3>2 DEF Goes
    <2> QED BY <1>2, <2>1 DEF Results
<1>10. CASE Publish(a)
    <2>1. mode'[a] \in Results /\ answer' = answer /\ mode[a] = "calling"
        <3>1. mode[a] = "calling" /\ answer' = answer
            BY <1>10 DEF Publish, Calls
        <3>2. \E r \in Results : Goes(a, r)
            BY <1>10, SendingSteps
        <3> QED BY <1>1, <3>1, <3>2 DEF Goes
    <2> QED BY <1>2, <2>1 DEF Results
<1>11. CASE Decode(a)
    <2>1. answer' = answer /\ mode[a] = "calling"
        BY <1>11 DEF Decode, Calls
    <2>2. CASE Goes(a, "error")
        <3>1. mode'[a] = "error"
            BY <1>1, <2>2 DEF Goes
        <3> QED BY <1>2, <2>1, <3>1 DEF Results
    <2>3. CASE Pushed(a, Frame("handler", 0, Metadata(a))) /\ Goes(a, "running")
        <3>1. mode'[a] = "running"
            BY <1>1, <2>3 DEF Goes
        <3>2. stack'[a] # <<>> /\ Top(a)'.wrapper = "handler"
            BY <1>4, <2>3 DEF Frame
        <3> QED BY <1>1, <2>1, <3>1, <3>2 DEF Rests
    <2> QED BY <1>11, <2>2, <2>3, PushingSteps
<1>12. CASE Published(a)
    <2>1. answer' = answer /\ mode[a] \in Results /\ stack[a] # <<>> /\ Top(a).wrapper = "handler"
        BY <1>12 DEF Published
    <2>2. CASE Goes(a, "running") /\ UNCHANGED stack
        <3>1. mode'[a] = "running" /\ Top(a)' = Top(a)
            BY <1>1, <2>2 DEF Goes, Top
        <3> QED BY <1>1, <2>1, <2>2, <3>1 DEF Rests, Results
    <2>3. CASE UNCHANGED mode
        BY <1>2, <2>1, <2>3 DEF Results
    <2> QED BY <1>12, <2>2, <2>3, PoppingSteps
<1> QED BY <1>5, <1>6, <1>7, <1>8, <1>9, <1>10, <1>11, <1>12 DEF ActorSteps

LEMMA CountsStep ==
    ASSUME ShapeInv, NEW a \in Actors, ActorSteps(a)
    PROVE  /\ counted' \in [{"sub", "pub"} -> [Statuses -> Nat]]
           /\ publishes' \in 0..MaxPublishes
<1>1. counted \in [{"sub", "pub"} -> [Statuses -> Nat]] /\ publishes \in 0..MaxPublishes
    BY DEF ShapeInv, TypeOK
<1>2. CASE PrometheusReturns(a)
    <2> DEFINE g == [s \in Statuses |-> counted[Side(a)][s] + IF s \in StatusOf(a) THEN 1 ELSE 0]
    <2>1. Side(a) \in {"sub", "pub"}
        BY DEF Side
    <2>2. counted[Side(a)] \in [Statuses -> Nat]
        BY <1>1, <2>1
    <2>3. g \in [Statuses -> Nat]
        BY <2>2
    <2>4. counted' = [counted EXCEPT ![Side(a)] = g]
        BY <1>2 DEF PrometheusReturns
    <2>5. publishes' = publishes
        BY <1>2 DEF PrometheusReturns
    <2> HIDE DEF g
    <2> QED BY <1>1, <2>1, <2>3, <2>4, <2>5
<1>3. CASE PublishEvent(a)
    <2>1. publishes < MaxPublishes /\ publishes' = publishes + 1 /\ counted' = counted
        BY <1>3 DEF PublishEvent
    <2>2. publishes' \in 0..MaxPublishes
        BY <1>1, <2>1, Bounds
    <2> QED BY <1>1, <2>1, <2>2
<1>4. CASE ~PrometheusReturns(a) /\ ~PublishEvent(a)
    <2>1. UNCHANGED <<counted, publishes>>
        BY <1>4 DEF ActorSteps, Begin, End, StartSpan, Inject, OtelReturns, Measure, Try, TryAgain,
                    RetryReturns, Decode, Publish, Published, HandlerReturns
    <2> QED BY <1>1, <2>1
<1> QED BY <1>2, <1>3, <1>4

LEMMA InitFacts ==
    ASSUME Init
    PROVE  /\ requests \subseteq Actors /\ <<subs, pubs>> \in Chains
           /\ \A a \in Actors : stack[a] = <<>> /\ Len(stack[a]) = 0 /\ mode[a] = "idle"
                                /\ answer[a] = "none"
           /\ heap \in Seq(Nat) /\ Len(heap) = N /\ \A m \in 1..N : heap[m] = m
           /\ spans \in Seq(Span) /\ Len(spans) = N
           /\ \A i \in 1..N : spans[i].parent = 0 /\ spans[i].by = 0 /\ spans[i].over
<1>1. N \in Nat /\ Actors = 1..N
    BY Bounds DEF Actors
<1>2. requests \subseteq Actors
    <2>1. PICK k \in 0..N : requests = (k + 1)..N
        BY DEF Init
    <2> QED BY <1>1, <2>1
<1>3. <<subs, pubs>> \in Chains
    <2>1. PICK c \in Chains : subs = c[1] /\ pubs = c[2]
        BY DEF Init
    <2>2. c = <<c[1], c[2]>>
        BY <2>1, WrappersAreKnown
    <2> QED BY <2>1, <2>2
<1>4. heap = [m \in 1..N |-> m] /\ spans = [i \in 1..N |-> [parent |-> 0, by |-> 0, over |-> TRUE]]
    BY <1>1 DEF Init
<1>5. heap \in Seq(Nat) /\ Len(heap) = N /\ \A m \in 1..N : heap[m] = m
    <2>1. heap \in [1..N -> Nat]
        BY <1>1, <1>4
    <2>2. heap \in Seq(Nat)
        BY <1>1, <2>1, SeqDef
    <2>3. Len(heap) = N
        BY <1>1, <2>1, <2>2, LenProperties
    <2> QED BY <1>4, <2>2, <2>3
<1>6. spans \in Seq(Span) /\ Len(spans) = N
    <2>1. spans \in [1..N -> Span]
        BY <1>1, <1>4 DEF Span
    <2> DEFINE S == Span
    <2> HIDE DEF S
    <2>2. spans \in Seq(S)
        BY <1>1, <2>1, SeqDef DEF S
    <2>3. Len(spans) = N
        BY <1>1, <2>1, <2>2, LenProperties DEF S
    <2> QED BY <2>2, <2>3 DEF S
<1>7. \A i \in 1..N : spans[i].parent = 0 /\ spans[i].by = 0 /\ spans[i].over
    BY <1>4
<1>8. \A a \in Actors : stack[a] = <<>> /\ Len(stack[a]) = 0 /\ mode[a] = "idle" /\ answer[a] = "none"
    BY DEF Init
<1> QED BY <1>2, <1>3, <1>5, <1>6, <1>7, <1>8

LEMMA ShapeInit == Init => ShapeInv
<1> SUFFICES ASSUME Init PROVE ShapeInv
    OBVIOUS
<1>1. /\ requests \subseteq Actors /\ <<subs, pubs>> \in Chains
      /\ heap \in Seq(Nat) /\ Len(heap) = N /\ \A m \in 1..N : heap[m] = m
      /\ spans \in Seq(Span) /\ Len(spans) = N
      /\ \A i \in 1..N : spans[i].parent = 0
      /\ N \in Nat /\ MaxPublishes \in Nat
    BY InitFacts, Bounds
<1>2. \A a \in Actors : stack[a] = <<>> /\ Len(stack[a]) = 0 /\ mode[a] = "idle" /\ answer[a] = "none"
    BY InitFacts
<1>3. DataInv
    <2>1. stack \in [Actors -> Seq(Frames)]
        BY DEF Init
    <2>2. sent = {} /\ IsFiniteSet(sent)
        BY FS_EmptySet DEF Init
    <2> QED BY <1>1, <2>1, <2>2 DEF DataInv
<1>4. TypeOK
    <2>1. /\ sharing \in {"none", "sequential", "concurrent"}
          /\ mode \in [Actors -> {"idle", "calling", "injecting", "running", "done"} \cup Results]
          /\ answer \in [Actors -> Results \cup {"none"}]
        BY DEF Init
    <2>2. counted \in [{"sub", "pub"} -> [Statuses -> Nat]] /\ publishes \in 0..MaxPublishes
        BY <1>1 DEF Init
    <2>3. \A a \in Actors : \A i \in 1..Len(stack[a]) :
             stack[a][i] \in Frames /\ stack[a][i].span <= Len(spans) /\ stack[a][i].map <= Len(heap)
        BY <1>2
    <2>4. \A i \in 1..Len(heap) : heap[i] \in 1..Len(spans)
        BY <1>1
    <2>5. \A i \in 1..Len(spans) : spans[i].parent < i
        BY <1>1
    <2> QED BY <1>1, <2>1, <2>2, <2>3, <2>4, <2>5 DEF TypeOK
<1>5. ASSUME NEW a \in Actors PROVE Matches(a) /\ Rests(a)
    <2>1. Len(Callees(a)) \in Nat \ {0}
        BY <1>1, CalleesAre
    <2>2. Matches(a)
        BY <1>2, <2>1 DEF Matches
    <2> QED BY <1>2, <2>2 DEF Rests
<1> QED BY <1>3, <1>4, <1>5 DEF ShapeInv

LEMMA ShapeStep ==
    ASSUME ShapeInv, NEW a \in Actors, ActorSteps(a)
    PROVE  ShapeInv'
<1>1. /\ sharing' = sharing /\ requests' = requests /\ subs' = subs /\ pubs' = pubs
      /\ answer' \in [Actors -> Results \cup {"none"}]
      /\ mode' \in [Actors -> {"idle", "calling", "injecting", "running", "done"} \cup Results]
      /\ \A b \in Actors : b # a => mode'[b] = mode[b] /\ answer'[b] = answer[b]
    BY Frame0 DEF config, Steady
<1>2. HeapOK' /\ SpansOK' /\ sent' \subseteq Message /\ IsFiniteSet(sent')
    BY DataStep
<1>3. /\ Stacks'
      /\ \A b \in Actors : b # a => stack'[b] = stack[b]
      /\ Len(stack'[a]) < Len(Callees(a))
      /\ \A b \in Actors : \A i \in 1..Len(stack'[b]) : FrameOK(stack'[b][i], Callees(b)[i])
    BY StackStep
<1>4. DataInv'
    BY <1>2, <1>3 DEF DataInv, HeapOK, SpansOK, Stacks, Message
<1>5. \A b \in Actors : Callees(b)' = Callees(b)
    BY <1>1 DEF Callees, Handling
<1>6. ASSUME NEW b \in Actors PROVE Matches(b)'
    <2>1. Len(stack'[b]) < Len(Callees(b))
        <3>1. Len(stack[b]) < Len(Callees(b))
            BY DEF ShapeInv, Matches
        <3> QED BY <1>3, <3>1
    <2>2. \A i \in 1..Len(stack'[b]) : /\ stack'[b][i].wrapper = Callees(b)[i]
                                       /\ stack'[b][i].wrapper = "otel" => stack'[b][i].span # 0
        BY <1>3 DEF FrameOK
    <2>3. Callees(b)' = Callees(b)
        BY <1>5
    <2>4. (Len(stack[b]) < Len(Callees(b)))'
        BY <2>1, <2>3
    <2>5. (\A i \in 1..Len(stack[b]) : /\ stack[b][i].wrapper = Callees(b)[i]
                                       /\ stack[b][i].wrapper = "otel" => stack[b][i].span # 0)'
        BY <2>2, <2>3
    <2> QED BY <2>4, <2>5 DEF Matches
<1>7. ASSUME NEW b \in Actors PROVE Rests(b)'
    <2>1. CASE b = a
        BY <2>1, RestsStep
    <2>2. CASE b # a
        <3>1. stack'[b] = stack[b] /\ mode'[b] = mode[b] /\ answer'[b] = answer[b] /\ Rests(b)
            BY <1>1, <1>3, <2>2 DEF ShapeInv
        <3> QED BY <3>1 DEF Rests, Top
    <2> QED BY <2>1, <2>2
<1>8. TypeOK'
    <2>1. sharing' \in {"none", "sequential", "concurrent"} /\ requests' \subseteq Actors
          /\ <<subs, pubs>>' \in Chains
        BY <1>1 DEF ShapeInv, TypeOK
    <2>2. \A b \in Actors : \A i \in 1..Len(stack'[b]) :
             /\ stack'[b][i] \in Frames /\ stack'[b][i].span <= Len(spans')
             /\ stack'[b][i].map <= Len(heap')
        <3>1. \A b \in Actors : stack'[b] \in Seq(Frames)
            BY <1>3 DEF Stacks
        <3>2. \A b \in Actors : \A i \in 1..Len(stack'[b]) : stack'[b][i] \in Frames
            <4> TAKE b \in Actors
            <4> DEFINE q == stack'[b]
            <4>1. q \in Seq(Frames)
                BY <3>1
            <4> HIDE DEF q
            <4>2. \A i \in 1..Len(q) : q[i] \in Frames
                BY <4>1, ElementOfSeq
            <4> QED BY <4>2 DEF q
        <3> QED BY <1>3, <3>2 DEF FrameOK
    <2>3. /\ \A i \in 1..Len(heap') : heap'[i] \in 1..Len(spans')
          /\ \A i \in 1..Len(spans') : spans'[i].parent < i
        BY <1>2 DEF HeapOK, SpansOK
    <2>4. counted' \in [{"sub", "pub"} -> [Statuses -> Nat]] /\ publishes' \in 0..MaxPublishes
        BY CountsStep
    <2> QED BY <1>1, <2>1, <2>2, <2>3, <2>4 DEF TypeOK
<1> QED BY <1>4, <1>6, <1>7, <1>8 DEF ShapeInv

-----------------------------------------------------------------------------
(* No span stays open                                                         *)

LEMMA FramesKept ==
    ASSUME ShapeInv, NEW a \in Actors, ActorSteps(a),
           NEW b \in Actors, NEW j \in 1..Len(stack[b])
    PROVE  \/ /\ j \in 1..Len(stack'[b])
              /\ stack'[b][j].wrapper = stack[b][j].wrapper
              /\ stack'[b][j].span = stack[b][j].span
           \/ /\ b = a /\ j = Len(stack[a]) /\ stack[a] # <<>>
              /\ \/ OtelReturns(a) \/ PrometheusReturns(a) \/ RetryReturns(a) \/ Published(a)
                 \/ HandlerReturns(a)
<1> DEFINE n == Len(stack[a])
           Stays == /\ j \in 1..Len(stack'[b])
                    /\ stack'[b][j].wrapper = stack[b][j].wrapper
                    /\ stack'[b][j].span = stack[b][j].span
<1>1. n \in Nat /\ \A i \in 1..n : stack[a][i] \in Frames
    BY StackFacts DEF ShapeInv, DataInv, Stacks
<1>2. CASE b # a
    <2>1. stack'[b] = stack[b]
        BY <1>2, StackStep
    <2> QED BY <2>1
<1>3. CASE b = a
    <2>1. stack' = stack => Stays
        OBVIOUS
    <2>2. ASSUME NEW f, Pushed(a, f) PROVE Stays
        <3>1. Len(stack'[a]) = n + 1 /\ stack'[a][j] = stack[a][j]
            BY <1>3, <2>2 DEF Pushed
        <3>2. j \in 1..Len(stack'[a])
            BY <1>1, <1>3, <3>1
        <3> QED BY <1>3, <3>1, <3>2
    <2>3. ASSUME NEW f, Touched(a, f), f.wrapper = Top(a).wrapper, f.span = Top(a).span
          PROVE  Stays
        <3>1. /\ Len(stack'[a]) = n /\ stack'[a][n] = f
              /\ \A k \in 1..n - 1 : stack'[a][k] = stack[a][k]
            BY <2>3 DEF Touched
        <3>2. j = n \/ j \in 1..n - 1
            BY <1>1, <1>3
        <3>3. j \in 1..Len(stack'[a])
            BY <1>3, <3>1
        <3>4. CASE j = n
            BY <1>3, <2>3, <3>1, <3>3, <3>4 DEF Top
        <3>5. CASE j \in 1..n - 1
            BY <1>3, <3>1, <3>3, <3>5
        <3> QED BY <3>2, <3>4, <3>5
    <2>4. ASSUME Popped(a) PROVE Stays \/ j = n
        <3>1. /\ Len(stack'[a]) = n - 1
              /\ \A k \in 1..n - 1 : stack'[a][k] = stack[a][k]
            BY <2>4 DEF Popped
        <3>2. j = n \/ j \in 1..n - 1
            BY <1>1, <1>3
        <3> QED BY <1>3, <3>1, <3>2
    <2>5. CASE StartSpan(a) \/ Measure(a) \/ Try(a) \/ Decode(a)
        BY <2>1, <2>2, <2>5, PushingSteps
    <2>6. stack[a] # <<>>
        BY <1>3, <1>1, StackFacts DEF ShapeInv, DataInv, Stacks
    <2>7. Top(a) \in Frames
        BY <1>1, <2>6, TopIs DEF Top
    <2>8. CASE TryAgain(a) \/ Inject(a)
        <3>1. /\ [Top(a) EXCEPT !.tries = @ + 1].wrapper = Top(a).wrapper
              /\ [Top(a) EXCEPT !.tries = @ + 1].span = Top(a).span
              /\ [Top(a) EXCEPT !.map = Len(heap) + 1].wrapper = Top(a).wrapper
              /\ [Top(a) EXCEPT !.map = Len(heap) + 1].span = Top(a).span
            BY <2>7 DEF Frames
        <3> QED BY <2>1, <2>3, <2>8, <3>1, TouchingSteps
    <2>9. CASE \/ OtelReturns(a) \/ PrometheusReturns(a) \/ RetryReturns(a) \/ Published(a)
               \/ HandlerReturns(a)
        <3>1. Popped(a) \/ stack' = stack
            BY <2>9, PoppingSteps
        <3> HIDE DEF Stays
        <3> QED BY <1>3, <2>1, <2>4, <2>6, <2>9, <3>1 DEF Stays
    <2>10. CASE Begin(a) \/ End(a) \/ PublishEvent(a) \/ Publish(a)
        BY <2>1, <2>10 DEF Begin, End, PublishEvent, Publish
    <2> QED BY <2>5, <2>8, <2>9, <2>10 DEF ActorSteps
<1> QED BY <1>2, <1>3

\* Only the tracing wrapper touches spans.
LEMMA SpansStep ==
    ASSUME ShapeInv, NEW a \in Actors, ActorSteps(a)
    PROVE  \/ StartSpan(a) /\ Started(a)
           \/ OtelReturns(a) /\ Ended(Top(a).span)
           \/ ~StartSpan(a) /\ ~OtelReturns(a) /\ UNCHANGED spans
<1>1. CASE StartSpan(a)
    BY <1>1, StartDoes
<1>2. CASE OtelReturns(a)
    BY <1>2, EndDoes
<1>3. CASE ~StartSpan(a) /\ ~OtelReturns(a)
    <2>1. UNCHANGED spans
        BY <1>3 DEF ActorSteps, Begin, End, Inject, Measure, PrometheusReturns, Try, TryAgain,
                    RetryReturns, Decode, PublishEvent, Publish, Published, HandlerReturns, trace
    <2> QED BY <1>3, <2>1
<1> QED BY <1>1, <1>2, <1>3

LEMMA OpenStep ==
    ASSUME ShapeInv, OpenInv, NEW a \in Actors, ActorSteps(a)
    PROVE  OpenInv'
<1> DEFINE n == Len(stack[a])
           m == Len(spans)
<1>1. m \in Nat /\ spans \in Seq(Span)
    BY SizesAre DEF SpansOK
<1>2. ASSUME NEW i \in 1..m, spans'[i].by = spans[i].by, spans'[i].over = spans[i].over,
             ~OtelReturns(a) \/ i # Top(a).span
      PROVE  Watched(i)'
    <2> SUFFICES ASSUME spans[i].by # 0, spans[i].over = FALSE
                 PROVE  \E j \in 1..Len(stack'[spans[i].by]) :
                           /\ stack'[spans[i].by][j].wrapper = "otel"
                           /\ stack'[spans[i].by][j].span = i
        BY <1>2 DEF Watched, OfCall
    <2> DEFINE b == spans[i].by
    <2>1. b \in Actors
        <3>1. spans[i] \in Span
            BY <1>1, ElementOfSeq
        <3>2. b \in 0..N
            BY <3>1 DEF Span
        <3> QED BY <3>2, Bounds DEF Actors
    <2>2. PICK j \in 1..Len(stack[b]) : stack[b][j].wrapper = "otel" /\ stack[b][j].span = i
        BY DEF OpenInv, Watched, OfCall
    <2> HIDE DEF b
    <2>3. CASE /\ j \in 1..Len(stack'[b])
               /\ stack'[b][j].wrapper = stack[b][j].wrapper
               /\ stack'[b][j].span = stack[b][j].span
        BY <2>2, <2>3 DEF b
    <2>4. CASE /\ b = a /\ j = Len(stack[a]) /\ stack[a] # <<>>
               /\ \/ OtelReturns(a) \/ PrometheusReturns(a) \/ RetryReturns(a) \/ Published(a)
                  \/ HandlerReturns(a)
        <3>1. Top(a).wrapper = "otel" /\ Top(a).span = i
            BY <2>2, <2>4 DEF Top
        <3>2. HandlerReturns(a) => Top(a).wrapper = "handler"
            BY DEF HandlerReturns, ShapeInv, Rests
        <3>3. OtelReturns(a)
            BY <2>4, <3>1, <3>2 DEF PrometheusReturns, RetryReturns, Published
        <3> QED BY <1>2, <3>1, <3>3
    <2> QED BY <2>1, <2>3, <2>4, FramesKept
<1>3. CASE StartSpan(a) /\ Started(a)
    <2>1. /\ Len(spans') = m + 1
          /\ \A i \in 1..m : spans'[i] = spans[i]
          /\ spans'[m + 1] = [parent |-> Parent(a), by |-> a, over |-> FALSE]
        BY <1>3 DEF Started
    <2>2. ASSUME NEW i, i = m + 1 PROVE Watched(i)'
        <3>1. Pushed(a, Frame("otel", m + 1, Metadata(a)))
            BY <1>3, PushingSteps
        <3>2. n \in Nat /\ Len(stack'[a]) = n + 1
              /\ stack'[a][n + 1] = Frame("otel", m + 1, Metadata(a))
            BY <3>1, StackFacts DEF Pushed, ShapeInv, DataInv, Stacks
        <3>3. n + 1 \in 1..Len(stack'[a])
            BY <3>2
        <3>4. stack'[a][n + 1].wrapper = "otel" /\ stack'[a][n + 1].span = i
            BY <2>2, <3>2 DEF Frame
        <3>5. spans'[i].by = a
            BY <2>1, <2>2
        <3> QED BY <3>3, <3>4, <3>5 DEF Watched, OfCall
    <2>3. ~OtelReturns(a)
        BY <1>3 DEF StartSpan, OtelReturns, Calls, Results
    <2>4. ASSUME NEW i \in 1..Len(spans') PROVE Watched(i)'
        <3>1. i \in 1..m \/ i = m + 1
            BY <1>1, <2>1
        <3>2. CASE i \in 1..m
            BY <1>2, <2>1, <2>3, <3>2
        <3>3. CASE i = m + 1
            BY <2>2, <3>3
        <3> QED BY <3>1, <3>2, <3>3
    <2> QED BY <2>4 DEF OpenInv
<1>4. CASE OtelReturns(a) /\ Ended(Top(a).span)
    <2> DEFINE t == Top(a).span
    <2>1. /\ Len(spans') = m
          /\ \A j \in 1..m : /\ spans'[j].parent = spans[j].parent /\ spans'[j].by = spans[j].by
                             /\ spans'[j].over = IF j = t THEN TRUE ELSE spans[j].over
        BY <1>4 DEF Ended
    <2>2. ASSUME NEW i \in 1..Len(spans') PROVE Watched(i)'
        <3>1. CASE i = t
            <4>1. spans'[i].over = TRUE
                BY <2>1, <3>1
            <4> QED BY <4>1 DEF Watched
        <3>2. CASE i # t
            BY <1>2, <2>1, <3>2
        <3> QED BY <3>1, <3>2
    <2> QED BY <2>2 DEF OpenInv
<1>5. CASE ~StartSpan(a) /\ ~OtelReturns(a) /\ UNCHANGED spans
    <2>1. ASSUME NEW i \in 1..Len(spans') PROVE Watched(i)'
        BY <1>2, <1>5
    <2> QED BY <2>1 DEF OpenInv
<1> QED BY <1>3, <1>4, <1>5, SpansStep

-----------------------------------------------------------------------------
(* Turns and maps                                                             *)

LEMMA ActiveSteps ==
    ASSUME NEW a \in Actors, ActorSteps(a)
    PROVE  mode[a] # "done" /\ (Begin(a) \/ mode[a] # "idle")
<1> QED BY DEF ActorSteps, Begin, End, StartSpan, Inject, OtelReturns, Measure, PrometheusReturns,
               Try, TryAgain, RetryReturns, Decode, PublishEvent, Publish, Published,
               HandlerReturns, Calls, Results

LEMMA TurnStep ==
    ASSUME ShapeInv, MapInv, TurnInv, NEW a \in Actors, ActorSteps(a)
    PROVE  TurnInv'
<1>1. sharing' = sharing /\ \A b \in Actors : b # a => mode'[b] = mode[b]
    BY Frame0 DEF config, Steady
<1>2. mode[a] # "done" /\ (Begin(a) \/ mode[a] # "idle")
    BY ActiveSteps
<1> SUFFICES ASSUME sharing = "sequential", NEW c \in Actors, NEW b \in Actors, b < c,
                    mode'[c] # "idle"
             PROVE  mode'[b] = "done"
    BY <1>1 DEF TurnInv
<1>3. requests = {}
    BY DEF MapInv
<1>4. N \in Nat /\ a \in 1..N /\ b \in 1..N /\ c \in 1..N
    BY Bounds DEF Actors
<1>5. mode[b] = "done"
    <2>1. CASE c # a
        BY <1>1, <2>1 DEF TurnInv
    <2>2. CASE c = a /\ mode[a] # "idle"
        BY <2>2 DEF TurnInv
    <2>3. CASE c = a /\ Begin(a)
        <3>1. b \in 1..(a - 1)
            BY <1>4, <2>3
        <3> QED BY <1>3, <2>3, <3>1 DEF Begin
    <2> QED BY <1>2, <2>1, <2>2, <2>3
<1> QED BY <1>1, <1>2, <1>5

\* Where the map of a frame comes from.
Kept(b, i) ==
    /\ i \in 1..Len(stack[b])
    /\ stack'[b][i].map = stack[b][i].map /\ stack'[b][i].wrapper = stack[b][i].wrapper
    /\ stack'[b][i].span = stack[b][i].span

NewTop(a, i) ==
    /\ mode[a] = "calling" /\ i = Len(stack[a]) + 1 /\ Len(stack'[a]) = Len(stack[a]) + 1
    /\ \A k \in 1..Len(stack[a]) : stack'[a][k] = stack[a][k]
    /\ stack'[a][i].wrapper = Callee(a) /\ stack'[a][i].map = Metadata(a)
    /\ IF Callee(a) = "otel" THEN StartSpan(a) /\ stack'[a][i].span = Len(spans) + 1
                             ELSE ~Inject(a)

NewMap(a, i) ==
    /\ Inject(a) /\ Top(a).map = 0 /\ Added(Top(a).span)
    /\ i = Len(stack[a]) /\ i # 0 /\ Len(stack'[a]) = Len(stack[a])
    /\ stack'[a][i].map = Len(heap) + 1 /\ stack'[a][i].wrapper = "otel"
    /\ stack'[a][i].span = stack[a][i].span

LEMMA FramesBefore ==
    ASSUME ShapeInv, NEW a \in Actors, ActorSteps(a), NEW b \in Actors, NEW i \in 1..Len(stack'[b])
    PROVE  \/ Kept(b, i)
           \/ b = a /\ NewTop(a, i)
           \/ b = a /\ NewMap(a, i)
<1> DEFINE n == Len(stack[a])
           G == Kept(b, i) \/ (b = a /\ NewTop(a, i)) \/ (b = a /\ NewMap(a, i))
<1>1. Stacks /\ n \in Nat
    BY StackFacts DEF ShapeInv, DataInv, Stacks
<1>2. Same(b, i) => G
    BY DEF Same, Kept
<1>3. stack' = stack => G
    BY <1>2 DEF Same
<1>4. Popped(a) => G
    BY <1>1, <1>2, FramesAfter
<1>5. ASSUME NEW w, NEW span, Pushed(a, Frame(w, span, Metadata(a))), mode[a] = "calling",
             w = Callee(a),
             IF w = "otel" THEN StartSpan(a) /\ span = Len(spans) + 1 ELSE ~Inject(a)
      PROVE  G
    <2> DEFINE f == Frame(w, span, Metadata(a))
    <2>1. f.wrapper = w /\ f.span = span /\ f.map = Metadata(a)
        BY DEF Frame
    <2> HIDE DEF f
    <2>2. Same(b, i) \/ (b = a /\ i = n + 1 /\ stack'[b][i] = f)
        BY <1>1, <1>5, FramesAfter DEF f
    <2>3. CASE b = a /\ i = n + 1 /\ stack'[b][i] = f
        <3>1. Len(stack'[a]) = n + 1 /\ \A k \in 1..n : stack'[a][k] = stack[a][k]
            BY <1>5 DEF Pushed
        <3> QED BY <1>5, <2>1, <2>3, <3>1 DEF NewTop
    <2> QED BY <1>2, <2>2, <2>3
<1>6. ASSUME NEW f, Touched(a, f), f.wrapper = Top(a).wrapper, f.span = Top(a).span,
             f.map = Top(a).map, stack[a] # <<>>
      PROVE  G
    <2>1. Same(b, i) \/ (b = a /\ i = n /\ stack'[b][i] = f)
        <3>1. Stacks /\ Touched(a, f)
            BY <1>1, <1>6
        <3> QED BY <3>1, FramesAfter
    <2>2. CASE b = a /\ i = n /\ stack'[b][i] = f
        <3>1. n \in 1..n
            BY <1>6, TopIs
        <3> QED BY <1>6, <2>2, <3>1 DEF Kept, Top
    <2> QED BY <1>2, <2>1, <2>2
<1>7. stack[a] # <<>> => Top(a) \in Frames /\ Top(a).span \in 0..Len(spans)
                         /\ (Top(a).wrapper = "otel" => Top(a).span \in 1..Len(spans))
    BY TopIs, FrameIs DEF Top
<1>8. CASE StartSpan(a)
    BY <1>5, <1>8, PushingSteps DEF StartSpan, Calls
<1>9. CASE Measure(a) \/ Try(a)
    <2>1. ~Inject(a)
        BY <1>9 DEF Measure, Try, Inject, Calls
    <2> QED BY <1>5, <1>9, <2>1, PushingSteps DEF Measure, Try, Calls
<1>10. CASE Decode(a)
    <2>1. ~Inject(a) /\ mode[a] = "calling" /\ Callee(a) = "handler"
        BY <1>10 DEF Decode, Inject, Calls
    <2>2. Pushed(a, Frame("handler", 0, Metadata(a))) \/ stack' = stack
        BY <1>10, PushingSteps
    <2> QED BY <1>3, <1>5, <2>1, <2>2
<1>11. CASE TryAgain(a)
    <2>1. stack[a] # <<>>
        BY <1>11 DEF TryAgain
    <2> DEFINE f == [Top(a) EXCEPT !.tries = @ + 1]
    <2>2. f.wrapper = Top(a).wrapper /\ f.span = Top(a).span /\ f.map = Top(a).map
        BY <1>7, <2>1 DEF Frames
    <2>3. Touched(a, f)
        BY <1>11, TouchingSteps
    <2> HIDE DEF f
    <2> QED BY <1>6, <2>1, <2>2, <2>3
<1>12. CASE Inject(a)
    <2>1. stack[a] # <<>> /\ Top(a).wrapper = "otel"
        BY <1>12 DEF Inject, ShapeInv, Rests
    <2> DEFINE f == [Top(a) EXCEPT !.map = Len(heap) + 1]
    <2>2. f.wrapper = "otel" /\ f.span = Top(a).span /\ f.map = Len(heap) + 1
        BY <1>7, <2>1 DEF Frames
    <2> HIDE DEF f
    <2>3. CASE Top(a).map = 0 /\ heap' = Append(heap, Top(a).span) /\ Touched(a, f)
        <3>1. Added(Top(a).span)
            BY <1>7, <1>12, <2>1, <2>3, AddDoes DEF Inject
        <3>2. Same(b, i) \/ (b = a /\ i = n /\ stack'[b][i] = f)
            BY <1>1, <2>3, FramesAfter
        <3>3. Len(stack'[a]) = n /\ n # 0
            BY <2>1, <2>3, TopIs DEF Touched
        <3>4. b = a /\ i = n /\ stack'[b][i] = f => NewMap(a, i)
            BY <1>12, <2>2, <2>3, <3>1, <3>3 DEF NewMap, Top
        <3> QED BY <1>2, <3>2, <3>4
    <2>4. stack' = stack \/ (Top(a).map = 0 /\ heap' = Append(heap, Top(a).span) /\ Touched(a, f))
        BY <1>12, TouchingSteps DEF f
    <2> QED BY <1>3, <2>3, <2>4
<1>13. CASE \/ OtelReturns(a) \/ PrometheusReturns(a) \/ RetryReturns(a) \/ Published(a)
            \/ HandlerReturns(a)
    BY <1>3, <1>4, <1>13, PoppingSteps
<1>14. CASE Begin(a) \/ End(a) \/ PublishEvent(a) \/ Publish(a)
    BY <1>3, <1>14 DEF Begin, End, PublishEvent, Publish
<1> QED BY <1>8, <1>9, <1>10, <1>11, <1>12, <1>13, <1>14 DEF ActorSteps

LEMMA MapFrom ==
    ASSUME ShapeInv, NEW a \in Actors, ActorSteps(a), NEW b \in Actors, NEW i \in 1..Len(stack'[b])
    PROVE  \/ \E k \in 1..Len(stack[b]) : stack[b][k].map = stack'[b][i].map
           \/ stack'[b][i].map = MapOf(b)
           \/ /\ b = a /\ Inject(a) /\ Top(a).map = 0 /\ stack[a] # <<>>
              /\ stack'[b][i].map = Len(heap) + 1 /\ Len(heap') = Len(heap) + 1
<1>1. CASE Kept(b, i)
    BY <1>1 DEF Kept
<1>2. CASE b = a /\ NewTop(a, i)
    <2>1. stack'[b][i].map = Metadata(a)
        BY <1>2 DEF NewTop
    <2>2. CASE stack[a] = <<>>
        BY <1>2, <2>1, <2>2 DEF Metadata
    <2>3. CASE stack[a] # <<>>
        BY <1>2, <2>1, <2>3, TopIs DEF Metadata, Top
    <2> QED BY <2>2, <2>3
<1>3. CASE b = a /\ NewMap(a, i)
    BY <1>3 DEF NewMap, Added, Inject, ShapeInv, Rests
<1> QED BY <1>1, <1>2, <1>3, FramesBefore

\* A map that is made is made either for a request, at its first span, or for a message.
LEMMA MapsStep ==
    ASSUME ShapeInv, MapInv, NEW a \in Actors, ActorSteps(a)
    PROVE  /\ requests' = requests /\ \A b \in Actors : MapOf(b)' = MapOf(b)
           /\ \A b \in Actors : \A i \in 1..Len(stack'[b]) :
                 /\ b \notin requests => stack'[b][i].map = MapOf(b)
                 /\ b \in requests /\ stack'[b][i].map # 0 =>
                       /\ stack'[b][i].map > N
                       /\ \A c \in Actors \ {b} : \A j \in 1..Len(stack'[c]) :
                             stack'[c][j].map # stack'[b][i].map
<1>1. requests' = requests /\ \A b \in Actors : MapOf(b)' = MapOf(b)
    BY Frame0 DEF config, MapOf
<1>2. N \in Nat /\ Len(heap) \in Nat /\ N <= Len(heap)
    BY SizesAre
<1>3. \A b \in Actors : IF b \in requests THEN MapOf(b) = 0 ELSE MapOf(b) \in 1..N
    BY MetadataIs DEF MapOf
<1>4. \A b \in Actors : \A k \in 1..Len(stack[b]) :
         /\ b \notin requests => stack[b][k].map = MapOf(b)
         /\ b \in requests /\ stack[b][k].map # 0 =>
               /\ stack[b][k].map > N
               /\ \A c \in Actors \ {b} : \A j \in 1..Len(stack[c]) : stack[c][j].map # stack[b][k].map
         /\ stack[b][k].map \in 0..Len(heap)
    BY FrameIs DEF MapInv, Given, Private
<1>5. Inject(a) /\ Top(a).map = 0 /\ stack[a] # <<>> => a \in requests
    BY <1>3, <1>4, TopIs DEF Top
<1>6. ASSUME NEW b \in Actors, NEW i \in 1..Len(stack'[b]), b \notin requests
      PROVE  stack'[b][i].map = MapOf(b)
    <2>1. CASE \E k \in 1..Len(stack[b]) : stack[b][k].map = stack'[b][i].map
        BY <1>4, <1>6, <2>1
    <2>2. ~(b = a /\ Inject(a) /\ Top(a).map = 0 /\ stack[a] # <<>>)
        BY <1>5, <1>6
    <2> QED BY <2>1, <2>2, MapFrom
<1>7. ASSUME NEW b \in Actors, NEW i \in 1..Len(stack'[b])
      PROVE  stack'[b][i].map \in 0..Len(heap)
                \/ (b = a /\ b \in requests /\ stack'[b][i].map = Len(heap) + 1)
    <2>1. MapOf(b) \in 0..Len(heap)
        BY <1>2, <1>3
    <2>2. CASE \E k \in 1..Len(stack[b]) : stack[b][k].map = stack'[b][i].map
        BY <1>4, <2>2
    <2>3. CASE stack'[b][i].map = MapOf(b)
        BY <2>1, <2>3
    <2>4. CASE /\ b = a /\ Inject(a) /\ Top(a).map = 0 /\ stack[a] # <<>>
               /\ stack'[b][i].map = Len(heap) + 1
        BY <1>5, <2>4
    <2> QED BY <2>2, <2>3, <2>4, MapFrom
<1>8. ASSUME NEW b \in Actors, NEW i \in 1..Len(stack'[b]), b \in requests, stack'[b][i].map # 0
      PROVE  /\ stack'[b][i].map > N
             /\ \A c \in Actors \ {b} : \A j \in 1..Len(stack'[c]) :
                   stack'[c][j].map # stack'[b][i].map
    <2>1. CASE \E k \in 1..Len(stack[b]) : stack[b][k].map = stack'[b][i].map
        <3>1. PICK k \in 1..Len(stack[b]) : stack[b][k].map = stack'[b][i].map
            BY <2>1
        <3> DEFINE m == stack'[b][i].map
        <3>2. m > N /\ m \in 0..Len(heap)
              /\ \A c \in Actors \ {b} : \A j \in 1..Len(stack[c]) : stack[c][j].map # m
            BY <1>4, <1>8, <3>1
        <3> HIDE DEF m
        <3>3. ASSUME NEW c \in Actors \ {b}, NEW j \in 1..Len(stack'[c])
              PROVE  stack'[c][j].map # m
            <4>1. CASE \E l \in 1..Len(stack[c]) : stack[c][l].map = stack'[c][j].map
                BY <3>2, <4>1
            <4>2. CASE stack'[c][j].map = MapOf(c)
                <5>1. MapOf(c) \in 0..N
                    BY <1>2, <1>3
                <5> QED BY <1>2, <3>2, <4>2, <5>1
            <4>3. CASE stack'[c][j].map = Len(heap) + 1
                BY <1>2, <3>2, <4>3
            <4> QED BY <4>1, <4>2, <4>3, MapFrom
        <3> QED BY <3>2, <3>3 DEF m
    <2>2. CASE b = a /\ stack'[b][i].map = Len(heap) + 1
        <3>1. \A c \in Actors \ {b} : \A j \in 1..Len(stack'[c]) : stack'[c][j].map \in 0..Len(heap)
            BY <1>7, <2>2
        <3> QED BY <1>2, <2>2, <3>1
    <2> QED BY <1>3, <1>8, <2>1, <2>2, MapFrom
<1> QED BY <1>1, <1>6, <1>8

LEMMA InheritsStep ==
    ASSUME ShapeInv, MapInv, NEW a \in Actors, ActorSteps(a),
           NEW b \in Actors, NEW i \in 1..Len(stack'[b])
    PROVE  InheritsMap(b, i)'
<1> DEFINE n == Len(stack[a])
<1>1. n \in Nat /\ Len(heap) \in Nat
    BY StackFacts, SizesAre DEF ShapeInv, DataInv, Stacks
<1>2. CASE b # a
    <2>1. stack'[b] = stack[b] /\ mode'[b] = mode[b]
        BY <1>2, StackStep, Frame0 DEF Steady
    <2>2. InheritsMap(b, i)
        BY <2>1 DEF MapInv
    <2> QED BY <2>1, <2>2 DEF InheritsMap, Injected
<1>3. CASE b = a
    <2>1. \A k \in 1..n : InheritsMap(a, k)
        BY DEF MapInv
    <2>2. ASSUME stack'[a][i].wrapper = "otel", Injected(a, i)'
          PROVE  stack'[a][i].map # 0
        <3>1. CASE Kept(a, i) /\ Injected(a, i)
            BY <2>1, <2>2, <3>1 DEF Kept, InheritsMap
        <3>2. CASE Kept(a, i) /\ ~Injected(a, i)
            <4>1. mode[a] = "injecting" /\ i = n
                BY <1>1, <3>2 DEF Injected, Kept
            <4>2. Inject(a)
                BY <4>1 DEF ActorSteps, Begin, End, StartSpan, OtelReturns, Measure,
                            PrometheusReturns, Try, TryAgain, RetryReturns, Decode, PublishEvent,
                            Publish, Published, HandlerReturns, Calls, Results
            <4>3. CASE Top(a).map \in 1..Len(heap)
                BY <3>2, <4>1, <4>3 DEF Kept, Top
            <4>4. CASE Touched(a, [Top(a) EXCEPT !.map = Len(heap) + 1])
                <5>1. stack'[a][n] = [Top(a) EXCEPT !.map = Len(heap) + 1]
                    BY <4>4 DEF Touched
                <5>2. Top(a) \in Frames
                    BY <3>2, <4>1, FrameIs DEF Kept, Top
                <5>3. stack'[a][n].map = Len(heap) + 1
                    BY <5>1, <5>2 DEF Frames
                <5> QED BY <1>1, <4>1, <5>3
            <4> QED BY <4>2, <4>3, <4>4, TouchingSteps
        <3>3. CASE NewTop(a, i)
            <4>1. StartSpan(a) /\ i = Len(stack'[a])
                BY <2>2, <3>3 DEF NewTop
            <4>2. mode'[a] = "injecting"
                BY <4>1 DEF StartSpan, Goes, ShapeInv, TypeOK
            <4>3. Len(stack'[a]) = n + 1
                BY <3>3 DEF NewTop
            <4> QED BY <1>1, <2>2, <4>1, <4>2, <4>3 DEF Injected
        <3>4. CASE NewMap(a, i)
            BY <1>1, <3>4 DEF NewMap
        <3> QED BY <1>3, <3>1, <3>2, <3>3, <3>4, FramesBefore
    <2>3. ASSUME stack'[a][i].map # 0, NEW j \in i..Len(stack'[a])
          PROVE  stack'[a][j].map = stack'[a][i].map
        <3>1. i \in Nat \ {0} /\ Len(stack'[a]) \in Nat
            <4>1. Stacks'
                BY StackStep
            <4>2. stack'[a] \in Seq(Frames)
                BY <4>1 DEF Stacks
            <4>3. Len(stack'[a]) \in Nat
                <5> DEFINE q == stack'[a]
                <5>1. q \in Seq(Frames)
                    BY <4>2
                <5> HIDE DEF q
                <5>2. Len(q) \in Nat
                    BY <5>1, LenProperties
                <5> QED BY <5>2 DEF q
            <4> QED BY <1>3, <4>3
        <3>2. j \in 1..Len(stack'[a])
            BY <3>1
        <3>3. CASE j = i
            BY <3>3
        <3>4. CASE Kept(a, i) /\ j # i
            <4>1. /\ i \in 1..n /\ stack[a][i].map # 0 /\ stack[a][i].map = stack'[a][i].map
                  /\ \A k \in i..n : stack[a][k].map = stack[a][i].map
                BY <2>1, <2>3, <3>4 DEF Kept, InheritsMap
            <4>2. stack[a] # <<>> /\ Top(a).map = stack[a][i].map
                <5>1. stack[a] # <<>>
                    BY <1>1, <4>1, StackFacts DEF ShapeInv, DataInv, Stacks
                <5>2. n \in i..n /\ Top(a) = stack[a][n]
                    BY <1>1, <4>1 DEF Top
                <5> QED BY <4>1, <5>1, <5>2
            <4>3. CASE Kept(a, j)
                <5>1. j \in i..n
                    BY <1>1, <3>1, <4>3 DEF Kept
                <5> QED BY <4>1, <4>3, <5>1 DEF Kept
            <4>4. CASE NewTop(a, j)
                BY <4>1, <4>2, <4>4 DEF NewTop, Metadata
            <4>5. CASE NewMap(a, j)
                BY <4>1, <4>2, <4>5 DEF NewMap
            <4> QED BY <3>2, <4>3, <4>4, <4>5, FramesBefore
        <3>5. CASE (NewTop(a, i) \/ NewMap(a, i)) /\ j # i
            <4>1. i = Len(stack'[a])
                BY <3>5 DEF NewTop, NewMap
            <4> QED BY <3>1, <3>5, <4>1
        <3> QED BY <1>3, <3>3, <3>4, <3>5, FramesBefore
    <2> QED BY <1>3, <2>2, <2>3 DEF InheritsMap
<1> QED BY <1>2, <1>3

\* What a step sends.
LEMMA SentStep ==
    ASSUME ShapeInv, NEW a \in Actors, ActorSteps(a), NEW x \in sent'
    PROVE  \/ x \in sent
           \/ /\ x.by = a /\ x.map = Len(heap) + 1 /\ ~Inject(a)
              /\ Metadata(a) \in 1..Len(heap) /\ Added(heap[Metadata(a)]) /\ UNCHANGED spans
              /\ \/ x.kind = "event" /\ x.span = CallSpan(a) /\ Publish(a)
                 \/ x.kind = "dead" /\ RetryReturns(a)
<1>1. CASE RetryReturns(a)
    <2>1. PICK r \in Results : Send(a, "dead", r) \/ UNCHANGED <<heap, sent>>
        BY <1>1, SendingSteps
    <2>2. UNCHANGED spans /\ ~Inject(a)
        BY <1>1, SendingSteps DEF RetryReturns, Inject, Results
    <2> QED BY <1>1, <2>1, <2>2, SendDoes
<1>2. CASE Publish(a)
    <2>1. PICK r \in Results : Send(a, "event", r) \/ UNCHANGED <<heap, sent>>
        BY <1>2, SendingSteps
    <2>2. UNCHANGED spans /\ ~Inject(a)
        BY <1>2, SendingSteps DEF Publish, Inject, Calls
    <2> QED BY <1>2, <2>1, <2>2, SendDoes
<1>3. CASE ~RetryReturns(a) /\ ~Publish(a)
    <2>1. sent' = sent
        BY <1>3 DEF ActorSteps, Begin, End, StartSpan, Inject, OtelReturns, Measure,
                    PrometheusReturns, Try, TryAgain, Decode, PublishEvent, Published, HandlerReturns
    <2> QED BY <2>1
<1> QED BY <1>1, <1>2, <1>3

LEMMA MapStep ==
    ASSUME ShapeInv, MapInv, NEW a \in Actors, ActorSteps(a)
    PROVE  MapInv'
<1>1. requests' = requests /\ sharing' = sharing /\ \A b \in Actors : MapOf(b)' = MapOf(b)
    BY MapsStep, Frame0 DEF config
<1>2. ASSUME NEW b \in Actors, NEW i \in 1..Len(stack'[b]) PROVE Given(b, i)'
    BY <1>1, MapsStep DEF Given, Private
<1>3. /\ N \in Nat /\ Len(heap) \in Nat /\ N <= Len(heap)
      /\ Len(heap') \in Nat /\ Len(heap) <= Len(heap')
    BY SizesAre, DataStep
<1>4. \A b \in Actors : MapOf(b) \in 0..N
    BY MetadataIs
<1>5. \A b \in Actors : \A k \in 1..Len(stack[b]) : stack[b][k].map \in 0..Len(heap)
    BY FrameIs
<1>6. ASSUME NEW x \in sent' PROVE Detached(x)'
    <2>1. CASE x \in sent
        <3>1. x.map \in N + 1..Len(heap)
              /\ \A b \in Actors : \A k \in 1..Len(stack[b]) : stack[b][k].map # x.map
            BY <2>1 DEF MapInv, Detached
        <3>2. x.map \in N + 1..Len(heap')
            BY <1>3, <3>1
        <3>3. ASSUME NEW b \in Actors, NEW i \in 1..Len(stack'[b]) PROVE stack'[b][i].map # x.map
            <4>1. MapOf(b) # x.map /\ Len(heap) + 1 # x.map
                BY <1>3, <1>4, <3>1
            <4> QED BY <3>1, <4>1, MapFrom
        <3> QED BY <3>2, <3>3 DEF Detached
    <2>2. CASE x.map = Len(heap) + 1 /\ ~Inject(a) /\ Added(heap[Metadata(a)])
        <3>1. x.map \in N + 1..Len(heap')
            BY <1>3, <2>2 DEF Added
        <3>2. ASSUME NEW b \in Actors, NEW i \in 1..Len(stack'[b]) PROVE stack'[b][i].map # x.map
            <4>1. stack'[b][i].map \in 0..Len(heap)
                <5>1. MapOf(b) \in 0..Len(heap)
                    BY <1>3, <1>4
                <5> QED BY <1>5, <2>2, <5>1, MapFrom
            <4> QED BY <1>3, <2>2, <4>1
        <3> QED BY <3>1, <3>2 DEF Detached
    <2> QED BY <2>1, <2>2, SentStep
<1>7. requests' # {} => sharing' = "none"
    BY <1>1 DEF MapInv
<1>8. ASSUME NEW b \in Actors, NEW i \in 1..Len(stack'[b]) PROVE InheritsMap(b, i)'
    BY InheritsStep
<1> QED BY <1>2, <1>6, <1>7, <1>8 DEF MapInv

-----------------------------------------------------------------------------
(* The spans above a span.  Line is a recursive function of the spans: it exists  *)
(* since a span's parent was started before it, and starting a span leaves the    *)
(* lines of the others as they are.                                               *)

LineOf(sp) == CHOOSE L : L = [i \in 0..Len(sp) |-> IF i = 0 THEN {} ELSE {i} \cup L[sp[i].parent]]

IsLine(sp, n, L) == L = [i \in 0..n |-> IF i = 0 THEN {} ELSE {i} \cup L[sp[i].parent]]

Ordered(sp) == Len(sp) \in Nat /\ \A i \in 1..Len(sp) : sp[i].parent \in 0..(i - 1)

LEMMA LineExists ==
    ASSUME NEW sp, Ordered(sp)
    PROVE  \E L : IsLine(sp, Len(sp), L)
<1> DEFINE S == {n \in Nat : n <= Len(sp) => \E L : IsLine(sp, n, L)}
<1>1. 0 \in S
    <2> DEFINE L0 == [i \in 0..0 |-> {}]
    <2>1. L0 = [i \in 0..0 |-> IF i = 0 THEN {} ELSE {i} \cup L0[sp[i].parent]]
        OBVIOUS
    <2>2. IsLine(sp, 0, L0)
        BY <2>1 DEF IsLine
    <2> QED BY <2>2
<1>2. ASSUME NEW n \in Nat, n \in S PROVE n + 1 \in S
    <2> SUFFICES ASSUME n + 1 <= Len(sp) PROVE \E L : IsLine(sp, n + 1, L)
        OBVIOUS
    <2>1. Len(sp) \in Nat /\ \A i \in 1..Len(sp) : sp[i].parent \in 0..(i - 1)
        BY DEF Ordered
    <2>2. PICK g : IsLine(sp, n, g)
        BY <1>2, <2>1
    <2>3. g = [i \in 0..n |-> IF i = 0 THEN {} ELSE {i} \cup g[sp[i].parent]]
        BY <2>2 DEF IsLine
    <2> DEFINE h == [i \in 0..(n + 1) |-> IF i = n + 1 THEN {i} \cup g[sp[i].parent] ELSE g[i]]
               k == [i \in 0..(n + 1) |-> IF i = 0 THEN {} ELSE {i} \cup h[sp[i].parent]]
    <2>4. ASSUME NEW i \in 0..(n + 1) PROVE h[i] = k[i]
        <3>1. CASE i = 0
            <4>1. h[i] = g[i] /\ g[i] = {} /\ k[i] = {}
                BY <2>3, <3>1
            <4> QED BY <4>1
        <3>2. CASE i # 0
            <4>1. i \in 1..Len(sp)
                BY <2>1, <3>2
            <4>2. sp[i].parent \in 0..(i - 1)
                BY <2>1, <4>1
            <4>3. sp[i].parent \in 0..n /\ sp[i].parent # n + 1
                BY <4>2
            <4>4. h[sp[i].parent] = g[sp[i].parent]
                BY <4>3
            <4>5. k[i] = {i} \cup g[sp[i].parent]
                BY <3>2, <4>4
            <4>6. h[i] = {i} \cup g[sp[i].parent]
                <5>1. CASE i = n + 1
                    BY <5>1
                <5>2. CASE i # n + 1
                    <6>1. i \in 0..n
                        BY <5>2
                    <6> QED BY <2>3, <3>2, <5>2, <6>1
                <5> QED BY <5>1, <5>2
            <4> QED BY <4>5, <4>6
        <3> QED BY <3>1, <3>2
    <2>5. h = k
        <3>1. DOMAIN h = 0..(n + 1) /\ DOMAIN k = 0..(n + 1)
            OBVIOUS
        <3>2. h = [i \in 0..(n + 1) |-> h[i]] /\ k = [i \in 0..(n + 1) |-> k[i]]
            OBVIOUS
        <3> HIDE DEF h, k
        <3> QED BY <2>4, <3>2
    <2>6. IsLine(sp, n + 1, h)
        BY <2>5 DEF IsLine
    <2> QED BY <2>6
<1> HIDE DEF S
<1>3. Nat \subseteq S
    BY <1>1, <1>2, SetInduction
<1>4. Len(sp) \in Nat
    BY DEF Ordered
<1> QED BY <1>3, <1>4 DEF S

LEMMA LineOfIs ==
    ASSUME NEW sp, Ordered(sp)
    PROVE  /\ LineOf(sp)[0] = {}
           /\ \A i \in 1..Len(sp) : LineOf(sp)[i] = {i} \cup LineOf(sp)[sp[i].parent]
<1> DEFINE L == LineOf(sp)
<1>1. L = [i \in 0..Len(sp) |-> IF i = 0 THEN {} ELSE {i} \cup L[sp[i].parent]]
    BY LineExists DEF LineOf, IsLine
<1>2. Len(sp) \in Nat
    BY DEF Ordered
<1> HIDE DEF L
<1>3. L[0] = {}
    BY <1>1, <1>2
<1>4. ASSUME NEW i \in 1..Len(sp) PROVE L[i] = {i} \cup L[sp[i].parent]
    <2>1. i \in 0..Len(sp) /\ i # 0
        BY <1>2
    <2> QED BY <1>1, <2>1
<1> QED BY <1>3, <1>4 DEF L

\* The line of a span is made of spans started no later.
LEMMA LineOfBelow ==
    ASSUME NEW sp, Ordered(sp), NEW i \in 0..Len(sp)
    PROVE  LineOf(sp)[i] \subseteq 1..i
<1> DEFINE T == {k \in Nat : k <= Len(sp) /\ ~(LineOf(sp)[k] \subseteq 1..k)}
<1> SUFFICES ASSUME T # {} PROVE FALSE
    BY DEF Ordered
<1>1. PICK k \in T : \A l \in T : k <= l
    BY LeastNumber
<1>2. Len(sp) \in Nat /\ \A j \in 1..Len(sp) : sp[j].parent \in 0..(j - 1)
    BY DEF Ordered
<1>3. k # 0 /\ k \in 1..Len(sp)
    <2>1. k = 0 => LineOf(sp)[k] \subseteq 1..k
        BY LineOfIs
    <2> QED BY <1>2, <2>1
<1> DEFINE q == sp[k].parent
<1>4. q \in 0..(k - 1) /\ q <= Len(sp) /\ ~(k <= q) /\ q \in Nat
    BY <1>2, <1>3
<1>5. LineOf(sp)[k] = {k} \cup LineOf(sp)[q]
    BY <1>3, LineOfIs
<1> HIDE DEF q
<1>6. LineOf(sp)[q] \subseteq 1..q
    BY <1>1, <1>4
<1>7. {k} \cup LineOf(sp)[q] \subseteq 1..k
    BY <1>3, <1>4, <1>6
<1> QED BY <1>5, <1>7

\* Spans with the same parents have the same lines.
LEMMA LinesAgree ==
    ASSUME NEW sp, NEW tp, Ordered(sp), Ordered(tp), NEW n \in Nat, n <= Len(sp), n <= Len(tp),
           \A i \in 1..n : sp[i].parent = tp[i].parent
    PROVE  \A i \in 0..n : LineOf(sp)[i] = LineOf(tp)[i]
<1> DEFINE T == {k \in Nat : k <= n /\ LineOf(sp)[k] # LineOf(tp)[k]}
<1> SUFFICES ASSUME T # {} PROVE FALSE
    OBVIOUS
<1>1. PICK k \in T : \A l \in T : k <= l
    BY LeastNumber
<1>2. /\ Len(sp) \in Nat /\ Len(tp) \in Nat
      /\ \A j \in 1..Len(sp) : sp[j].parent \in 0..(j - 1)
    BY DEF Ordered
<1>3. k # 0
    BY LineOfIs
<1>4. k \in 1..n /\ k \in 1..Len(sp) /\ k \in 1..Len(tp)
    BY <1>2, <1>3
<1> DEFINE q == sp[k].parent
<1>5. q \in 0..(k - 1) /\ q = tp[k].parent
    BY <1>2, <1>4
<1>6. LineOf(sp)[k] = {k} \cup LineOf(sp)[q] /\ LineOf(tp)[k] = {k} \cup LineOf(tp)[q]
    BY <1>4, <1>5, LineOfIs
<1> HIDE DEF q
<1>7. q \in Nat /\ q <= n /\ ~(k <= q)
    BY <1>4, <1>5
<1>8. LineOf(sp)[q] = LineOf(tp)[q]
    BY <1>1, <1>7
<1> QED BY <1>6, <1>8

LEMMA SpansAreOrdered == ASSUME ShapeInv PROVE Ordered(spans) /\ Line = LineOf(spans)
<1>1. Len(spans) \in Nat /\ spans \in Seq(Span) /\ \A i \in 1..Len(spans) : spans[i].parent < i
    BY SizesAre DEF SpansOK
<1>2. ASSUME NEW i \in 1..Len(spans) PROVE spans[i].parent \in 0..(i - 1)
    <2>1. spans[i] \in Span
        BY <1>1, ElementOfSeq
    <2>2. spans[i].parent \in Nat /\ spans[i].parent < i
        BY <1>1, <2>1 DEF Span
    <2> QED BY <1>1, <2>2
<1> QED BY <1>1, <1>2 DEF Ordered, Line, LineOf

LEMMA LineIs ==
    ASSUME ShapeInv, NEW i \in 1..Len(spans)
    PROVE  i \in Line[i] /\ Line[i] \subseteq 1..Len(spans)
<1>1. Ordered(spans) /\ Line = LineOf(spans) /\ Len(spans) \in Nat
    BY SpansAreOrdered, SizesAre
<1>2. i \in Line[i]
    BY <1>1, LineOfIs
<1>3. i \in 0..Len(spans)
    BY <1>1
<1>4. Line[i] \subseteq 1..i
    BY <1>1, <1>3, LineOfBelow
<1> QED BY <1>1, <1>2, <1>4

LEMMA LinesStep ==
    ASSUME ShapeInv, NEW a \in Actors, ActorSteps(a)
    PROVE  /\ \A i \in 1..Len(spans) : Line'[i] = Line[i] /\ spans'[i].by = spans[i].by
           /\ StartSpan(a) =>
                 /\ Line'[Len(spans) + 1] = {Len(spans) + 1} \cup Line[Parent(a)]
                 /\ spans'[Len(spans) + 1].by = a
<1> DEFINE n == Len(spans)
<1>1. Ordered(spans) /\ Line = LineOf(spans) /\ n \in Nat
    BY SpansAreOrdered, SizesAre
<1>2. Ordered(spans') /\ Line' = LineOf(spans') /\ n <= Len(spans')
    <2>1. /\ Len(spans') \in Nat /\ spans' \in Seq(Span) /\ n <= Len(spans')
          /\ \A i \in 1..Len(spans') : spans'[i].parent < i
        BY DataStep DEF SpansOK
    <2>2. ASSUME NEW i \in 1..Len(spans') PROVE spans'[i].parent \in 0..(i - 1)
        <3> DEFINE q == spans'
        <3>1. q \in Seq(Span) /\ i \in 1..Len(q)
            BY <2>1
        <3> HIDE DEF q
        <3>2. q[i] \in Span
            BY <3>1, ElementOfSeq
        <3>3. q[i].parent \in Nat
            BY <3>2 DEF Span
        <3>4. spans'[i].parent \in Nat /\ spans'[i].parent < i
            BY <2>1, <3>3 DEF q
        <3> QED BY <2>1, <3>4
    <2> QED BY <2>1, <2>2 DEF Ordered, Line, LineOf
<1>3. \A i \in 1..n : spans'[i].parent = spans[i].parent /\ spans'[i].by = spans[i].by
    BY SpansStep DEF Started, Ended
<1>4. \A i \in 0..n : LineOf(spans)[i] = LineOf(spans')[i]
    BY <1>1, <1>2, <1>3, LinesAgree
<1>5. ASSUME StartSpan(a)
      PROVE  Line'[n + 1] = {n + 1} \cup Line[Parent(a)] /\ spans'[n + 1].by = a
    <2>1. /\ Len(spans') = n + 1
          /\ spans'[n + 1].parent = Parent(a) /\ spans'[n + 1].by = a
        <3>1. Started(a)
            BY <1>5, StartDoes
        <3> QED BY <3>1 DEF Started
    <2>2. n + 1 \in 1..Len(spans')
        BY <1>1, <2>1
    <2>3. Line'[n + 1] = {n + 1} \cup Line'[Parent(a)]
        BY <1>2, <2>1, <2>2, LineOfIs
    <2>4. Parent(a) \in 0..n
        BY <1>1, MetadataIs
    <2> QED BY <1>1, <1>2, <1>4, <2>1, <2>3, <2>4
<1>6. \A i \in 1..n : i \in 0..n
    BY <1>1
<1> QED BY <1>1, <1>2, <1>3, <1>4, <1>5, <1>6

-----------------------------------------------------------------------------
(* Every span leads upstream                                                  *)

LEMMA HeapStep ==
    ASSUME ShapeInv, NEW a \in Actors, ActorSteps(a)
    PROVE  \/ UNCHANGED heap
           \/ \E s : Added(s)
           \/ /\ Inject(a) /\ stack' = stack /\ stack[a] # <<>> /\ Top(a).wrapper = "otel"
              /\ Rewritten(Top(a).map, Top(a).span)
<1>1. CASE Inject(a)
    <2>1. stack[a] # <<>> /\ Top(a).wrapper = "otel" /\ UNCHANGED spans
        BY <1>1 DEF Inject, ShapeInv, Rests
    <2>2. Top(a).span \in 1..Len(spans)
        BY <2>1, TopIs, FrameIs DEF Top
    <2>3. CASE Top(a).map \in 1..Len(heap) /\ heap' = [heap EXCEPT ![Top(a).map] = Top(a).span]
               /\ stack' = stack
        BY <1>1, <2>1, <2>2, <2>3, RewriteDoes
    <2>4. CASE heap' = Append(heap, Top(a).span)
        BY <2>1, <2>2, <2>4, AddDoes
    <2> QED BY <1>1, <2>3, <2>4, TouchingSteps
<1>2. CASE RetryReturns(a)
    <2>1. UNCHANGED spans /\ \E r \in Results : Send(a, "dead", r) \/ UNCHANGED <<heap, sent>>
        BY <1>2, SendingSteps
    <2> QED BY <2>1, SendDoes
<1>3. CASE Publish(a)
    <2>1. /\ UNCHANGED spans
          /\ \E r \in Results : Send(a, "event", r) \/ UNCHANGED <<heap, sent>>
        BY <1>3, SendingSteps
    <2> QED BY <2>1, SendDoes
<1>4. CASE ~Inject(a) /\ ~RetryReturns(a) /\ ~Publish(a)
    BY <1>4 DEF ActorSteps, Begin, End, StartSpan, OtelReturns, Measure, PrometheusReturns, Try,
                TryAgain, Decode, PublishEvent, Published, HandlerReturns, trace
<1> QED BY <1>1, <1>2, <1>3, <1>4

LEMMA MapIs ==
    ASSUME ShapeInv, MapInv, NEW a \in Actors
    PROVE  /\ a \notin requests => /\ MapOf(a) \in 1..N /\ Upstream(a) = MapOf(a)
                                   /\ Metadata(a) = MapOf(a)
           /\ a \in requests => MapOf(a) = 0 /\ Upstream(a) = a
           /\ stack[a] # <<>> => Metadata(a) = Top(a).map
           /\ stack[a] = <<>> => Metadata(a) = MapOf(a)
<1>1. N \in Nat /\ a \in 1..N
    BY Bounds DEF Actors
<1>2. CASE a \notin requests
    <2>1. MapOf(a) \in 1..N
        BY <1>2, MetadataIs
    <2>2. Upstream(a) = MapOf(a)
        BY <1>1, <2>1 DEF Upstream
    <2>3. stack[a] # <<>> => Top(a).map = MapOf(a)
        BY <1>2, TopIs DEF Top, MapInv, Given
    <2> QED BY <1>2, <2>1, <2>2, <2>3 DEF Metadata
<1>3. CASE a \in requests
    BY <1>3 DEF Upstream, MapOf, Metadata
<1> QED BY <1>2, <1>3

LEMMA MetadataLeads ==
    ASSUME ShapeInv, MapInv, LeadInv, NEW a \in Actors
    PROVE  /\ Metadata(a) # 0 => Upstream(a) \in Line[heap[Metadata(a)]]
           /\ Upstream(a) \in Line[Parent(a)]
<1>1. ASSUME Metadata(a) # 0 PROVE Upstream(a) \in Line[heap[Metadata(a)]]
    <2>1. CASE stack[a] = <<>>
        <3>1. a \notin requests /\ Metadata(a) = Upstream(a) /\ Upstream(a) \in 1..N
            BY <1>1, <2>1, MapIs
        <3> QED BY <3>1 DEF LeadInv
    <2>2. CASE stack[a] # <<>>
        BY <1>1, <2>2, TopIs, MapIs DEF LeadInv, Top
    <2> QED BY <2>1, <2>2
<1>2. Upstream(a) \in Line[Upstream(a)]
    <2>1. Upstream(a) \in 1..N /\ N \in Nat /\ Len(spans) \in Nat /\ N <= Len(spans)
        BY MetadataIs, SizesAre
    <2>2. Upstream(a) \in 1..Len(spans)
        BY <2>1
    <2> QED BY <2>2, LineIs
<1> QED BY <1>1, <1>2 DEF Parent

\* A map leads upstream of everyone who holds it, also when it is written to.
LEMMA InjectLeads ==
    ASSUME ShapeInv, MapInv, LeadInv, NEW a \in Actors, stack[a] # <<>>, Top(a).wrapper = "otel",
           NEW b \in Actors,
           \/ b \notin requests /\ MapOf(b) = Top(a).map
           \/ \E i \in 1..Len(stack[b]) : stack[b][i].map = Top(a).map,
           Top(a).map # 0
    PROVE  Upstream(b) \in Line[Top(a).span]
<1>1. Upstream(a) \in Line[Top(a).span]
    BY TopIs DEF LeadInv, Top
<1>2. N \in Nat
    BY Bounds
<1>3. b # a /\ b \in requests => FALSE
    <2> SUFFICES ASSUME b # a, b \in requests PROVE FALSE
        OBVIOUS
    <2>1. PICK i \in 1..Len(stack[b]) : stack[b][i].map = Top(a).map
        OBVIOUS
    <2>2. Private(b, stack[b][i].map)
        BY DEF MapInv, Given
    <2>3. a \in Actors \ {b} /\ Len(stack[a]) \in 1..Len(stack[a])
        BY TopIs
    <2> QED BY <2>1, <2>2, <2>3 DEF Private, Top
<1>4. CASE b # a /\ b \notin requests
    <2>1. Top(a).map = MapOf(b)
        BY <1>4 DEF MapInv, Given
    <2>2. MapOf(b) \in 1..N /\ Upstream(b) = MapOf(b)
        BY <1>4, MapIs
    <2>3. a \notin requests
        <3>1. a \in requests => Private(a, Top(a).map)
            BY TopIs DEF MapInv, Given, Top
        <3>2. a \in requests => Top(a).map > N
            BY <3>1 DEF Private
        <3> QED BY <1>2, <2>1, <2>2, <3>2
    <2>4. Top(a).map = Upstream(a)
        BY <2>3, MapIs
    <2> QED BY <1>1, <2>1, <2>2, <2>4
<1> QED BY <1>1, <1>3, <1>4

LEMMA LeadStep ==
    ASSUME ShapeInv, MapInv, LeadInv, NEW a \in Actors, ActorSteps(a)
    PROVE  LeadInv'
<1> DEFINE n == Len(stack[a])
<1>1. /\ N \in Nat /\ Len(heap) \in Nat /\ Len(spans) \in Nat /\ N <= Len(heap) /\ N <= Len(spans)
      /\ \A m \in 1..Len(heap) : heap[m] \in 1..Len(spans)
    BY SizesAre DEF HeapOK
<1>2. \A i \in 1..Len(spans) : Line'[i] = Line[i] /\ spans'[i].by = spans[i].by
    BY LinesStep
<1>3. \A b \in Actors : Upstream(b)' = Upstream(b)
    BY MapsStep DEF Upstream
<1>4. \A b \in Actors : \A i \in 1..Len(stack[b]) :
         /\ stack[b][i].span \in 0..Len(spans) /\ stack[b][i].map \in 0..Len(heap)
         /\ stack[b][i].wrapper = "otel" => stack[b][i].span \in 1..Len(spans)
         /\ stack[b][i].map # 0 => stack[b][i].map \in 1..Len(heap)
    BY <1>1, FrameIs
\* A map somebody holds, or had, keeps leading upstream.
<1>5. ASSUME NEW b \in Actors, NEW m \in 1..Len(heap), Upstream(b) \in Line[heap[m]],
             \/ b \notin requests /\ MapOf(b) = m
             \/ \E i \in 1..Len(stack[b]) : stack[b][i].map = m
             \/ \A c \in Actors : \A i \in 1..Len(stack[c]) : stack[c][i].map # m
      PROVE  Upstream(b) \in Line'[heap'[m]]
    <2>1. CASE heap'[m] = heap[m]
        BY <1>1, <1>2, <1>5, <2>1
    <2>2. CASE /\ stack[a] # <<>> /\ Top(a).wrapper = "otel"
               /\ Rewritten(Top(a).map, Top(a).span)
        <3>1. CASE Top(a).map = m
            <4>1. heap'[m] = Top(a).span /\ Top(a).span \in 1..Len(spans) /\ m # 0
                BY <1>1, <2>2, <3>1 DEF Rewritten
            <4>2. stack[a][n].map = m /\ n \in 1..n
                BY <2>2, <3>1, TopIs DEF Top
            <4>3. \/ b \notin requests /\ MapOf(b) = m
                  \/ \E i \in 1..Len(stack[b]) : stack[b][i].map = m
                BY <1>5, <4>2
            <4>4. Upstream(b) \in Line[Top(a).span]
                BY <2>2, <3>1, <4>1, <4>3, InjectLeads
            <4> QED BY <1>2, <4>1, <4>4
        <3>2. CASE Top(a).map # m
            BY <2>1, <2>2, <3>2 DEF Rewritten
        <3> QED BY <3>1, <3>2
    <2> QED BY <2>1, <2>2, HeapStep DEF Added
<1>6. ASSUME NEW m \in 1..N PROVE m \in Line'[heap'[m]]
    <2>1. m \in 1..Len(heap) /\ m \in Line[heap[m]] /\ heap[m] \in 1..Len(spans)
        BY <1>1 DEF LeadInv
    <2>2. CASE heap'[m] = heap[m]
        BY <1>2, <2>1, <2>2
    <2>3. CASE /\ stack[a] # <<>> /\ Top(a).wrapper = "otel" /\ Top(a).map = m
               /\ Rewritten(Top(a).map, Top(a).span)
        <3>1. Top(a).map = stack[a][n].map /\ n \in 1..n
            BY <2>3, TopIs DEF Top
        <3>2. a \notin requests
            <4>1. a \in requests => Private(a, Top(a).map)
                BY <3>1 DEF MapInv, Given
            <4> QED BY <1>1, <2>3, <4>1 DEF Private
        <3>3. Upstream(a) = m
            BY <2>3, <3>2, MapIs
        <3>4. m \in Line[Top(a).span]
            BY <2>3, <3>1, <3>3 DEF LeadInv, Top
        <3> QED BY <1>2, <2>3, <3>4 DEF Rewritten
    <2>4. Top(a).map # m /\ Rewritten(Top(a).map, Top(a).span) => heap'[m] = heap[m]
        BY <2>1 DEF Rewritten
    <2> QED BY <2>1, <2>2, <2>3, <2>4, HeapStep DEF Added
<1>7. ASSUME NEW b \in Actors, NEW i \in 1..Len(stack'[b]), stack'[b][i].wrapper = "otel"
      PROVE  /\ Upstream(b) \in Line'[stack'[b][i].span]
             /\ spans'[stack'[b][i].span].by = b
    <2>1. CASE Kept(b, i)
        <3>1. /\ Upstream(b) \in Line[stack[b][i].span] /\ spans[stack[b][i].span].by = b
              /\ stack[b][i].span \in 1..Len(spans) /\ stack'[b][i].span = stack[b][i].span
            BY <1>4, <1>7, <2>1 DEF Kept, LeadInv
        <3> QED BY <1>2, <3>1
    <2>2. CASE b = a /\ NewTop(a, i)
        <3>1. StartSpan(a) /\ stack'[b][i].span = Len(spans) + 1
            BY <1>7, <2>2 DEF NewTop
        <3>2. Upstream(a) \in Line[Parent(a)]
            BY MetadataLeads
        <3>3. /\ Line'[Len(spans) + 1] = {Len(spans) + 1} \cup Line[Parent(a)]
              /\ spans'[Len(spans) + 1].by = a
            BY <3>1, LinesStep
        <3> QED BY <2>2, <3>1, <3>2, <3>3
    <2>3. CASE b = a /\ NewMap(a, i)
        <3>1. /\ i = n /\ stack'[a][i].span = stack[a][n].span /\ stack[a] # <<>>
              /\ Top(a).wrapper = "otel"
            BY <2>3 DEF NewMap, Inject, ShapeInv, Rests
        <3>2. n \in 1..n /\ stack[a][n].wrapper = "otel"
            BY <3>1, TopIs DEF Top
        <3>3. /\ Upstream(b) \in Line[stack[a][n].span] /\ spans[stack[a][n].span].by = b
              /\ stack[a][n].span \in 1..Len(spans)
            BY <1>4, <2>3, <3>2 DEF LeadInv
        <3> QED BY <1>2, <2>3, <3>1, <3>3
    <2> QED BY <2>1, <2>2, <2>3, FramesBefore
<1>8. ASSUME NEW b \in Actors, NEW i \in 1..Len(stack'[b]), stack'[b][i].map # 0
      PROVE  Upstream(b) \in Line'[heap'[stack'[b][i].map]]
    <2>1. CASE \E k \in 1..Len(stack[b]) : stack[b][k].map = stack'[b][i].map
        <3>1. PICK k \in 1..Len(stack[b]) : stack[b][k].map = stack'[b][i].map
            BY <2>1
        <3>2. Upstream(b) \in Line[heap[stack[b][k].map]] /\ stack[b][k].map \in 1..Len(heap)
            BY <1>4, <1>8, <3>1 DEF LeadInv
        <3>3. Upstream(b) \in Line'[heap'[stack[b][k].map]]
            BY <1>5, <3>2
        <3> QED BY <3>1, <3>3
    <2>2. CASE stack'[b][i].map = MapOf(b)
        <3>1. b \notin requests /\ MapOf(b) \in 1..N /\ Upstream(b) = MapOf(b)
            BY <1>8, <2>2, MapIs
        <3> QED BY <1>6, <2>2, <3>1
    <2>3. CASE /\ b = a /\ Inject(a) /\ Top(a).map = 0 /\ stack[a] # <<>>
               /\ stack'[b][i].map = Len(heap) + 1 /\ Len(heap') = Len(heap) + 1
        <3>1. Top(a).wrapper = "otel" /\ n \in 1..n
            BY <2>3, TopIs DEF Inject, ShapeInv, Rests
        <3>2. heap' = Append(heap, Top(a).span) /\ Top(a).span \in 1..Len(spans) /\ UNCHANGED spans
            BY <1>4, <2>3, <3>1 DEF Inject, Top
        <3>3. heap'[Len(heap) + 1] = Top(a).span
            BY <3>2, AddDoes DEF Added
        <3>4. Upstream(a) \in Line[Top(a).span]
            BY <3>1 DEF LeadInv, Top
        <3> QED BY <1>2, <2>3, <3>2, <3>3, <3>4
    <2> QED BY <2>1, <2>2, <2>3, MapFrom
<1>9. ASSUME NEW x \in sent' PROVE Upstream(x.by) \in Line'[heap'[x.map]] /\ x.by \in Actors
    <2>0. x.by \in Actors
        <3>1. x \in Message
            BY DataStep
        <3> QED BY <3>1 DEF Message
    <2>1. CASE x \in sent
        <3>1. x.map \in 1..Len(heap)
              /\ \A c \in Actors : \A i \in 1..Len(stack[c]) : stack[c][i].map # x.map
            <4>1. Detached(x)
                BY <2>1 DEF MapInv
            <4>2. x.map \in N + 1..Len(heap) => x.map \in 1..Len(heap)
                BY <1>1
            <4> QED BY <4>1, <4>2 DEF Detached
        <3>2. Upstream(x.by) \in Line[heap[x.map]]
            BY <2>1 DEF LeadInv
        <3> QED BY <1>5, <2>0, <3>1, <3>2
    <2>2. CASE /\ x.by = a /\ x.map = Len(heap) + 1
               /\ Metadata(a) \in 1..Len(heap) /\ Added(heap[Metadata(a)])
        <3>1. heap'[x.map] = heap[Metadata(a)]
            BY <2>2 DEF Added
        <3>2. Upstream(a) \in Line[heap[Metadata(a)]]
            BY <1>1, <2>2, MetadataLeads
        <3> QED BY <1>1, <1>2, <2>0, <2>2, <3>1, <3>2
    <2> QED BY <2>1, <2>2, SentStep
<1>10. \A m \in 1..N : (m \in Line[heap[m]])'
    BY <1>6
<1>11. ASSUME NEW b \in Actors, NEW i \in 1..Len(stack'[b])
       PROVE  (/\ stack[b][i].wrapper = "otel" =>
                     Upstream(b) \in Line[stack[b][i].span] /\ spans[stack[b][i].span].by = b
               /\ stack[b][i].map # 0 => Upstream(b) \in Line[heap[stack[b][i].map]])'
    BY <1>3, <1>7, <1>8
<1>12. ASSUME NEW x \in sent' PROVE (Upstream(x.by) \in Line[heap[x.map]])'
    <2>1. Upstream(x.by) \in Line'[heap'[x.map]] /\ x.by \in Actors
        BY <1>9
    <2> QED BY <1>3, <2>1
<1> QED BY <1>10, <1>11, <1>12 DEF LeadInv

-----------------------------------------------------------------------------
(* The span a message names is the one of the call that sends it              *)

\* Unless groups of the channel broker share a map, nobody else writes to the map of
\* a call in progress.
LEMMA NobodyElseWrites ==
    ASSUME ShapeInv, MapInv, TurnInv, NEW a \in Actors, NEW b \in Actors, a # b, Alone(b),
           mode[b] \notin {"idle", "done"}, Inject(a), stack[a] # <<>>, Top(a).map # 0
    PROVE  /\ b \notin requests => MapOf(b) # Top(a).map
           /\ \A i \in 1..Len(stack[b]) : stack[b][i].map # Top(a).map
<1> DEFINE m == Top(a).map
<1>1. Len(stack[a]) \in 1..Len(stack[a]) /\ m = stack[a][Len(stack[a])].map
    BY TopIs DEF Top
<1>2. N \in Nat /\ a \in 1..N /\ b \in 1..N
    BY Bounds DEF Actors
<1>3. CASE b \in requests
    <2>1. \A i \in 1..Len(stack[b]) : stack[b][i].map # 0 => stack[b][i].map # m
        BY <1>1, <1>3 DEF MapInv, Given, Private
    <2> QED BY <1>3, <2>1
<1>4. CASE b \notin requests
    <2>1. \A i \in 1..Len(stack[b]) : stack[b][i].map = MapOf(b)
        BY <1>4 DEF MapInv, Given
    <2>2. MapOf(b) # m
        <3>1. CASE a \in requests
            <4>1. m > N
                BY <1>1, <3>1 DEF MapInv, Given, Private
            <4>2. MapOf(b) \in 0..N
                BY MetadataIs
            <4> QED BY <1>2, <4>1, <4>2
        <3>2. CASE a \notin requests /\ sharing = "none"
            BY <1>1, <1>4, <3>2 DEF MapInv, Given, MapOf
        <3>3. CASE a \notin requests /\ sharing # "none"
            <4>1. sharing = "sequential"
                BY <1>4, <3>3 DEF Alone, ShapeInv, TypeOK
            <4>2. mode[a] = "injecting"
                BY DEF Inject
            <4>3. a < b \/ b < a
                BY <1>2
            <4> QED BY <4>1, <4>2, <4>3 DEF TurnInv
        <3> QED BY <3>1, <3>2, <3>3
    <2> QED BY <2>1, <2>2
<1> QED BY <1>3, <1>4

\* So the map of a call in progress changes only by its own tracing wrapper.
LEMMA OthersKeepMap ==
    ASSUME ShapeInv, MapInv, TurnInv, NEW a \in Actors, NEW b \in Actors, ActorSteps(a), a # b,
           Alone(b), mode[b] \notin {"idle", "done"}, NEW m \in 1..Len(heap),
           \/ b \notin requests /\ MapOf(b) = m
           \/ \E i \in 1..Len(stack[b]) : stack[b][i].map = m
    PROVE  heap'[m] = heap[m]
<1>1. CASE /\ Inject(a) /\ stack[a] # <<>> /\ Rewritten(Top(a).map, Top(a).span)
    <2>1. Top(a).map # 0
        BY <1>1 DEF Rewritten
    <2>2. Top(a).map # m
        BY <1>1, <2>1, NobodyElseWrites
    <2> QED BY <1>1, <2>2 DEF Rewritten
<1>2. CASE UNCHANGED heap \/ \E s : Added(s)
    BY <1>2 DEF Added
<1> QED BY <1>1, <1>2, HeapStep

Names(b, i) == Alone(b) /\ mode[b] = "calling" /\ LastSpan(b, i) => heap[Top(b).map] = stack[b][i].span

LEMMA NamesOther ==
    ASSUME ShapeInv, MapInv, TurnInv, NameInv, NEW a \in Actors, NEW b \in Actors, ActorSteps(a),
           a # b, NEW i \in 1..Len(stack'[b])
    PROVE  Names(b, i)'
<1>1. /\ stack'[b] = stack[b] /\ mode'[b] = mode[b]
      /\ requests' = requests /\ sharing' = sharing /\ Handling(b)' = Handling(b)
    BY StackStep, Frame0 DEF Steady, config, Handling
<1>2. Alone(b)' = Alone(b) /\ LastSpan(b, i)' = LastSpan(b, i) /\ Top(b)' = Top(b)
    BY <1>1 DEF Alone, LastSpan, Top
<1> SUFFICES ASSUME Alone(b), mode[b] = "calling", LastSpan(b, i)
             PROVE  heap'[Top(b).map] = stack[b][i].span
    BY <1>1, <1>2 DEF Names
<1>3. i \in 1..Len(stack[b]) /\ heap[Top(b).map] = stack[b][i].span
    BY <1>1 DEF NameInv
<1>4. stack[b] # <<>>
    BY <1>3, StackFacts DEF ShapeInv, DataInv, Stacks
<1>5. Len(stack[b]) \in 1..Len(stack[b]) /\ Top(b) = stack[b][Len(stack[b])]
    BY <1>4, TopIs DEF Top
<1>6. Top(b).map \in 1..Len(heap)
    <2>1. stack[b][i].wrapper = "otel" /\ Injected(b, i)
        BY DEF LastSpan, Injected
    <2>2. stack[b][i].map # 0 /\ \A j \in i..Len(stack[b]) : stack[b][j].map = stack[b][i].map
        BY <1>3, <2>1 DEF MapInv, InheritsMap
    <2>3. Len(stack[b]) \in i..Len(stack[b])
        BY <1>3, <1>5
    <2>4. Top(b).map # 0 /\ Top(b).map \in 0..Len(heap) /\ Len(heap) \in Nat
        BY <1>5, <2>2, <2>3, FrameIs, SizesAre
    <2> QED BY <2>4
<1>7. heap'[Top(b).map] = heap[Top(b).map]
    BY <1>5, <1>6, OthersKeepMap
<1> QED BY <1>3, <1>7

LEMMA NamesSelf ==
    ASSUME ShapeInv, MapInv, NameInv, NEW a \in Actors, ActorSteps(a), NEW i \in 1..Len(stack'[a])
    PROVE  Names(a, i)'
<1> DEFINE n == Len(stack[a])
           h == Len(Handling(a))
<1>1. requests' = requests /\ sharing' = sharing /\ Handling(a)' = Handling(a)
    BY Frame0 DEF config, Handling
<1>2. Alone(a)' = Alone(a)
    BY <1>1 DEF Alone
<1>3. n \in Nat /\ h \in Nat \ {0} /\ i \in Nat \ {0} /\ Len(stack'[a]) \in Nat
    <2>1. n \in Nat /\ h \in Nat \ {0}
        BY StackFacts, CalleesAre DEF ShapeInv, DataInv, Stacks, TypeOK
    <2>2. Len(stack'[a]) \in Nat
        <3> DEFINE q == stack'[a]
        <3>1. q \in Seq(Frames)
            BY StackStep DEF Stacks
        <3> HIDE DEF q
        <3>2. Len(q) \in Nat
            BY <3>1, LenProperties
        <3> QED BY <3>2 DEF q
    <2> QED BY <2>1, <2>2
<1> SUFFICES ASSUME Alone(a), mode'[a] = "calling", i > h, stack'[a][i].wrapper = "otel",
                    \A j \in i + 1..Len(stack'[a]) : stack'[a][j].wrapper # "otel"
             PROVE  heap'[stack'[a][Len(stack'[a])].map] = stack'[a][i].span
    BY <1>1, <1>2 DEF Names, LastSpan, Top
<1>4. \/ Begin(a) \/ Inject(a) \/ TryAgain(a) \/ PublishEvent(a)
      \/ (Measure(a) \/ Try(a)) /\ mode[a] = "calling"
    <2>1. mode \in [Actors -> {"idle", "calling", "injecting", "running", "done"} \cup Results]
        BY DEF ShapeInv, TypeOK
    <2>2. ~End(a) /\ ~StartSpan(a) /\ ~HandlerReturns(a) /\ ~Publish(a)
        BY <2>1, SendingSteps DEF End, StartSpan, HandlerReturns, Goes, Results
    <2>3. ~OtelReturns(a) /\ ~PrometheusReturns(a)
        BY <2>1 DEF OtelReturns, PrometheusReturns, Results
    <2>4. ~Published(a) /\ ~Decode(a) /\ (RetryReturns(a) => mode[a] # "calling")
        BY <2>1 DEF RetryReturns, Published, Decode, Goes, Results
    <2>5. ~RetryReturns(a)
        BY <2>1, <2>4, SendingSteps DEF Goes, Results
    <2>6. Measure(a) \/ Try(a) => mode[a] = "calling"
        BY DEF Measure, Try, Calls
    <2> QED BY <2>2, <2>3, <2>4, <2>5, <2>6 DEF ActorSteps
<1>5. CASE Begin(a)
    <2>1. stack'[a] = stack[a] /\ n = 0
        BY <1>5, StackFacts DEF Begin, ShapeInv, DataInv, Stacks, Rests
    <2> QED BY <2>1
<1>6. CASE PublishEvent(a)
    <2>1. stack'[a] = stack[a] /\ stack[a] # <<>> /\ Top(a).wrapper = "handler"
        BY <1>6 DEF PublishEvent, ShapeInv, Rests
    <2>2. n = h
        BY <2>1, TopIs, FrameIs DEF Top
    <2> QED BY <1>3, <2>1, <2>2
<1>7. CASE TryAgain(a)
    <2>1. stack[a] # <<>> /\ Top(a).wrapper = "retry"
        BY <1>7 DEF TryAgain
    <2>2. n < h
        BY <2>1, TopIs, FrameIs DEF Top
    <2>3. Len(stack'[a]) = n
        BY <1>7, TouchingSteps DEF Touched
    <2> QED BY <1>3, <2>2, <2>3
<1>8. CASE Inject(a)
    <2>1. stack[a] # <<>> /\ Top(a).wrapper = "otel" /\ n \in 1..n /\ UNCHANGED spans
        BY <1>8, TopIs DEF Inject, ShapeInv, Rests
    <2>2. Top(a).span \in 1..Len(spans) /\ Top(a) \in Frames
        BY <2>1, FrameIs DEF Top
    <2>3. CASE Top(a).map \in 1..Len(heap) /\ heap' = [heap EXCEPT ![Top(a).map] = Top(a).span]
               /\ stack' = stack
        <3>1. i = n
            BY <1>3, <2>1, <2>3 DEF Top
        <3>2. heap'[Top(a).map] = Top(a).span
            BY <2>1, <2>2, <2>3, RewriteDoes DEF Rewritten
        <3> QED BY <2>3, <3>1, <3>2 DEF Top
    <2>4. CASE /\ heap' = Append(heap, Top(a).span)
               /\ Touched(a, [Top(a) EXCEPT !.map = Len(heap) + 1])
        <3> DEFINE f == [Top(a) EXCEPT !.map = Len(heap) + 1]
        <3>1. f.wrapper = "otel" /\ f.span = Top(a).span /\ f.map = Len(heap) + 1
            BY <2>1, <2>2 DEF Frames
        <3> HIDE DEF f
        <3>2. Len(stack'[a]) = n /\ stack'[a][n] = f
            BY <2>4 DEF Touched, f
        <3>3. i = n
            BY <1>3, <3>1, <3>2
        <3>4. heap'[Len(heap) + 1] = Top(a).span
            BY <2>1, <2>2, <2>4, AddDoes DEF Added
        <3> QED BY <3>1, <3>2, <3>3, <3>4
    <2> QED BY <1>8, <2>3, <2>4, TouchingSteps
<1>9. CASE (Measure(a) \/ Try(a)) /\ mode[a] = "calling"
    <2>1. PICK w \in {"prometheus", "retry"} : Pushed(a, Frame(w, 0, Metadata(a)))
        BY <1>9, PushingSteps
    <2>2. /\ Len(stack'[a]) = n + 1 /\ \A j \in 1..n : stack'[a][j] = stack[a][j]
          /\ stack'[a][n + 1].wrapper = w /\ stack'[a][n + 1].map = Metadata(a)
        BY <2>1 DEF Pushed, Frame
    <2>3. i \in 1..n
        <3>1. i # n + 1
            BY <2>2
        <3> QED BY <1>3, <2>2, <3>1
    <2>4. stack'[a][i] = stack[a][i]
        BY <2>2, <2>3
    <2>5. ASSUME NEW j \in i + 1..n PROVE stack[a][j].wrapper # "otel"
        <3>1. j \in 1..n /\ j \in i + 1..Len(stack'[a])
            BY <1>3, <2>2, <2>3
        <3>2. stack'[a][j] = stack[a][j]
            BY <2>2, <3>1
        <3>3. stack'[a][j].wrapper # "otel"
            BY <3>1
        <3> QED BY <3>2, <3>3
    <2>6. LastSpan(a, i)
        BY <2>4, <2>5 DEF LastSpan
    <2>7. heap[Top(a).map] = stack[a][i].span
        BY <1>9, <2>3, <2>6 DEF NameInv
    <2>8. heap' = heap
        BY <1>9 DEF Measure, Try, trace
    <2>9. Metadata(a) = Top(a).map
        <3>1. stack[a] # <<>>
            BY <1>3, <2>3, StackFacts DEF ShapeInv, DataInv, Stacks
        <3> QED BY <3>1 DEF Metadata
    <2> QED BY <2>2, <2>4, <2>7, <2>8, <2>9
<1> QED BY <1>4, <1>5, <1>6, <1>7, <1>8, <1>9

\* What is sent keeps naming the span it named.
LEMMA SentKeeps ==
    ASSUME ShapeInv, MapInv, NEW a \in Actors, ActorSteps(a), NEW x \in sent
    PROVE  heap'[x.map] = heap[x.map] /\ heap[x.map] \in 1..Len(spans)
<1>1. /\ x.map \in N + 1..Len(heap)
      /\ \A b \in Actors : \A i \in 1..Len(stack[b]) : stack[b][i].map # x.map
    BY DEF MapInv, Detached
<1>2. x.map \in 1..Len(heap)
    BY <1>1, SizesAre
<1>3. CASE stack[a] # <<>> /\ Rewritten(Top(a).map, Top(a).span)
    <2>1. Top(a).map # x.map
        BY <1>1, <1>3, TopIs DEF Top
    <2> QED BY <1>2, <1>3, <2>1, SizesAre DEF Rewritten, HeapOK
<1>4. CASE UNCHANGED heap \/ \E s : Added(s)
    BY <1>2, <1>4, SizesAre DEF Added, HeapOK
<1> QED BY <1>3, <1>4, HeapStep

\* A publish call that reaches the broker is inside every wrapper of the publisher, and
\* of the subscriber if it is a delivery.
LEMMA InsideAll ==
    ASSUME ShapeInv, NEW a \in Actors, mode[a] = "calling"
    PROVE  /\ Callee(a) = "publish" /\ Traced(pubs) =>
                 stack[a] # <<>> /\ \E i \in 1..Len(stack[a]) : LastSpan(a, i)
           /\ Callee(a) \in {"handler", "publish"} /\ Traced(subs) /\ a \notin requests =>
                 \E i \in 1..Len(stack[a]) : stack[a][i].wrapper = "otel" /\ Injected(a, i)
<1> DEFINE n == Len(stack[a])
           h == Len(Handling(a))
<1>1. /\ <<subs, pubs>> \in Chains /\ n \in Nat
      /\ \A i \in 1..n : stack[a][i].wrapper = Callees(a)[i]
    BY StackFacts DEF ShapeInv, TypeOK, DataInv, Stacks, Matches
<1>2. /\ h \in Nat \ {0} /\ Len(pubs) \in Nat /\ Len(Callees(a)) = h + Len(pubs) + 1
      /\ \A i \in 1..h : Callees(a)[i] = Handling(a)[i]
      /\ \A i \in 1..Len(pubs) : Callees(a)[h + i] = pubs[i]
    BY <1>1, CalleesAre
<1>3. ASSUME Callee(a) = "publish", Traced(pubs)
      PROVE  stack[a] # <<>> /\ \E i \in 1..n : LastSpan(a, i)
    <2>1. n = h + Len(pubs)
        <3>1. n + 1 = Len(Callees(a))
            BY <1>3, CalleeIs
        <3> DEFINE k == Len(pubs)  m == Len(Callees(a))
        <3>2. n \in Nat /\ h \in Nat /\ k \in Nat /\ m = h + k + 1 /\ n + 1 = m
            BY <1>1, <1>2, <3>1
        <3> HIDE DEF n, h, k, m
        <3>3. n = h + k
            BY <3>2
        <3> QED BY <3>3 DEF k
    <2>2. PICK p \in 1..Len(pubs) : pubs[p] = "otel"
        BY <1>3 DEF Traced
    <2>3. h + p \in 1..n /\ h + p > h
        BY <1>2, <2>1, <2>2
    <2>4. stack[a][h + p].wrapper = "otel"
        BY <1>1, <1>2, <2>2, <2>3
    <2> DEFINE own == {i \in 1..n : stack[a][i].wrapper = "otel"}
    <2>5. own \subseteq Nat /\ own # {} /\ \A i \in own : i <= n
        BY <1>1, <2>3, <2>4
    <2>6. PICK i \in own : \A j \in own : j <= i
        <3> HIDE DEF own
        <3> QED BY <1>1, <2>5, GreatestNumber
    <2>7. i > h
        <3>1. h + p <= i
            BY <2>3, <2>4, <2>6
        <3> QED BY <1>1, <1>2, <2>3, <2>6, <3>1
    <2>8. ASSUME NEW j \in i + 1..n PROVE stack[a][j].wrapper # "otel"
        <3>1. j \in 1..n /\ ~(j <= i)
            BY <1>1, <2>6
        <3> QED BY <2>6, <3>1
    <2>9. LastSpan(a, i)
        BY <2>6, <2>7, <2>8 DEF LastSpan
    <2>10. stack[a] # <<>>
        BY <1>1, <2>6, StackFacts DEF ShapeInv, DataInv, Stacks
    <2> QED BY <2>6, <2>9, <2>10
<1>4. ASSUME Callee(a) \in {"handler", "publish"}, Traced(subs), a \notin requests
      PROVE  \E i \in 1..n : stack[a][i].wrapper = "otel" /\ Injected(a, i)
    <2>1. n + 1 = h \/ n + 1 = Len(Callees(a))
        BY <1>4, CalleeIs
    <2>2. h = Len(subs) + 1 /\ \A i \in 1..Len(subs) : Handling(a)[i] = subs[i]
        BY <1>1, <1>4, HandlingIs
    <2>3. PICK i \in 1..Len(subs) : subs[i] = "otel"
        BY <1>4 DEF Traced
    <2>4. Len(subs) \in Nat
        <3>1. subs \in Seq({"otel", "prometheus", "retry"})
            BY <1>1, HandlingIs
        <3> QED BY <3>1, LenProperties
    <2>5. i \in 1..n /\ i \in 1..h
        BY <1>1, <1>2, <2>1, <2>2, <2>3, <2>4
    <2>6. stack[a][i].wrapper = "otel"
        BY <1>1, <1>2, <2>2, <2>3, <2>5
    <2> QED BY <2>5, <2>6 DEF Injected
<1> QED BY <1>3, <1>4

LEMMA NameStep ==
    ASSUME ShapeInv, MapInv, TurnInv, NameInv, NEW a \in Actors, ActorSteps(a)
    PROVE  NameInv'
<1>1. \A b \in Actors : \A i \in 1..Len(stack'[b]) : Names(b, i)'
    BY NamesOther, NamesSelf
<1>2. pubs' = pubs /\ sharing' = sharing /\ requests' = requests
    BY Frame0 DEF config
<1>3. ASSUME NEW x \in sent', Alone(x.by), x.kind = "event", Traced(pubs)
      PROVE  heap'[x.map] = x.span
    <2>1. CASE x \in sent
        BY <1>3, <2>1, SentKeeps DEF NameInv
    <2>2. CASE /\ x.by = a /\ x.map = Len(heap) + 1 /\ Added(heap[Metadata(a)])
               /\ x.span = CallSpan(a) /\ Publish(a)
        <3>1. mode[a] = "calling" /\ Callee(a) = "publish"
            BY <2>2 DEF Publish, Calls
        <3>2. stack[a] # <<>> /\ \E i \in 1..Len(stack[a]) : LastSpan(a, i)
            BY <1>3, <3>1, InsideAll
        <3>3. PICK i \in 1..Len(stack[a]) : LastSpan(a, i)
            BY <3>2
        <3>4. heap[Top(a).map] = stack[a][i].span
            BY <1>3, <2>2, <3>1, <3>3 DEF NameInv
        <3>5. CallSpan(a) = stack[a][i].span
            BY <3>3, CallSpanIs
        <3>6. Metadata(a) = Top(a).map
            BY <3>2 DEF Metadata
        <3>7. heap'[x.map] = heap[Metadata(a)]
            BY <2>2 DEF Added
        <3> QED BY <2>2, <3>4, <3>5, <3>6, <3>7
    <2> QED BY <1>3, <2>1, <2>2, SentStep
<1>4. Traced(pubs)' = Traced(pubs) /\ \A b : Alone(b)' = Alone(b)
    BY <1>2 DEF Traced, Alone
<1>5. ASSUME NEW x \in sent'
      PROVE  (Alone(x.by) /\ x.kind = "event" /\ Traced(pubs) => heap[x.map] = x.span)'
    BY <1>2, <1>3 DEF Traced, Alone
<1> QED BY <1>1, <1>5 DEF NameInv, Names

-----------------------------------------------------------------------------
(* A message leads to a span of the delivery it was sent from                 *)

\* What a mark of a delivery's map was, it stays, and so it does in the message sent.
LEMMA MarkStays ==
    ASSUME ShapeInv, NEW a \in Actors, ActorSteps(a), NEW b, NEW s \in 1..Len(spans),
           \E i \in Line[s] : spans[i].by = b
    PROVE  \E i \in Line'[s] : spans'[i].by = b
<1>1. PICK i \in Line[s] : spans[i].by = b
    OBVIOUS
<1>2. i \in 1..Len(spans)
    BY LineIs
<1> QED BY <1>1, <1>2, LinesStep

Marks(b) == b \notin requests /\ Alone(b) /\ mode[b] \notin {"idle", "done"} => Marked(b) \/ NotYet(b)

LEMMA MarksOther ==
    ASSUME ShapeInv, MapInv, TurnInv, Traced(subs), MarkInv, NEW a \in Actors, NEW b \in Actors,
           ActorSteps(a), a # b
    PROVE  Marks(b)'
<1>1. /\ stack'[b] = stack[b] /\ mode'[b] = mode[b]
      /\ requests' = requests /\ sharing' = sharing /\ MapOf(b)' = MapOf(b)
    BY StackStep, MapsStep, Frame0 DEF Steady, config
<1> SUFFICES ASSUME b \notin requests, Alone(b), mode[b] \notin {"idle", "done"}
             PROVE  Marked(b)' \/ NotYet(b)'
    BY <1>1 DEF Marks, Alone
<1>2. CASE NotYet(b)
    BY <1>1, <1>2 DEF NotYet, Injected
<1>3. CASE Marked(b)
    <2>1. MapOf(b) \in 1..Len(heap) /\ heap[MapOf(b)] \in 1..Len(spans)
        <3>1. MapOf(b) \in 1..N
            BY MetadataIs
        <3>2. MapOf(b) \in 1..Len(heap)
            BY <3>1, SizesAre
        <3> QED BY <3>2, SizesAre DEF HeapOK
    <2>2. heap'[MapOf(b)] = heap[MapOf(b)]
        BY <2>1, OthersKeepMap
    <2>3. \E i \in Line'[heap[MapOf(b)]] : spans'[i].by = b
        BY <1>3, <2>1, MarkStays DEF Marked
    <2>4. \E i \in Line'[heap'[MapOf(b)']] : spans'[i].by = b
        BY <1>1, <2>2, <2>3
    <2> QED BY <2>4 DEF Marked
<1> QED BY <1>2, <1>3 DEF MarkInv

LEMMA MarksSelf ==
    ASSUME ShapeInv, MapInv, LeadInv, Traced(subs), MarkInv, NEW a \in Actors, ActorSteps(a)
    PROVE  Marks(a)'
<1> DEFINE n == Len(stack[a])
           M == MapOf(a)
<1>1. requests' = requests /\ sharing' = sharing /\ MapOf(a)' = M
    BY MapsStep, Frame0 DEF config
<1> SUFFICES ASSUME a \notin requests, Alone(a), mode'[a] \notin {"idle", "done"}
             PROVE  Marked(a)' \/ NotYet(a)'
    BY <1>1 DEF Marks, Alone
<1>2. M \in 1..Len(heap) /\ heap[M] \in 1..Len(spans)
    <2>1. M \in 1..N
        BY MetadataIs
    <2>2. M \in 1..Len(heap)
        BY <2>1, SizesAre
    <2> QED BY <2>2, SizesAre DEF HeapOK
<1> HIDE DEF M
<1>3. ASSUME heap'[M] = heap[M], Marked(a) PROVE Marked(a)'
    <2>1. \E i \in Line'[heap[M]] : spans'[i].by = a
        BY <1>2, <1>3, MarkStays DEF Marked, M
    <2>2. \E i \in Line'[heap'[M]] : spans'[i].by = a
        BY <1>3, <2>1
    <2> QED BY <1>1, <2>2 DEF Marked
<1>4. CASE Inject(a)
    <2>1. stack[a] # <<>> /\ Top(a).wrapper = "otel" /\ n \in 1..n /\ UNCHANGED spans
        BY <1>4, TopIs DEF Inject, ShapeInv, Rests
    <2>2. Top(a).map = M
        BY <2>1 DEF MapInv, Given, Top, M
    <2>3. Top(a).span \in 1..Len(spans) /\ spans[Top(a).span].by = a
        BY <2>1, FrameIs DEF Top, LeadInv
    <2>4. heap' = [heap EXCEPT ![Top(a).map] = Top(a).span]
        <3>1. Top(a).map # 0
            BY <1>2, <2>2, SizesAre
        <3> QED BY <1>4, <3>1, TouchingSteps
    <2>5. heap'[M] = Top(a).span
        BY <1>2, <2>1, <2>2, <2>3, <2>4, RewriteDoes DEF Rewritten
    <2>6. Top(a).span \in Line[Top(a).span]
        BY <2>3, LineIs
    <2>7. \E i \in Line'[heap'[M]] : spans'[i].by = a
        <3>1. Line'[Top(a).span] = Line[Top(a).span]
            BY <2>3, LinesStep
        <3> QED BY <2>1, <2>3, <2>5, <2>6, <3>1
    <2> QED BY <1>1, <2>7 DEF Marked
<1>5. CASE ~Inject(a)
    <2>1. heap'[M] = heap[M]
        BY <1>2, <1>5, HeapStep DEF Added
    <2>2. CASE Marked(a)
        BY <1>3, <2>1, <2>2
    <2>3. CASE Begin(a)
        <3>1. stack'[a] = stack[a] /\ stack[a] = <<>> /\ mode'[a] = "calling"
            BY <2>3 DEF Begin, Goes, ShapeInv, TypeOK, Rests
        <3>2. Len(stack'[a]) = 0
            BY <3>1, StackFacts DEF ShapeInv, DataInv, Stacks
        <3> QED BY <3>1, <3>2 DEF NotYet
    <2>4. CASE ~Begin(a) /\ NotYet(a)
        <3>1. mode[a] \in {"calling", "injecting"}
            BY <2>4 DEF NotYet
        <3>2. mode[a] = "calling"
            BY <1>5, <3>1 DEF ActorSteps, Begin, End, StartSpan, OtelReturns, Measure,
                   PrometheusReturns, Try, TryAgain, RetryReturns, Decode, PublishEvent,
                   Publish, Published, HandlerReturns, Calls, Results
        <3>3. \A i \in 1..n : stack[a][i].wrapper # "otel"
            BY <2>4, <3>2 DEF NotYet, Injected
        <3>4. ~Decode(a) /\ ~Publish(a)
            <4>1. Decode(a) \/ Publish(a) => Callee(a) \in {"handler", "publish"}
                BY DEF Decode, Publish, Calls
            <4> QED BY <3>2, <3>3, <4>1, InsideAll
        <3>5. StartSpan(a) \/ Measure(a) \/ Try(a)
            BY <1>5, <2>4, <3>2, <3>4 DEF ActorSteps, End, OtelReturns, PrometheusReturns, TryAgain,
                   RetryReturns, PublishEvent, Published, HandlerReturns, Results
        <3>6. CASE StartSpan(a)
            <4>1. Pushed(a, Frame("otel", Len(spans) + 1, Metadata(a)))
                BY <3>6, PushingSteps
            <4>2. Len(stack'[a]) = n + 1 /\ n \in Nat /\ \A i \in 1..n : stack'[a][i] = stack[a][i]
                BY <4>1, StackFacts DEF Pushed, ShapeInv, DataInv, Stacks
            <4>3. mode'[a] = "injecting"
                BY <3>6 DEF StartSpan, Goes, ShapeInv, TypeOK
            <4>4. ASSUME NEW i \in 1..Len(stack'[a]), stack'[a][i].wrapper = "otel"
                  PROVE  ~Injected(a, i)'
                <5>1. i \in 1..n \/ i = n + 1
                    BY <4>2
                <5>2. i = n + 1
                    BY <3>3, <4>2, <4>4, <5>1
                <5> QED BY <4>2, <4>3, <5>2 DEF Injected
            <4> QED BY <4>3, <4>4 DEF NotYet
        <3>7. CASE Measure(a) \/ Try(a)
            <4>1. PICK w \in {"prometheus", "retry"} : Pushed(a, Frame(w, 0, Metadata(a)))
                BY <3>7, PushingSteps
            <4>2. /\ Len(stack'[a]) = n + 1 /\ n \in Nat
                  /\ \A i \in 1..n : stack'[a][i] = stack[a][i]
                  /\ stack'[a][n + 1].wrapper = w
                BY <4>1, StackFacts DEF Pushed, Frame, ShapeInv, DataInv, Stacks
            <4>3. mode'[a] = "calling"
                BY <3>2, <3>7 DEF Measure, Try
            <4>4. ASSUME NEW i \in 1..Len(stack'[a]) PROVE stack'[a][i].wrapper # "otel"
                <5>1. i \in 1..n \/ i = n + 1
                    BY <4>2
                <5> QED BY <3>3, <4>2, <5>1
            <4> QED BY <4>3, <4>4 DEF NotYet
        <3> QED BY <3>5, <3>6, <3>7
    <2>5. mode[a] \notin {"idle", "done"} \/ Begin(a)
        BY ActiveSteps
    <2> QED BY <2>2, <2>3, <2>4, <2>5 DEF MarkInv
<1> QED BY <1>4, <1>5

LEMMA MarkStep ==
    ASSUME ShapeInv, MapInv, LeadInv, TurnInv, MarkInv, NEW a \in Actors, ActorSteps(a)
    PROVE  MarkInv'
<1>1. subs' = subs /\ requests' = requests /\ sharing' = sharing
    BY Frame0 DEF config
<1> SUFFICES ASSUME Traced(subs) PROVE MarkInv'
    BY <1>1 DEF MarkInv, Traced
<1>2. \A b \in Actors : Marks(b)'
    BY MarksOther, MarksSelf
<1>3. ASSUME NEW x \in sent', Alone(x.by), x.by \notin requests
      PROVE  \E i \in Line'[heap'[x.map]] : spans'[i].by = x.by
    <2>1. CASE x \in sent
        <3>1. \E i \in Line[heap[x.map]] : spans[i].by = x.by
            BY <1>3, <2>1 DEF MarkInv
        <3>2. heap'[x.map] = heap[x.map] /\ heap[x.map] \in 1..Len(spans)
            BY <2>1, SentKeeps
        <3>3. \E i \in Line'[heap[x.map]] : spans'[i].by = x.by
            BY <3>1, <3>2, MarkStays
        <3> QED BY <3>2, <3>3
    <2>2. CASE /\ x.by = a /\ x.map = Len(heap) + 1
               /\ Metadata(a) \in 1..Len(heap) /\ Added(heap[Metadata(a)])
               /\ Publish(a) \/ RetryReturns(a)
        <3>1. Metadata(a) = MapOf(a)
            BY <1>3, <2>2, MapIs
        <3>2. Marked(a)
            <4>1. mode[a] \notin {"idle", "done"}
                BY <2>2 DEF Publish, RetryReturns, Calls, Results
            <4>2. ~NotYet(a)
                <5>1. CASE RetryReturns(a)
                    BY <5>1 DEF RetryReturns, NotYet, Results
                <5>2. CASE Publish(a)
                    <6>1. mode[a] = "calling" /\ Callee(a) = "publish"
                        BY <5>2 DEF Publish, Calls
                    <6>2. \E i \in 1..Len(stack[a]) : stack[a][i].wrapper = "otel" /\ Injected(a, i)
                        BY <1>3, <2>2, <6>1, InsideAll
                    <6> QED BY <6>2 DEF NotYet
                <5> QED BY <2>2, <5>1, <5>2
            <4> QED BY <1>3, <2>2, <4>1, <4>2 DEF MarkInv
        <3>3. heap[Metadata(a)] \in 1..Len(spans) /\ heap'[x.map] = heap[Metadata(a)]
            BY <2>2, SizesAre DEF HeapOK, Added
        <3>4. \E i \in Line'[heap[Metadata(a)]] : spans'[i].by = a
            BY <3>1, <3>2, <3>3, MarkStays DEF Marked
        <3> QED BY <2>2, <3>3, <3>4
    <2> QED BY <2>1, <2>2, SentStep
<1>4. ASSUME NEW x \in sent'
      PROVE  (Alone(x.by) /\ x.by \notin requests => \E i \in Line[heap[x.map]] : spans[i].by = x.by)'
    BY <1>1, <1>3 DEF Alone
<1>5. ASSUME NEW b \in Actors \ requests'
      PROVE  (Alone(b) /\ mode[b] \notin {"idle", "done"} => Marked(b) \/ NotYet(b))'
    BY <1>2 DEF Marks
<1> QED BY <1>4, <1>5 DEF MarkInv

-----------------------------------------------------------------------------
(* Every call is counted                                                      *)

LEMMA SideIs ==
    ASSUME ShapeInv, NEW a \in Actors, stack[a] # <<>>, Top(a).wrapper # "handler"
    PROVE  IF Len(stack[a]) > Len(Handling(a)) THEN Side(a) = "pub"
                                               ELSE Side(a) = "sub" /\ Len(stack[a]) < Len(Handling(a))
<1> DEFINE n == Len(stack[a])
           h == Len(Handling(a))
<1>1. n \in 1..n /\ n \in Nat \ {0} /\ h \in Nat \ {0}
    BY TopIs, CalleesAre DEF ShapeInv, TypeOK
<1>2. \A i \in 1..n : stack[a][i].wrapper = "handler" <=> i = h
    BY FrameIs
<1>3. n # h
    BY <1>1, <1>2 DEF Top
<1>4. CASE n > h
    <2>1. h \in 1..n
        BY <1>1, <1>4
    <2> QED BY <1>2, <1>4, <2>1 DEF Side
<1>5. CASE n < h
    <2>1. \A i \in 1..n : i # h
        BY <1>1, <1>5
    <2>2. ~(n > h)
        BY <1>1, <1>5
    <2> QED BY <1>2, <1>5, <2>1, <2>2 DEF Side
<1> QED BY <1>1, <1>3, <1>4, <1>5

LEMMA CountOf ==
    ASSUME ShapeInv, NEW a \in Actors, ActorSteps(a)
    PROVE  /\ ~PrometheusReturns(a) => counted' = counted
           /\ PrometheusReturns(a) => \A side \in {"sub", "pub"} : \A s \in Statuses :
                 counted'[side][s] = counted[side][s]
                     + IF side = Side(a) /\ s \in StatusOf(a) THEN 1 ELSE 0
<1>1. ~PrometheusReturns(a) => counted' = counted
    BY DEF ActorSteps, Begin, End, StartSpan, Inject, OtelReturns, Measure, Try, TryAgain,
           RetryReturns, Decode, PublishEvent, Publish, Published, HandlerReturns
<1>2. ASSUME PrometheusReturns(a), NEW side \in {"sub", "pub"}, NEW s \in Statuses
      PROVE  counted'[side][s] = counted[side][s]
                 + IF side = Side(a) /\ s \in StatusOf(a) THEN 1 ELSE 0
    <2>1. counted \in [{"sub", "pub"} -> [Statuses -> Nat]] /\ counted[side][s] \in Nat
        BY DEF ShapeInv, TypeOK
    <2> DEFINE g == [t \in Statuses |-> counted[Side(a)][t] + IF t \in StatusOf(a) THEN 1 ELSE 0]
    <2>2. counted' = [counted EXCEPT ![Side(a)] = g]
        BY <1>2 DEF PrometheusReturns
    <2>3. counted'[side] = IF side = Side(a) THEN g ELSE counted[side]
        <3> HIDE DEF g
        <3> QED BY <2>1, <2>2
    <2>4. g[s] = counted[Side(a)][s] + IF s \in StatusOf(a) THEN 1 ELSE 0
        OBVIOUS
    <2> HIDE DEF g
    <2>5. CASE side = Side(a)
        BY <2>3, <2>4, <2>5
    <2>6. CASE side # Side(a)
        BY <2>1, <2>3, <2>6
    <2> QED BY <2>5, <2>6
<1> QED BY <1>1, <1>2

\* Where the metrics wrapper is the outermost of a delivery, only its return empties a
\* stack of calls, and no other frame before the handler counts.
LEMMA OutermostIs ==
    ASSUME ShapeInv, ChainsMeasureOnce, Outermost(subs) = "prometheus",
           NEW a \in Actors, a \notin requests
    PROVE  /\ Len(Handling(a)) > 1
           /\ \A i \in 1..Len(stack[a]) :
                 /\ i = 1 => stack[a][i].wrapper = "prometheus"
                 /\ stack[a][i].wrapper = "prometheus" /\ i < Len(Handling(a)) => i = 1
<1> DEFINE n == Len(stack[a])
           h == Len(Handling(a))
<1>1. <<subs, pubs>> \in Chains
    BY DEF ShapeInv, TypeOK
<1>2. subs # <<>> /\ subs[1] = "prometheus" /\ subs \in Seq({"otel", "prometheus", "retry"})
    BY <1>1, HandlingIs DEF Outermost
<1>3. Len(subs) \in Nat \ {0}
    BY <1>2, EmptySeq
<1>4. h = Len(subs) + 1 /\ \A i \in 1..Len(subs) : Handling(a)[i] = subs[i]
    BY <1>1, HandlingIs
<1>5. \A i \in 1..h : Callees(a)[i] = Handling(a)[i]
    BY <1>1, CalleesAre
<1>6. ASSUME NEW i \in 1..n, i < h PROVE stack[a][i].wrapper = subs[i] /\ i \in 1..Len(subs)
    <2>1. i \in 1..Len(subs) /\ i \in 1..h
        BY <1>3, <1>4, <1>6
    <2> QED BY <1>4, <1>5, <2>1, FrameIs
<1>7. MeasuresOnce(subs)
    <2>1. <<subs, pubs>>[1] = subs
        OBVIOUS
    <2> QED BY <1>1, <2>1 DEF ChainsMeasureOnce
<1>8. 1 \in 1..Len(subs) /\ 1 < h
    BY <1>3, <1>4
<1> QED BY <1>2, <1>4, <1>6, <1>7, <1>8 DEF MeasuresOnce

Settles(a, r) == answer[a] = r \/ (mode[a] = r /\ stack[a] = <<>>)

LEMMA SettledStep ==
    ASSUME ShapeInv, ChainsMeasureOnce, Outermost(subs) = "prometheus",
           NEW a \in Actors, ActorSteps(a), a \notin requests, NEW r \in {"ok", "error"}
    PROVE  /\ PrometheusReturns(a) /\ Side(a) = "sub" =>
                 /\ ~Settles(a, r)
                 /\ Settles(a, r)' <=> mode[a] = r
           /\ ~(PrometheusReturns(a) /\ Side(a) = "sub") => (Settles(a, r)' <=> Settles(a, r))
<1> DEFINE n == Len(stack[a])
           h == Len(Handling(a))
<1>1. /\ n \in Nat /\ (stack[a] = <<>> <=> n = 0) /\ h \in Nat /\ h > 1
      /\ \A i \in 1..n : /\ i = 1 => stack[a][i].wrapper = "prometheus"
                         /\ stack[a][i].wrapper = "prometheus" /\ i < h => i = 1
    BY StackFacts, OutermostIs, CalleesAre DEF ShapeInv, DataInv, Stacks, TypeOK
<1>2. /\ mode \in [Actors -> {"idle", "calling", "injecting", "running", "done"} \cup Results]
      /\ answer \in [Actors -> Results \cup {"none"}]
    BY DEF ShapeInv, TypeOK
<1>3. mode[a] # "done" /\ answer[a] = "none"
    BY ActiveSteps DEF ShapeInv, Rests
<1>4. Settles(a, r) <=> mode[a] = r /\ stack[a] = <<>>
    BY <1>3 DEF Settles
<1>5. stack[a] # <<>> => n \in 1..n /\ n \in Nat \ {0}
    BY TopIs
<1>6. ASSUME Popped(a) PROVE Len(stack'[a]) = n - 1 /\ (stack'[a] = <<>> <=> n - 1 = 0)
    <2>1. Len(stack'[a]) = n - 1 /\ stack'[a] \in Seq(Frames)
        BY <1>6 DEF Popped, Stacks
    <2> DEFINE q == stack'[a]
    <2>2. Len(q) = n - 1 /\ q \in Seq(Frames)
        BY <2>1
    <2> HIDE DEF q
    <2>3. q = <<>> <=> Len(q) = 0
        BY <2>2, EmptySeq
    <2> QED BY <2>2, <2>3 DEF q
<1>7. CASE PrometheusReturns(a)
    <2>1. /\ stack[a] # <<>> /\ Top(a).wrapper = "prometheus"
          /\ mode' = mode /\ answer' = answer /\ Popped(a)
        BY <1>7, PoppingSteps DEF PrometheusReturns
    <2>2. Settles(a, r)' <=> mode[a] = r /\ stack'[a] = <<>>
        BY <1>3, <2>1 DEF Settles
    <2>3. ~Settles(a, r)
        BY <1>4, <2>1
    <2>4. CASE n > h
        <3>1. Side(a) = "pub"
            BY <2>1, <2>4, SideIs
        <3>2. n - 1 # 0
            <4>1. n \in Nat /\ h \in Nat /\ h > 1
                BY <1>1
            <4>2. n > h
                BY <2>4
            <4> HIDE DEF n, h
            <4> QED BY <4>1, <4>2
        <3>3. ~Settles(a, r)'
            BY <1>6, <2>1, <2>2, <3>2
        <3> QED BY <2>3, <3>1, <3>3
    <2>5. CASE ~(n > h)
        <3>1. Side(a) = "sub" /\ n < h
            BY <2>1, <2>5, SideIs
        <3>2. n = 1
            BY <1>1, <1>5, <2>1, <3>1 DEF Top
        <3>3. n - 1 = 0
            BY <3>2
        <3>4. stack'[a] = <<>>
            BY <1>6, <2>1, <3>3
        <3>5. Settles(a, r)' <=> mode[a] = r
            BY <2>2, <3>4
        <3> QED BY <1>7, <2>3, <3>1, <3>5
    <2> QED BY <2>4, <2>5
<1>8. ASSUME stack[a] # <<>>, Popped(a), Top(a).wrapper # "prometheus", answer' = answer
      PROVE  ~Settles(a, r) /\ ~Settles(a, r)'
    <2>1. n # 1
        BY <1>1, <1>5, <1>8 DEF Top
    <2>2. n - 1 # 0
        <3>1. n \in Nat \ {0}
            BY <1>5, <1>8
        <3> QED BY <2>1, <3>1
    <2> QED BY <1>3, <1>4, <1>6, <1>8, <2>2 DEF Settles
<1>9. CASE OtelReturns(a) \/ RetryReturns(a) \/ HandlerReturns(a)
    <2>1. /\ Popped(a) /\ answer' = answer /\ stack[a] # <<>>
          /\ Top(a).wrapper \in {"otel", "retry", "handler"}
        BY <1>9, PoppingSteps DEF OtelReturns, RetryReturns, HandlerReturns, ShapeInv, Rests
    <2>2. ~PrometheusReturns(a)
        BY <2>1 DEF PrometheusReturns
    <2>3. ~Settles(a, r) /\ ~Settles(a, r)'
        BY <1>8, <2>1
    <2> QED BY <2>2, <2>3
<1>10. CASE Published(a)
    <2>1. answer' = answer /\ stack[a] # <<>> /\ Top(a).wrapper = "handler"
        BY <1>10 DEF Published
    <2>2. ~PrometheusReturns(a)
        BY <2>1 DEF PrometheusReturns
    <2>3. CASE Popped(a)
        BY <1>8, <2>1, <2>2, <2>3
    <2>4. CASE UNCHANGED stack
        BY <1>3, <1>4, <2>1, <2>2, <2>4 DEF Settles
    <2> QED BY <1>10, <2>3, <2>4, PoppingSteps
<1>11. CASE End(a)
    <2>1. /\ mode[a] \in Results /\ stack[a] = <<>> /\ answer'[a] = mode[a] /\ mode'[a] = "done"
        BY <1>2, <1>11 DEF End, Goes
    <2>2. ~PrometheusReturns(a)
        BY <2>1 DEF PrometheusReturns
    <2> QED BY <1>4, <2>1, <2>2 DEF Settles
<1>12. ASSUME answer' = answer, mode[a] # r \/ stack[a] # <<>>, mode'[a] # r \/ stack'[a] # <<>>,
              ~PrometheusReturns(a)
       PROVE  (~Settles(a, r) /\ ~Settles(a, r)') /\ ~PrometheusReturns(a)
    BY <1>3, <1>12 DEF Settles
<1>13. CASE Begin(a) \/ StartSpan(a) \/ Inject(a) \/ Measure(a) \/ Try(a) \/ PublishEvent(a)
    <2>1. mode[a] \in {"idle", "calling", "injecting", "running"}
          /\ mode'[a] \in {"calling", "injecting"} /\ answer' = answer
        BY <1>2, <1>13 DEF Begin, StartSpan, Inject, Measure, Try, PublishEvent, Goes, Calls
    <2> QED BY <1>12, <2>1 DEF PrometheusReturns, Results
<1>14. CASE TryAgain(a)
    <2>1. stack[a] # <<>> /\ mode'[a] = "calling" /\ answer' = answer /\ ~PrometheusReturns(a)
        BY <1>2, <1>14 DEF TryAgain, Goes, PrometheusReturns
    <2> QED BY <1>12, <2>1
<1>15. CASE Publish(a)
    <2>1. mode[a] = "calling" /\ Callee(a) = "publish" /\ answer' = answer /\ stack' = stack
        BY <1>15 DEF Publish, Calls
    <2>2. n + 1 = Len(Callees(a)) /\ Len(Callees(a)) > h
        <3>1. <<subs, pubs>> \in Chains
            BY DEF ShapeInv, TypeOK
        <3>2. n + 1 = Len(Callees(a))
            BY <2>1, CalleeIs
        <3>3. h \in Nat /\ Len(pubs) \in Nat /\ Len(Callees(a)) = h + Len(pubs) + 1
            BY <3>1, CalleesAre
        <3> QED BY <3>2, <3>3
    <2>3. n # 0
        BY <1>1, <2>2
    <2> QED BY <1>1, <1>12, <2>1, <2>3 DEF PrometheusReturns, Results
<1>16. CASE Decode(a)
    <2>1. mode[a] = "calling" /\ Callee(a) = "handler" /\ answer' = answer
        BY <1>16 DEF Decode, Calls
    <2>2. n # 0
        <3>1. n + 1 = h
            BY <2>1, CalleeIs
        <3> QED BY <1>1, <3>1
    <2>3. CASE Goes(a, "running")
        <3>1. mode'[a] = "running"
            BY <1>2, <2>3 DEF Goes
        <3> QED BY <1>12, <2>1, <3>1 DEF PrometheusReturns, Results
    <2>4. CASE UNCHANGED stack
        BY <1>1, <1>12, <2>1, <2>2, <2>4 DEF PrometheusReturns, Results
    <2> QED BY <1>16, <2>3, <2>4, PushingSteps
<1> QED BY <1>7, <1>9, <1>10, <1>11, <1>13, <1>14, <1>15, <1>16 DEF ActorSteps

LEMMA SubCountStep ==
    ASSUME ShapeInv, ChainsMeasureOnce, SubCountInv, NEW a \in Actors, ActorSteps(a)
    PROVE  SubCountInv'
<1>1. subs' = subs /\ requests' = requests
    BY Frame0 DEF config
<1> SUFFICES ASSUME Outermost(subs) = "prometheus"
             PROVE  /\ counted'["sub"]["success"] = Cardinality(Settled("ok")')
                    /\ counted'["sub"]["error"] = Cardinality(Settled("error")')
    BY <1>1 DEF SubCountInv, Outermost
<1>2. \A b \in Actors : b # a =>
         stack'[b] = stack[b] /\ mode'[b] = mode[b] /\ answer'[b] = answer[b]
    BY StackStep, Frame0 DEF Steady
<1>3. ASSUME NEW r \in {"ok", "error"}
      PROVE  /\ IsFiniteSet(Settled(r)) /\ Cardinality(Settled(r)) \in Nat
             /\ \A b \in Actors \ requests : b \in Settled(r) <=> Settles(b, r)
             /\ \A b : b \in Settled(r)' <=> b \in Actors \ requests /\ Settles(b, r)'
             /\ \A b : b # a => (b \in Settled(r)' <=> b \in Settled(r))
    <2>1. IsFiniteSet(1..N)
        BY Bounds, FS_Interval
    <2>2. Settled(r) \in SUBSET (1..N)
        BY DEF Settled, Actors
    <2>3. IsFiniteSet(Settled(r)) /\ Cardinality(Settled(r)) \in Nat
        BY <2>1, <2>2, FS_Subset, FS_CardinalityType
    <2>4. \A b : b \in Settled(r) <=> b \in Actors \ requests /\ Settles(b, r)
        BY DEF Settled, Settles
    <2>5. \A b : b \in Settled(r)' <=> b \in Actors \ requests /\ Settles(b, r)'
        BY <1>1 DEF Settled, Settles
    <2>6. ASSUME NEW b, b # a PROVE b \in Settled(r)' <=> b \in Settled(r)
        <3>1. b \in Actors => (Settles(b, r)' <=> Settles(b, r))
            BY <1>2, <2>6 DEF Settles
        <3> QED BY <2>4, <2>5, <3>1
    <2> QED BY <2>3, <2>4, <2>5, <2>6
<1>4. /\ counted["sub"]["success"] = Cardinality(Settled("ok"))
      /\ counted["sub"]["error"] = Cardinality(Settled("error"))
    BY DEF SubCountInv
<1>5. CASE PrometheusReturns(a) /\ Side(a) = "sub"
    <2>1. stack[a] # <<>> /\ Top(a).wrapper = "prometheus"
        BY <1>5 DEF PrometheusReturns
    <2>2. a \notin requests
        <3>1. Len(stack[a]) < Len(Handling(a)) /\ Len(stack[a]) \in Nat \ {0}
            BY <1>5, <2>1, SideIs, TopIs
        <3>2. a \in requests => Len(Handling(a)) = 1
            BY HandlingIs DEF ShapeInv, TypeOK
        <3> DEFINE n == Len(stack[a])  h == Len(Handling(a))
        <3>3. n < h /\ n \in Nat \ {0} /\ (a \in requests => h = 1)
            BY <3>1, <3>2
        <3> HIDE DEF n, h
        <3> QED BY <3>3
    <2>3. ASSUME NEW r \in {"ok", "error"}
          PROVE  IF mode[a] = r THEN Cardinality(Settled(r)') = Cardinality(Settled(r)) + 1
                                ELSE Cardinality(Settled(r)') = Cardinality(Settled(r))
        <3>1. ~Settles(a, r) /\ (Settles(a, r)' <=> mode[a] = r)
            BY <1>5, <2>2, SettledStep
        <3>2. a \notin Settled(r) /\ (a \in Settled(r)' <=> mode[a] = r)
            BY <1>3, <2>2, <3>1
        <3>3. CASE mode[a] = r
            <4>1. Settled(r)' = Settled(r) \cup {a}
                BY <1>3, <3>2, <3>3
            <4> QED BY <1>3, <3>2, <3>3, <4>1, FS_AddElement
        <3>4. CASE mode[a] # r
            <4>1. Settled(r)' = Settled(r)
                BY <1>3, <3>2, <3>4
            <4> QED BY <3>4, <4>1
        <3> QED BY <3>3, <3>4
    <2>4. \A s \in Statuses :
             counted'["sub"][s] = counted["sub"][s] + IF s \in StatusOf(a) THEN 1 ELSE 0
        BY <1>5, CountOf
    <2>5. mode[a] \in Results
        BY <1>5 DEF PrometheusReturns
    <2>6. /\ "success" \in StatusOf(a) <=> mode[a] = "ok"
          /\ "error" \in StatusOf(a) <=> mode[a] = "error"
        BY <2>5 DEF StatusOf, Results
    <2>7. counted'["sub"]["success"] = Cardinality(Settled("ok")')
        <3>1. /\ counted'["sub"]["success"] = counted["sub"]["success"]
                                                + IF mode[a] = "ok" THEN 1 ELSE 0
              /\ Cardinality(Settled("ok")) \in Nat
            BY <1>3, <2>4, <2>6 DEF Statuses
        <3> QED BY <1>4, <2>3, <3>1
    <2>8. counted'["sub"]["error"] = Cardinality(Settled("error")')
        <3>1. /\ counted'["sub"]["error"] = counted["sub"]["error"]
                                                + IF mode[a] = "error" THEN 1 ELSE 0
              /\ Cardinality(Settled("error")) \in Nat
            BY <1>3, <2>4, <2>6 DEF Statuses
        <3> QED BY <1>4, <2>3, <3>1
    <2> QED BY <2>7, <2>8
<1>6. CASE ~(PrometheusReturns(a) /\ Side(a) = "sub")
    <2>1. ASSUME NEW r \in {"ok", "error"} PROVE Settled(r)' = Settled(r)
        <3>1. CASE a \in requests
            <4>1. a \notin Settled(r)
                BY <3>1 DEF Settled
            <4>2. a \notin Settled(r)'
                BY <1>3, <3>1
            <4> QED BY <1>3, <4>1, <4>2
        <3>2. CASE a \notin requests
            <4>1. Settles(a, r)' <=> Settles(a, r)
                BY <1>6, <3>2, SettledStep
            <4>2. a \in Settled(r)' <=> a \in Settled(r)
                BY <1>3, <3>2, <4>1
            <4> QED BY <1>3, <4>2
        <3> QED BY <3>1, <3>2
    <2>2. counted'["sub"]["success"] = counted["sub"]["success"]
          /\ counted'["sub"]["error"] = counted["sub"]["error"]
        <3>1. CASE ~PrometheusReturns(a)
            BY <3>1, CountOf
        <3>2. CASE PrometheusReturns(a) /\ Side(a) # "sub"
            <4>1. \A s \in Statuses : counted'["sub"][s] = counted["sub"][s] + 0
                BY <3>2, CountOf
            <4>2. counted["sub"]["success"] \in Nat /\ counted["sub"]["error"] \in Nat
                BY <1>3, <1>4
            <4> QED BY <4>1, <4>2 DEF Statuses
        <3> QED BY <1>6, <3>1, <3>2
    <2> QED BY <1>4, <2>1, <2>2
<1> QED BY <1>5, <1>6

\* Where the metrics wrapper is the outermost of a publish call, the frame after the
\* handler's is the only one of the call that counts.
LEMMA PublisherIs ==
    ASSUME ShapeInv, ChainsMeasureOnce, Outermost(pubs) = "prometheus", NEW a \in Actors
    PROVE  /\ Len(pubs) \in Nat \ {0}
           /\ \A i \in 1..Len(stack[a]) : i > Len(Handling(a)) =>
                 (stack[a][i].wrapper = "prometheus" <=> i = Len(Handling(a)) + 1)
<1> DEFINE n == Len(stack[a])
           h == Len(Handling(a))
<1>1. <<subs, pubs>> \in Chains
    BY DEF ShapeInv, TypeOK
<1>2. pubs # <<>> /\ pubs[1] = "prometheus" /\ pubs \in Seq({"otel", "prometheus"})
    BY <1>1, HandlingIs DEF Outermost
<1>3. Len(pubs) \in Nat \ {0}
    BY <1>2, EmptySeq
<1>4. /\ h \in Nat \ {0} /\ Len(Callees(a)) = h + Len(pubs) + 1
      /\ \A i \in 1..Len(pubs) : Callees(a)[h + i] = pubs[i]
    BY <1>1, CalleesAre
<1>5. MeasuresOnce(pubs)
    <2>1. <<subs, pubs>>[2] = pubs
        OBVIOUS
    <2> QED BY <1>1, <2>1 DEF ChainsMeasureOnce
<1>6. ASSUME NEW i \in 1..n, i > h
      PROVE  stack[a][i].wrapper = "prometheus" <=> i = h + 1
    <2>1. n \in Nat /\ n < Len(Callees(a)) /\ stack[a][i].wrapper = Callees(a)[i]
        BY StackFacts DEF ShapeInv, DataInv, Stacks, Matches
    <2>2. i - h \in 1..Len(pubs) /\ h + (i - h) = i
        BY <1>3, <1>4, <1>6, <2>1
    <2>3. stack[a][i].wrapper = pubs[i - h]
        BY <1>4, <2>1, <2>2
    <2>4. pubs[i - h] = "prometheus" <=> i - h = 1
        <3>1. 1 \in 1..Len(pubs)
            BY <1>3
        <3> QED BY <1>2, <1>5, <2>2, <3>1 DEF MeasuresOnce
    <2>5. i - h = 1 <=> i = h + 1
        BY <1>4
    <2> QED BY <2>3, <2>4, <2>5
<1> QED BY <1>3, <1>6

Owes(a, r) == mode[a] = r /\ Len(stack[a]) > Len(Handling(a))

\* Who owes a count changes when the broker takes a message and when it is counted.
LEMMA OwesStep ==
    ASSUME ShapeInv, ChainsMeasureOnce, Outermost(pubs) = "prometheus",
           NEW a \in Actors, ActorSteps(a), NEW r \in {"ok", "error"}
    PROVE  /\ Publish(a) => ~Owes(a, r) /\ (Owes(a, r)' <=> mode'[a] = r)
           /\ PrometheusReturns(a) /\ Side(a) = "pub" => (Owes(a, r) <=> mode[a] = r) /\ ~Owes(a, r)'
           /\ ~Publish(a) /\ ~(PrometheusReturns(a) /\ Side(a) = "pub") => (Owes(a, r)' <=> Owes(a, r))
<1> DEFINE n == Len(stack[a])
           h == Len(Handling(a))
<1>1. n \in Nat /\ h \in Nat \ {0} /\ (stack[a] # <<>> => n \in 1..n /\ n \in Nat \ {0})
    BY StackFacts, TopIs, CalleesAre DEF ShapeInv, DataInv, Stacks, TypeOK
<1>2. mode \in [Actors -> {"idle", "calling", "injecting", "running", "done"} \cup Results]
    BY DEF ShapeInv, TypeOK
<1>3. Handling(a)' = Handling(a)
    BY Frame0 DEF config, Handling
<1>4. Owes(a, r)' <=> mode'[a] = r /\ Len(stack'[a]) > h
    BY <1>3 DEF Owes
<1>5. Owes(a, r) <=> mode[a] = r /\ n > h
    BY DEF Owes
<1>6. Popped(a) => Len(stack'[a]) = n - 1
    BY DEF Popped
<1>7. ASSUME mode[a] # r \/ ~(n > h), mode'[a] # r \/ ~(Len(stack'[a]) > h)
      PROVE  ~Owes(a, r) /\ ~Owes(a, r)'
    BY <1>4, <1>5, <1>7
<1>8. CASE Publish(a)
    <2>1. mode[a] = "calling" /\ Callee(a) = "publish" /\ stack' = stack
        BY <1>8 DEF Publish, Calls
    <2>2. n > h
        <3>1. n + 1 = Len(Callees(a))
            BY <2>1, CalleeIs
        <3>2. Len(Callees(a)) = h + Len(pubs) + 1 /\ Len(pubs) \in Nat \ {0}
            BY CalleesAre, PublisherIs DEF ShapeInv, TypeOK
        <3> QED BY <1>1, <3>1, <3>2
    <2>3. ~PrometheusReturns(a)
        BY <2>1 DEF PrometheusReturns, Results
    <2>4. ~Owes(a, r) /\ (Owes(a, r)' <=> mode'[a] = r)
        BY <1>4, <1>5, <2>1, <2>2
    <2> QED BY <1>8, <2>3, <2>4
<1>9. CASE PrometheusReturns(a)
    <2>1. stack[a] # <<>> /\ Top(a).wrapper = "prometheus" /\ mode' = mode /\ Popped(a)
        BY <1>9, PoppingSteps DEF PrometheusReturns
    <2>2. ~Publish(a)
        BY <1>9 DEF PrometheusReturns, Publish, Calls, Results
    <2>3. CASE n > h
        <3>1. Side(a) = "pub"
            BY <2>1, <2>3, SideIs
        <3>2. n = h + 1
            BY <1>1, <2>1, <2>3, PublisherIs DEF Top
        <3>3. ~(Len(stack'[a]) > h)
            BY <1>1, <1>6, <2>1, <3>2
        <3>4. (Owes(a, r) <=> mode[a] = r) /\ ~Owes(a, r)'
            BY <1>4, <1>5, <2>3, <3>3
        <3> QED BY <1>9, <2>2, <3>1, <3>4
    <2>4. CASE ~(n > h)
        <3>1. Side(a) = "sub"
            BY <2>1, <2>4, SideIs
        <3>2. ~(Len(stack'[a]) > h)
            BY <1>1, <1>6, <2>1, <2>4
        <3>3. ~Owes(a, r) /\ ~Owes(a, r)'
            BY <1>7, <2>4, <3>2
        <3> QED BY <2>2, <3>1, <3>3
    <2> QED BY <2>3, <2>4
<1>10. CASE ~PrometheusReturns(a) /\ ~Publish(a)
    <2> SUFFICES Owes(a, r)' <=> Owes(a, r)
        BY <1>10
    <2>1. CASE OtelReturns(a)
        <3>1. stack[a] # <<>> /\ Top(a).wrapper = "otel" /\ mode' = mode /\ Popped(a)
            BY <2>1, PoppingSteps DEF OtelReturns
        <3>2. n > h <=> n - 1 > h
            <4>1. n = h + 1 => Top(a).wrapper = "prometheus"
                <5>1. n = h + 1 => n > h
                    BY <1>1
                <5> QED BY <1>1, <3>1, <5>1, PublisherIs DEF Top
            <4>2. n # h + 1
                BY <3>1, <4>1
            <4> QED BY <1>1, <4>2
        <3> QED BY <1>4, <1>5, <1>6, <3>1, <3>2
    <2>2. CASE RetryReturns(a)
        <3>1. stack[a] # <<>> /\ Top(a).wrapper = "retry" /\ Popped(a)
            BY <2>2, PoppingSteps DEF RetryReturns
        <3>2. n < h
            BY <3>1, TopIs, FrameIs DEF Top
        <3>3. ~(n > h) /\ ~(n - 1 > h)
            BY <1>1, <3>2
        <3> QED BY <1>6, <1>7, <3>1, <3>3
    <2>3. ASSUME stack[a] # <<>>, Top(a).wrapper = "handler" PROVE n = h
        BY <2>3, TopIs, FrameIs DEF Top
    <2>4. CASE HandlerReturns(a)
        <3>1. stack[a] # <<>> /\ Top(a).wrapper = "handler" /\ Popped(a)
            BY <2>4, PoppingSteps DEF HandlerReturns, ShapeInv, Rests
        <3>2. ~(n > h) /\ ~(n - 1 > h)
            BY <1>1, <2>3, <3>1
        <3> QED BY <1>6, <1>7, <3>1, <3>2
    <2>5. CASE Published(a)
        <3>1. stack[a] # <<>> /\ Top(a).wrapper = "handler"
            BY <2>5 DEF Published
        <3>2. ~(n > h) /\ ~(n - 1 > h)
            BY <1>1, <2>3, <3>1
        <3>3. Popped(a) \/ stack' = stack
            BY <2>5, PoppingSteps
        <3> QED BY <1>6, <1>7, <3>2, <3>3
    <2>6. CASE End(a)
        <3>1. stack' = stack /\ n = 0
            BY <2>6, StackFacts DEF End, ShapeInv, DataInv, Stacks
        <3>2. ~(n > h)
            BY <1>1, <3>1
        <3> QED BY <1>7, <3>1, <3>2
    <2>7. CASE Begin(a) \/ StartSpan(a) \/ Inject(a) \/ Measure(a) \/ Try(a) \/ PublishEvent(a)
        <3>1. mode[a] # r /\ mode'[a] # r
            BY <1>2, <2>7 DEF Begin, StartSpan, Inject, Measure, Try, PublishEvent, Goes, Calls
        <3> QED BY <1>7, <3>1
    <2>8. CASE TryAgain(a)
        <3>1. stack[a] # <<>> /\ Top(a).wrapper = "retry"
            BY <2>8 DEF TryAgain
        <3>2. n < h
            BY <3>1, TopIs, FrameIs DEF Top
        <3>3. ~(n > h)
            BY <1>1, <3>2
        <3>4. Len(stack'[a]) = n
            BY <2>8, TouchingSteps DEF Touched
        <3> QED BY <1>7, <3>3, <3>4
    <2>9. CASE Decode(a)
        <3>1. mode[a] = "calling" /\ Callee(a) = "handler"
            BY <2>9 DEF Decode, Calls
        <3>2. CASE Goes(a, "running")
            <4>1. mode'[a] # r
                BY <1>2, <3>2 DEF Goes
            <4> QED BY <1>7, <3>1, <4>1
        <3>3. CASE UNCHANGED stack
            <4>1. ~(n > h)
                <5>1. n + 1 = h
                    BY <3>1, CalleeIs
                <5> QED BY <1>1, <5>1
            <4> QED BY <1>7, <3>3, <4>1
        <3> QED BY <2>9, <3>2, <3>3, PushingSteps
    <2> QED BY <1>10, <2>1, <2>2, <2>4, <2>5, <2>6, <2>7, <2>8, <2>9 DEF ActorSteps
<1> QED BY <1>8, <1>9, <1>10

StatusFor(r) == IF r = "ok" THEN "success" ELSE "error"

LEMMA SumsAreFinite ==
    ASSUME ShapeInv, NEW r
    PROVE  /\ IsFiniteSet(Uncounted(r)) /\ Cardinality(Uncounted(r)) \in Nat
           /\ Cardinality(Uncounted(r)') \in Nat
           /\ IsFiniteSet(Events(r)) /\ Cardinality(Events(r)) \in Nat
<1>1. IsFiniteSet(1..N)
    BY Bounds, FS_Interval
<1>2. Uncounted(r) \in SUBSET (1..N) /\ Uncounted(r)' \in SUBSET (1..N)
    BY DEF Uncounted, Actors
<1>3. /\ IsFiniteSet(Uncounted(r)) /\ Cardinality(Uncounted(r)) \in Nat
      /\ Cardinality(Uncounted(r)') \in Nat
    BY <1>1, <1>2, FS_Subset, FS_CardinalityType
<1>4. IsFiniteSet(sent) /\ Events(r) \in SUBSET sent
    BY DEF ShapeInv, DataInv, Events
<1>5. IsFiniteSet(Events(r)) /\ Cardinality(Events(r)) \in Nat
    BY <1>4, FS_Subset, FS_CardinalityType
<1> QED BY <1>3, <1>5

\* Only a publish call adds an event, with the answer it got; a message taken was answered.
LEMMA EventsMove ==
    ASSUME ShapeInv, MapInv, Traced(pubs), NEW a \in Actors, ActorSteps(a), NEW r \in Results
    PROVE  /\ ~Publish(a) => Events(r)' = Events(r)
           /\ Publish(a) =>
                 \/ mode'[a] = r /\ \E x : x \notin Events(r) /\ Events(r)' = Events(r) \cup {x}
                 \/ (mode'[a] = r => r # "ok") /\ Events(r)' = Events(r)
<1>1. CASE RetryReturns(a)
    <2>1. UNCHANGED spans /\ ((\E q \in Results : Send(a, "dead", q)) \/ UNCHANGED <<heap, sent>>)
        BY <1>1, SendingSteps
    <2>2. ASSUME \E q \in Results : Send(a, "dead", q) PROVE Events(r)' = Events(r)
        <3>1. PICK q \in Results : Send(a, "dead", q)
            BY <2>2
        <3> DEFINE x == [by |-> a, kind |-> "dead", span |-> CallSpan(a), answer |-> q, map |-> Len(heap) + 1]
        <3>2. sent' = sent \cup {x} \/ sent' = sent
            BY <2>1, <3>1, SendDoes
        <3>3. x.kind # "event"
            OBVIOUS
        <3> HIDE DEF x
        <3> QED BY <3>2, <3>3 DEF Events
    <2>3. Events(r)' = Events(r)
        BY <2>1, <2>2 DEF Events
    <2>4. ~Publish(a)
        BY <1>1 DEF RetryReturns, Publish, Calls, Results
    <2> QED BY <2>3, <2>4
<1>2. CASE ~RetryReturns(a) /\ ~Publish(a)
    <2>1. sent' = sent
        BY <1>2 DEF ActorSteps, Begin, End, StartSpan, Inject, OtelReturns, Measure,
               PrometheusReturns, Try, TryAgain, Decode, PublishEvent, Published, HandlerReturns
    <2> QED BY <1>2, <2>1 DEF Events
<1>3. CASE Publish(a)
    <2>1. mode[a] = "calling" /\ Callee(a) = "publish" /\ UNCHANGED spans
        BY <1>3 DEF Publish, Calls
    <2>2. PICK q \in Results :
             /\ Goes(a, q)
             /\ Send(a, "event", q) \/ (q # "ok" /\ UNCHANGED <<heap, sent>>)
        BY <1>3, BrokerDoes DEF Publish
    <2>3. mode'[a] = q
        BY <2>2 DEF Goes, ShapeInv, TypeOK
    <2>4. CASE Send(a, "event", q)
        <3>1. Metadata(a) # 0
            <4>1. stack[a] # <<>> /\ \E i \in 1..Len(stack[a]) : LastSpan(a, i)
                BY <2>1, InsideAll
            <4>2. PICK i \in 1..Len(stack[a]) : LastSpan(a, i)
                BY <4>1
            <4>3. stack[a][i].wrapper = "otel" /\ Injected(a, i)
                BY <2>1, <4>2 DEF LastSpan, Injected
            <4>4. stack[a][i].map # 0 /\ \A j \in i..Len(stack[a]) : stack[a][j].map = stack[a][i].map
                BY <4>3 DEF MapInv, InheritsMap
            <4>5. Len(stack[a]) \in i..Len(stack[a])
                BY <4>1, TopIs
            <4> QED BY <4>1, <4>4, <4>5 DEF Metadata, Top
        <3> DEFINE x == [by |-> a, kind |-> "event", span |-> CallSpan(a), answer |-> q,
                         map |-> Len(heap) + 1]
        <3>2. sent' = sent \cup {x}
            BY <2>1, <2>4, <3>1, SendDoes
        <3>3. x.kind = "event" /\ x.answer = q /\ x.map = Len(heap) + 1
            OBVIOUS
        <3> HIDE DEF x
        <3>4. x \notin sent
            <4>1. \A y \in sent : y.map \in N + 1..Len(heap)
                BY DEF MapInv, Detached
            <4> QED BY <3>3, <4>1, SizesAre
        <3>5. CASE q = r
            <4>1. Events(r)' = Events(r) \cup {x} /\ x \notin Events(r)
                BY <3>2, <3>3, <3>4, <3>5 DEF Events
            <4> QED BY <1>3, <2>3, <3>5, <4>1
        <3>6. CASE q # r
            <4>1. Events(r)' = Events(r)
                BY <3>2, <3>3, <3>6 DEF Events
            <4> QED BY <1>3, <2>3, <3>6, <4>1
        <3> QED BY <3>5, <3>6
    <2>5. CASE q # "ok" /\ UNCHANGED <<heap, sent>>
        <3>1. Events(r)' = Events(r)
            BY <2>5 DEF Events
        <3> QED BY <1>3, <2>3, <2>5, <3>1
    <2> QED BY <2>2, <2>4, <2>5
<1> QED BY <1>1, <1>2, <1>3

\* What is counted and what is owed grow together with the events taken; an error may
\* also be counted of a call whose message was not taken.
LEMMA PubCountMoves ==
    ASSUME ShapeInv, MapInv, ChainsMeasureOnce, Outermost(pubs) = "prometheus", Traced(pubs),
           NEW a \in Actors, ActorSteps(a), NEW r \in {"ok", "error"},
           NEW c, c = counted["pub"][StatusFor(r)],
           NEW d, d = counted'["pub"][StatusFor(r)]
    PROVE  /\ c \in Nat /\ d \in Nat /\ Cardinality(Uncounted(r)') \in Nat
           /\ \/ /\ d + Cardinality(Uncounted(r)') = c + Cardinality(Uncounted(r))
                 /\ Cardinality(Events(r)') = Cardinality(Events(r))
              \/ /\ d + Cardinality(Uncounted(r)') = c + Cardinality(Uncounted(r)) + 1
                 /\ Cardinality(Events(r)') = Cardinality(Events(r)) + 1
              \/ /\ r = "error"
                 /\ d + Cardinality(Uncounted(r)') = c + Cardinality(Uncounted(r)) + 1
                 /\ Cardinality(Events(r)') = Cardinality(Events(r))
<1>1. StatusFor(r) \in Statuses /\ r \in Results
    BY DEF StatusFor, Statuses, Results
<1>2. c \in Nat /\ d \in Nat
    <2>1. counted \in [{"sub", "pub"} -> [Statuses -> Nat]]
        BY DEF ShapeInv, TypeOK
    <2>2. counted' \in [{"sub", "pub"} -> [Statuses -> Nat]]
        BY CountsStep
    <2> QED BY <1>1, <2>1, <2>2
<1>3. /\ IsFiniteSet(Uncounted(r)) /\ Cardinality(Uncounted(r)) \in Nat
      /\ IsFiniteSet(Events(r)) /\ Cardinality(Events(r)) \in Nat
      /\ Cardinality(Uncounted(r)') \in Nat
    BY SumsAreFinite
<1>4. /\ \A b : b \in Uncounted(r) <=> b \in Actors /\ Owes(b, r)
      /\ \A b : b \in Uncounted(r)' <=> b \in Actors /\ Owes(b, r)'
      /\ \A b \in Actors : b # a => (Owes(b, r)' <=> Owes(b, r))
    <2>1. \A b \in Actors : b # a => stack'[b] = stack[b] /\ mode'[b] = mode[b]
        BY StackStep, Frame0 DEF Steady
    <2>2. \A b \in Actors : Handling(b)' = Handling(b)
        BY Frame0 DEF config, Handling
    <2>3. \A b \in Actors : b # a => (Owes(b, r)' <=> Owes(b, r))
        BY <2>1, <2>2 DEF Owes
    <2>4. \A b : b \in Uncounted(r) <=> b \in Actors /\ Owes(b, r)
        BY DEF Uncounted, Owes
    <2>5. \A b : b \in Uncounted(r)' <=> b \in Actors /\ Owes(b, r)'
        BY DEF Uncounted, Owes
    <2> QED BY <2>3, <2>4, <2>5
<1>5. ASSUME Owes(a, r)' <=> Owes(a, r) PROVE Uncounted(r)' = Uncounted(r)
    BY <1>4, <1>5
<1>6. ASSUME ~PrometheusReturns(a) \/ Side(a) # "pub" PROVE d = c
    <2>1. CASE ~PrometheusReturns(a)
        BY <2>1, CountOf
    <2>2. CASE PrometheusReturns(a) /\ Side(a) # "pub"
        <3>1. d = c + 0
            BY <1>1, <2>2, CountOf
        <3> QED BY <1>2, <3>1
    <2> QED BY <1>6, <2>1, <2>2
<1>7. CASE Publish(a)
    <2>1. ~Owes(a, r) /\ (Owes(a, r)' <=> mode'[a] = r)
        BY <1>7, OwesStep
    <2>2. d = c
        BY <1>6, <1>7 DEF Publish, Calls, PrometheusReturns, Results
    <2>3. CASE mode'[a] = r
        <3>1. Uncounted(r)' = Uncounted(r) \cup {a} /\ a \notin Uncounted(r)
            BY <1>4, <2>1, <2>3
        <3>2. Cardinality(Uncounted(r)') = Cardinality(Uncounted(r)) + 1
            BY <1>3, <3>1, FS_AddElement
        <3>3. \/ Cardinality(Events(r)') = Cardinality(Events(r)) + 1
              \/ r = "error" /\ Cardinality(Events(r)') = Cardinality(Events(r))
            <4>1. CASE \E x : x \notin Events(r) /\ Events(r)' = Events(r) \cup {x}
                BY <1>3, <4>1, FS_AddElement
            <4>2. CASE r # "ok" /\ Events(r)' = Events(r)
                BY <4>2
            <4> QED BY <1>1, <1>7, <2>3, <4>1, <4>2, EventsMove
        <3> QED BY <1>2, <1>3, <2>2, <3>2, <3>3
    <2>4. CASE mode'[a] # r
        <3>1. Uncounted(r)' = Uncounted(r)
            BY <1>5, <2>1, <2>4
        <3>2. Events(r)' = Events(r)
            BY <1>1, <1>7, <2>4, EventsMove
        <3> QED BY <1>2, <1>3, <2>2, <3>1, <3>2
    <2> QED BY <2>3, <2>4
<1>8. CASE PrometheusReturns(a) /\ Side(a) = "pub"
    <2>1. ~Publish(a) /\ mode[a] \in Results
        BY <1>8 DEF PrometheusReturns, Publish, Calls, Results
    <2>2. (Owes(a, r) <=> mode[a] = r) /\ ~Owes(a, r)'
        BY <1>8, OwesStep
    <2>3. Events(r)' = Events(r)
        BY <1>1, <2>1, EventsMove
    <2>4. d = c + IF mode[a] = r THEN 1 ELSE 0
        <3>1. d = c + IF StatusFor(r) \in StatusOf(a) THEN 1 ELSE 0
            BY <1>1, <1>8, CountOf
        <3>2. StatusFor(r) \in StatusOf(a) <=> mode[a] = r
            BY <2>1 DEF StatusFor, StatusOf, Results
        <3> QED BY <3>1, <3>2
    <2>5. CASE mode[a] = r
        <3>1. a \in Uncounted(r) /\ Uncounted(r)' = Uncounted(r) \ {a}
            BY <1>4, <2>2, <2>5
        <3>2. Cardinality(Uncounted(r)') = Cardinality(Uncounted(r)) - 1
            BY <1>3, <3>1, FS_RemoveElement
        <3>3. d = c + 1
            BY <2>4, <2>5
        <3> QED BY <1>2, <1>3, <2>3, <3>2, <3>3
    <2>6. CASE mode[a] # r
        <3>1. Uncounted(r)' = Uncounted(r)
            BY <1>5, <2>2, <2>6
        <3>2. d = c
            BY <1>2, <2>4, <2>6
        <3> QED BY <1>2, <1>3, <2>3, <3>1, <3>2
    <2> QED BY <2>5, <2>6
<1>9. CASE ~Publish(a) /\ ~(PrometheusReturns(a) /\ Side(a) = "pub")
    <2>1. Uncounted(r)' = Uncounted(r)
        BY <1>5, <1>9, OwesStep
    <2>2. Events(r)' = Events(r) /\ d = c
        BY <1>1, <1>6, <1>9, EventsMove
    <2> QED BY <1>2, <1>3, <2>1, <2>2
<1> QED BY <1>3, <1>7, <1>8, <1>9

LEMMA PubCountStep ==
    ASSUME ShapeInv, MapInv, ChainsMeasureOnce, PubCountInv, NEW a \in Actors, ActorSteps(a)
    PROVE  PubCountInv'
<1>1. pubs' = pubs
    BY Frame0 DEF config
<1> SUFFICES ASSUME Outermost(pubs) = "prometheus", Traced(pubs)
             PROVE  /\ counted'["pub"]["success"] + Cardinality(Uncounted("ok")')
                           = Cardinality(Events("ok")')
                    /\ counted'["pub"]["error"] + Cardinality(Uncounted("error")')
                           >= Cardinality(Events("error")')
    BY <1>1 DEF PubCountInv, Outermost, Traced
<1>2. \A r \in {"ok", "error"} : Cardinality(Uncounted(r)) \in Nat /\ Cardinality(Events(r)) \in Nat
    BY SumsAreFinite
<1>3. counted'["pub"]["success"] + Cardinality(Uncounted("ok")') = Cardinality(Events("ok")')
    <2> DEFINE c == counted["pub"]["success"]
               d == counted'["pub"]["success"]
    <2>1. StatusFor("ok") = "success"
        BY DEF StatusFor
    <2>2. c + Cardinality(Uncounted("ok")) = Cardinality(Events("ok"))
        BY DEF PubCountInv
    <2> QED BY <1>2, <2>1, <2>2, PubCountMoves
<1>4. counted'["pub"]["error"] + Cardinality(Uncounted("error")') >= Cardinality(Events("error")')
    <2> DEFINE c == counted["pub"]["error"]
               d == counted'["pub"]["error"]
    <2>1. StatusFor("error") = "error"
        BY DEF StatusFor
    <2>2. c + Cardinality(Uncounted("error")) >= Cardinality(Events("error"))
        BY DEF PubCountInv
    <2> QED BY <1>2, <2>1, <2>2, PubCountMoves
<1> QED BY <1>3, <1>4

-----------------------------------------------------------------------------
(* The invariants, and what they say                                          *)

ChainInv == ShapeInv /\ OpenInv /\ TurnInv /\ MapInv /\ LeadInv /\ NameInv /\ MarkInv
CountsInv == ChainInv /\ SubCountInv /\ PubCountInv

LEMMA ChainInit == Init => ChainInv
<1> SUFFICES ASSUME Init PROVE ChainInv
    OBVIOUS
<1>1. ShapeInv
    BY ShapeInit
<1>2. /\ Len(heap) = N /\ \A m \in 1..N : heap[m] = m
      /\ Len(spans) = N /\ N \in Nat
      /\ \A i \in 1..N : spans[i].by = 0
    BY InitFacts, Bounds
<1>3. \A a \in Actors : stack[a] = <<>> /\ Len(stack[a]) = 0 /\ mode[a] = "idle"
    BY InitFacts
<1>4. sent = {} /\ (requests # {} => sharing = "none")
    BY DEF Init
<1>5. OpenInv
    BY <1>2 DEF OpenInv, Watched
<1>6. TurnInv
    BY <1>3 DEF TurnInv
<1>7. MapInv
    BY <1>3, <1>4 DEF MapInv
<1>8. LeadInv
    <2>1. \A m \in 1..N : m \in Line[heap[m]]
        BY <1>1, <1>2, LineIs
    <2> QED BY <1>3, <1>4, <2>1 DEF LeadInv
<1>9. NameInv
    BY <1>3, <1>4 DEF NameInv
<1>10. MarkInv
    BY <1>3, <1>4 DEF MarkInv
<1> QED BY <1>1, <1>5, <1>6, <1>7, <1>8, <1>9, <1>10 DEF ChainInv

LEMMA CountsInit == Init => SubCountInv /\ PubCountInv
<1> SUFFICES ASSUME Init PROVE SubCountInv /\ PubCountInv
    OBVIOUS
<1>1. \A a \in Actors : mode[a] = "idle" /\ answer[a] = "none"
    BY InitFacts
<1>2. counted = [side \in {"sub", "pub"} |-> [status \in Statuses |-> 0]] /\ sent = {}
    BY DEF Init
<1>3. /\ Settled("ok") = {} /\ Settled("error") = {}
      /\ \A r \in {"ok", "error"} : Uncounted(r) = {} /\ Events(r) = {}
    BY <1>1, <1>2 DEF Settled, Uncounted, Events
<1>4. Cardinality({}) = 0
    BY FS_EmptySet
<1>5. /\ counted["sub"]["success"] = 0 /\ counted["sub"]["error"] = 0
      /\ counted["pub"]["success"] = 0 /\ counted["pub"]["error"] = 0
    BY <1>2 DEF Statuses
<1>6. SubCountInv
    BY <1>3, <1>4, <1>5 DEF SubCountInv
<1>7. PubCountInv
    BY <1>3, <1>4, <1>5 DEF PubCountInv
<1> QED BY <1>6, <1>7

LEMMA ChainStutters == ChainInv /\ UNCHANGED vars => ChainInv'
<1> SUFFICES ASSUME ChainInv, UNCHANGED vars PROVE ChainInv'
    OBVIOUS
<1>1. /\ requests' = requests /\ sharing' = sharing /\ subs' = subs /\ pubs' = pubs
      /\ mode' = mode /\ stack' = stack /\ heap' = heap /\ spans' = spans /\ counted' = counted
      /\ sent' = sent /\ publishes' = publishes /\ answer' = answer
    BY DEF vars, config, trace
<1>2. ShapeInv'
    BY <1>1 DEF ChainInv, ShapeInv, TypeOK, DataInv, Matches, Rests, Callees, Handling, Top
<1>3. OpenInv'
    BY <1>1 DEF ChainInv, OpenInv, Watched, OfCall
<1>4. TurnInv'
    BY <1>1 DEF ChainInv, TurnInv
<1>5. MapInv'
    BY <1>1 DEF ChainInv, MapInv, Given, InheritsMap, Injected, Private, Detached, MapOf
<1>6. Line' = Line /\ \A a \in Actors : MapOf(a)' = MapOf(a) /\ Upstream(a)' = Upstream(a)
    BY <1>1 DEF Line, MapOf, Upstream
<1>7. LeadInv'
    BY <1>1, <1>6 DEF ChainInv, LeadInv, Upstream, MapOf
<1>8. NameInv'
    BY <1>1 DEF ChainInv, NameInv, Alone, LastSpan, Handling, Top, Traced
<1>9. MarkInv'
    BY <1>1, <1>6 DEF ChainInv, MarkInv, Alone, Marked, NotYet, Injected, MapOf, Traced
<1> QED BY <1>2, <1>3, <1>4, <1>5, <1>7, <1>8, <1>9 DEF ChainInv

LEMMA CountsStutter == SubCountInv /\ PubCountInv /\ UNCHANGED vars => SubCountInv' /\ PubCountInv'
<1> SUFFICES ASSUME SubCountInv, PubCountInv, UNCHANGED vars PROVE SubCountInv' /\ PubCountInv'
    OBVIOUS
<1>1. /\ requests' = requests /\ subs' = subs /\ pubs' = pubs /\ mode' = mode /\ stack' = stack
      /\ counted' = counted /\ sent' = sent /\ answer' = answer
    BY DEF vars, config, trace
<1>2. \A r \in {"ok", "error"} : Settled(r)' = Settled(r)
    BY <1>1 DEF Settled
<1>3. SubCountInv'
    BY <1>1, <1>2 DEF SubCountInv, Outermost
<1>4. \A r \in {"ok", "error"} : Uncounted(r)' = Uncounted(r) /\ Events(r)' = Events(r)
    BY <1>1 DEF Uncounted, Events, Handling
<1>5. PubCountInv'
    BY <1>1, <1>4 DEF PubCountInv, Outermost, Traced
<1> QED BY <1>3, <1>5

LEMMA NextIs == Next => \E a \in Actors : ActorSteps(a)
BY DEF Next, ActorSteps

LEMMA ChainNext == ChainInv /\ [Next]_vars => ChainInv'
<1>1. ASSUME ChainInv, NEW a \in Actors, ActorSteps(a) PROVE ChainInv'
    BY <1>1, ShapeStep, OpenStep, TurnStep, MapStep, LeadStep, NameStep, MarkStep DEF ChainInv
<1> QED BY <1>1, NextIs, ChainStutters

LEMMA CountsNext ==
    ASSUME ChainsMeasureOnce
    PROVE  CountsInv /\ [Next]_vars => CountsInv'
<1>1. ASSUME CountsInv, NEW a \in Actors, ActorSteps(a) PROVE SubCountInv' /\ PubCountInv'
    BY <1>1, SubCountStep, PubCountStep DEF CountsInv, ChainInv
<1> QED BY <1>1, NextIs, ChainNext, CountsStutter DEF CountsInv

\* Whatever the wrappers and however the actors' steps interleave, the stack of
\* calls follows the chain, open spans belong to calls in progress, and every map
\* and span leads upstream.
THEOREM ChainInvariant == Spec => []ChainInv
<1> QED BY ChainInit, ChainNext, PTL DEF Spec

\* Every frame and every map names a span that was started.
THEOREM TypeCorrect == Spec => []TypeOK
<1>1. ChainInv => TypeOK
    BY DEF ChainInv, ShapeInv
<1> QED BY <1>1, ChainInvariant, PTL

\* The trace in a message's headers leads upstream, to its own publish call and
\* through the delivery it was sent from.
THEOREM TracesAreUnbroken == Spec => []TraceUnbroken
<1>1. ASSUME ChainInv PROVE TraceUnbroken
    <2> SUFFICES ASSUME NEW x \in sent
                 PROVE  /\ Upstream(x.by) \in Line[heap[x.map]]
                        /\ Alone(x.by) =>
                              /\ x.kind = "event" /\ Traced(pubs) => heap[x.map] = x.span
                              /\ x.by \notin requests /\ Traced(subs) =>
                                    \E i \in Line[heap[x.map]] : spans[i].by = x.by
        BY DEF TraceUnbroken, Alone
    <2>1. Upstream(x.by) \in Line[heap[x.map]]
        BY <1>1 DEF ChainInv, LeadInv
    <2>2. Alone(x.by) /\ x.kind = "event" /\ Traced(pubs) => heap[x.map] = x.span
        BY <1>1 DEF ChainInv, NameInv
    <2>3. Alone(x.by) /\ x.by \notin requests /\ Traced(subs) =>
             \E i \in Line[heap[x.map]] : spans[i].by = x.by
        BY <1>1 DEF ChainInv, MarkInv
    <2> QED BY <2>1, <2>2, <2>3
<1> QED BY <1>1, ChainInvariant, PTL

\* A call that is over left no span open, though it panicked or was retried.
NoSpanLeftOpen ==
    \A i \in 1..Len(spans) : spans[i].by # 0 /\ mode[spans[i].by] = "done" => spans[i].over

LEMMA SpansAreEnded == ChainInv => NoSpanLeftOpen
<1> SUFFICES ASSUME ChainInv, NEW i \in 1..Len(spans), spans[i].by # 0,
                    mode[spans[i].by] = "done"
             PROVE  spans[i].over
    BY DEF NoSpanLeftOpen
<1>1. spans \in Seq(Span) /\ N \in Nat
    BY Bounds DEF ChainInv, ShapeInv, DataInv
<1>2. spans[i] \in Span
    BY <1>1, ElementOfSeq
<1>3. spans[i].by \in Actors /\ spans[i].over \in BOOLEAN
    BY <1>1, <1>2 DEF Span, Actors
<1>4. stack[spans[i].by] = <<>>
    BY <1>3 DEF ChainInv, ShapeInv, Rests
<1>5. ~OfCall(spans[i].by, i)
    BY <1>4 DEF OfCall
<1>6. spans[i].over # FALSE
    BY <1>5 DEF ChainInv, OpenInv, Watched
<1> QED BY <1>3, <1>6

\* Whatever the wrappers, no call that is over left a span open.
THEOREM CallsEndTheirSpans == Spec => []NoSpanLeftOpen
<1> QED BY SpansAreEnded, ChainInvariant, PTL

\* Where each chain has one metrics wrapper, the totals are what the brokers were
\* answered and took.
THEOREM CallsAreAccounted ==
    ASSUME ChainsMeasureOnce
    PROVE  Spec => []EachCallAccounted
<1>1. ASSUME CountsInv PROVE EachCallAccounted
    <2>1. NoSpanLeftOpen
        BY <1>1, SpansAreEnded DEF CountsInv
    <2>2. ASSUME Outermost(subs) = "prometheus", \A a \in Actors : mode[a] \in {"idle", "done"}
          PROVE  \A r \in {"ok", "error"} :
                    Settled(r) = {a \in Actors \ requests : answer[a] = r}
        BY <2>2 DEF Settled
    <2>3. ASSUME \A a \in Actors : mode[a] \in {"idle", "running", "done"}
          PROVE  /\ Cardinality(Uncounted("ok")) = 0 /\ Cardinality(Uncounted("error")) = 0
                 /\ counted["pub"]["success"] \in Nat /\ counted["pub"]["error"] \in Nat
        <3>1. Uncounted("ok") = {} /\ Uncounted("error") = {}
            BY <2>3 DEF Uncounted
        <3>2. counted \in [{"sub", "pub"} -> [Statuses -> Nat]]
            BY <1>1 DEF CountsInv, ChainInv, ShapeInv, TypeOK
        <3> QED BY <3>1, <3>2, FS_EmptySet DEF Statuses
    <2>4. ASSUME Outermost(pubs) = "prometheus", Traced(pubs),
                 \A a \in Actors : mode[a] \in {"idle", "running", "done"}
          PROVE  /\ counted["pub"]["success"] = Cardinality(Events("ok"))
                 /\ counted["pub"]["error"] >= Cardinality(Events("error"))
        <3>1. /\ counted["pub"]["success"] + Cardinality(Uncounted("ok")) = Cardinality(Events("ok"))
              /\ counted["pub"]["error"] + Cardinality(Uncounted("error"))
                    >= Cardinality(Events("error"))
            BY <1>1, <2>4 DEF CountsInv, PubCountInv
        <3>2. \A n \in Nat : n + 0 = n
            OBVIOUS
        <3> QED BY <2>3, <2>4, <3>1, <3>2
    <2>5. SubCountInv
        BY <1>1 DEF CountsInv
    <2> QED BY <2>1, <2>2, <2>4, <2>5 DEF EachCallAccounted, NoSpanLeftOpen, SubCountInv, Events
<1>2. Init => CountsInv
    BY ChainInit, CountsInit DEF CountsInv
<1>3. CountsInv /\ [Next]_vars => CountsInv'
    BY CountsNext
<1> QED BY <1>1, <1>2, <1>3, PTL DEF Spec

-----------------------------------------------------------------------------
(* The retry wrapper                                                         *)

USE OptionTypes DEF OptionTypes

Counters ==
    /\ pc \in Places
    /\ attempt \in Nat
    /\ calls \in Nat
    /\ MaxRetries \in Int

\* The handler is called once per attempt, and a further attempt is only
\* prepared while one is left.  A loop entered with a negative MaxRetries is
\* left at once, without a failure to report.
CallsCounted ==
    /\ pc \in {"loop", "handler"} => calls = attempt
    /\ pc = "loop" => attempt <= MaxRetries \/ ~failed
    /\ pc = "handler" => attempt <= MaxRetries
    /\ pc = "backoff" => calls = attempt + 1 /\ attempt < MaxRetries /\ failed
    /\ pc = "exhausted" /\ failed => calls = MaxRetries + 1
    /\ pc = "publish" => failed /\ calls = MaxRetries + 1

\* Nothing is acknowledged during a delivery, and a delivery cancelled in a
\* backoff gets no further than the next look at its context.
CancelInv ==
    /\ pc # "broker" => ~acked
    /\ cancelledWait /\ pc # "broker" =>
         ctxDone /\ (pc = "backoff" \/ (pc = "loop" /\ attempt <= MaxRetries))

RetryInv == Counters /\ CallsCounted /\ CancelInv

LEMMA RetryInit == LoopInit => RetryInv
BY DEF LoopInit, RetryInv, Counters, CallsCounted, CancelInv, Places

LEMMA RetryNext == RetryInv /\ [LoopNext]_loopVars => RetryInv'
<1> SUFFICES ASSUME RetryInv, [LoopNext]_loopVars PROVE RetryInv'
    OBVIOUS
<1> USE DEF RetryInv, Counters, CallsCounted, CancelInv, Places, history, Return
<1>1. CASE UNCHANGED loopVars
    BY <1>1 DEF loopVars
<1>2. CASE Deliver
    BY <1>2 DEF Deliver, FirstAttempt
<1>3. CASE LoopTop
    BY <1>3 DEF LoopTop, MayTry, CancelSeen
<1>4. CASE HandlerSucceeds
    BY <1>4 DEF HandlerSucceeds
<1>5. CASE HandlerFails
    BY <1>5 DEF HandlerFails
<1>6. CASE HandlerPanics
    BY <1>6 DEF HandlerPanics
<1>7. CASE BackoffElapses
    BY <1>7 DEF BackoffElapses
<1>8. CASE BackoffCancelled
    BY <1>8 DEF BackoffCancelled
<1>9. CASE Exhausted
    BY <1>9 DEF Exhausted, DLQConfigured
<1>10. CASE PublishSucceeds
    BY <1>10 DEF PublishSucceeds
<1>11. CASE PublishFails
    BY <1>11 DEF PublishFails, ReportsFailure
<1>12. CASE Cancel
    BY <1>12 DEF Cancel
<1>13. CASE Rest
    BY <1>13 DEF Rest, loopVars
<1> QED
    BY <1>1, <1>2, <1>3, <1>4, <1>5, <1>6, <1>7, <1>8, <1>9, <1>10, <1>11, <1>12,
       <1>13 DEF LoopNext, Wrapper

\* Calls and attempts agree at every place of the loop, and a cancelled wait goes
\* no further.
THEOREM RetryInvariant == LoopSpec => []RetryInv
BY RetryInit, RetryNext, PTL DEF LoopSpec

\* Whatever the options, a message goes to the dead-letter topic only after
\* MaxRetries + 1 handler calls in this delivery.
THEOREM DeadLettersAreExhausted == LoopSpec => []DeadAfterAllAttempts
<1>1. RetryInv => DeadAfterAllAttempts
    BY DEF RetryInv, CallsCounted, DeadAfterAllAttempts
<1> QED BY <1>1, RetryInvariant, PTL

\* The broker's verdict is a Boolean.
VerdictType == acked \in BOOLEAN

LEMMA AckedType == LoopSpec => []VerdictType
<1>1. LoopInit => VerdictType
    BY DEF LoopInit, VerdictType
<1>2. VerdictType /\ [LoopNext]_loopVars => VerdictType'
    <2> SUFFICES ASSUME acked \in BOOLEAN, [LoopNext]_loopVars PROVE acked' \in BOOLEAN
        BY DEF VerdictType
    <2> USE DEF Return, history
    <2>1. CASE UNCHANGED loopVars \/ Deliver \/ Cancel \/ Rest
        BY <2>1 DEF loopVars, Deliver, Cancel, Rest
    <2>2. CASE LoopTop
        BY <2>2 DEF LoopTop
    <2>3. CASE HandlerSucceeds
        BY <2>3 DEF HandlerSucceeds
    <2>4. CASE HandlerFails
        BY <2>4 DEF HandlerFails
    <2>5. CASE HandlerPanics
        BY <2>5 DEF HandlerPanics
    <2>6. CASE BackoffElapses
        BY <2>6 DEF BackoffElapses
    <2>7. CASE BackoffCancelled
        BY <2>7 DEF BackoffCancelled
    <2>8. CASE Exhausted
        BY <2>8 DEF Exhausted
    <2>9. CASE PublishSucceeds
        BY <2>9 DEF PublishSucceeds
    <2>10. CASE PublishFails
        BY <2>10 DEF PublishFails, ReportsFailure
    <2> QED
        BY <2>1, <2>2, <2>3, <2>4, <2>5, <2>6, <2>7, <2>8, <2>9, <2>10
           DEF LoopNext, Wrapper
<1> QED BY <1>1, <1>2, PTL DEF LoopSpec

\* Whatever the options, a cancellation during a backoff is the end of the
\* delivery: no further call, no dead letter, no acknowledgement.
THEOREM CancellationInterrupts == LoopSpec => CancelInterrupts
<1>1. ASSUME RetryInv, VerdictType, [LoopNext]_loopVars, cancelledWait, pc # "broker"
      PROVE  calls' = calls /\ inDLQ' = inDLQ /\ acked' = FALSE
    <2>0. /\ acked = FALSE
          /\ ctxDone
          /\ pc = "backoff" \/ (pc = "loop" /\ attempt <= MaxRetries)
        BY <1>1 DEF RetryInv, CancelInv, VerdictType
    <2>1. CASE UNCHANGED loopVars \/ Deliver \/ Cancel \/ Rest
        BY <1>1, <2>0, <2>1 DEF loopVars, Deliver, Cancel, Rest, FirstAttempt, Return, history
    <2>2. CASE LoopTop
        BY <1>1, <2>0, <2>2 DEF LoopTop, MayTry, CancelSeen, Return, history
    <2>3. CASE HandlerSucceeds
        BY <1>1, <2>0, <2>3 DEF HandlerSucceeds, Return, history
    <2>4. CASE HandlerFails
        BY <1>1, <2>0, <2>4 DEF HandlerFails, Return, history
    <2>5. CASE HandlerPanics
        BY <1>1, <2>0, <2>5 DEF HandlerPanics, Return, history
    <2>6. CASE BackoffElapses
        BY <1>1, <2>0, <2>6 DEF BackoffElapses, Return, history
    <2>7. CASE BackoffCancelled
        BY <1>1, <2>0, <2>7 DEF BackoffCancelled, Return, history
    <2>8. CASE Exhausted
        BY <1>1, <2>0, <2>8 DEF Exhausted, DLQConfigured, Return, history
    <2>9. CASE PublishSucceeds
        BY <1>1, <2>0, <2>9 DEF PublishSucceeds, Return, history
    <2>10. CASE PublishFails
        BY <1>1, <2>0, <2>10 DEF PublishFails, ReportsFailure, Return, history
    <2> QED
        BY <1>1, <2>1, <2>2, <2>3, <2>4, <2>5, <2>6, <2>7, <2>8, <2>9, <2>10
           DEF LoopNext, Wrapper
<1> QED BY <1>1, RetryInvariant, AckedType, PTL DEF LoopSpec, CancelInterrupts

-----------------------------------------------------------------------------
(* Acknowledged messages, for options that allow at least one attempt.       *)

\* Out of attempts means that one has failed.
FailureKnown ==
    /\ pc = "loop" => attempt = 0 \/ failed
    /\ pc = "exhausted" => failed

\* A message the broker lets go was handled or is in the dead-letter topic.
\* A negative MaxRetries, which the code accepts, would acknowledge it unseen.
THEOREM AckedMessagesAreSafe ==
    ASSUME MaxRetries >= 0 PROVE LoopSpec => []AckedIsSafe
<1>1. LoopInit => FailureKnown /\ AckedIsSafe
    BY DEF LoopInit, FailureKnown, AckedIsSafe
<1>2. RetryInv /\ FailureKnown /\ AckedIsSafe /\ [LoopNext]_loopVars
        => FailureKnown' /\ AckedIsSafe'
    <2> SUFFICES ASSUME RetryInv, FailureKnown, AckedIsSafe, [LoopNext]_loopVars
                 PROVE  FailureKnown' /\ AckedIsSafe'
        OBVIOUS
    <2> USE DEF FailureKnown, AckedIsSafe, Return, history
    <2>0. /\ pc \in Places /\ attempt \in Nat /\ MaxRetries \in Int
          /\ pc \in {"backoff", "publish"} => failed
        BY DEF RetryInv, Counters, CallsCounted
    <2>1. CASE UNCHANGED loopVars \/ Deliver \/ Cancel \/ Rest
        BY <2>0, <2>1 DEF loopVars, Deliver, Cancel, Rest, FirstAttempt
    <2>2. CASE LoopTop
        BY <2>0, <2>2 DEF LoopTop, MayTry, CancelSeen
    <2>3. CASE HandlerSucceeds
        BY <2>0, <2>3 DEF HandlerSucceeds
    <2>4. CASE HandlerFails
        BY <2>0, <2>4 DEF HandlerFails
    <2>5. CASE HandlerPanics
        BY <2>0, <2>5 DEF HandlerPanics
    <2>6. CASE BackoffElapses
        BY <2>0, <2>6 DEF BackoffElapses
    <2>7. CASE BackoffCancelled
        BY <2>0, <2>7 DEF BackoffCancelled
    <2>8. CASE Exhausted
        BY <2>0, <2>8 DEF Exhausted, DLQConfigured
    <2>9. CASE PublishSucceeds
        BY <2>0, <2>9 DEF PublishSucceeds
    <2>10. CASE PublishFails
        BY <2>0, <2>10 DEF PublishFails, ReportsFailure
    <2> QED
        BY <2>1, <2>2, <2>3, <2>4, <2>5, <2>6, <2>7, <2>8, <2>9, <2>10
           DEF LoopNext, Wrapper
<1> QED BY <1>1, <1>2, RetryInvariant, PTL DEF LoopSpec

-----------------------------------------------------------------------------
(* The backoff, for all options                                               *)

\* pow computes the powers it is named for.
LEMMA PowUnfolds ==
    /\ pow \in [Nat -> Int]
    /\ pow[0] = 1
    /\ \A n \in Nat : pow[n + 1] = Multiplier * pow[n]
<1> DEFINE step == [p \in Nat \X Int |-> Multiplier * p[2]]
           Unfolded(f) == f = [n \in Nat |-> IF n = 0 THEN 1 ELSE Multiplier * f[n - 1]]
<1>0. \A x, y \in Int : x * y \in Int
    OBVIOUS
<1>1. step \in [Nat \X Int -> Int]
    BY <1>0, OptionTypes
<1>2. \A n \in Nat : \A v \in Int : step[<<n, v>>] = Multiplier * v
    OBVIOUS
<1> HIDE DEF step
<1>3. PICK f \in [Nat -> Int] :
        f[0] = 1 /\ \A n \in Nat : f[n + 1] = step[<<n, f[n]>>]
    <2>1. step \in Steps(Int)
        BY <1>1 DEF Steps
    <2>2. \E f : IsRecursive(Int, 1, step, f)
        <3>1. 1 \in Int
            OBVIOUS
        <3> QED BY <2>1, <3>1, Recursion
    <2> QED BY <2>2 DEF IsRecursive
<1>4. Unfolded(f)
    <2>1. ASSUME NEW n \in Nat
          PROVE  f[n] = IF n = 0 THEN 1 ELSE Multiplier * f[n - 1]
        <3>1. CASE n = 0
            BY <1>3, <3>1
        <3>2. CASE n # 0
            <4>1. n - 1 \in Nat /\ (n - 1) + 1 = n
                BY <3>2
            <4>2. f[n] = step[<<n - 1, f[n - 1]>>]
                BY <1>3, <4>1
            <4> QED BY <1>2, <3>2, <4>1, <4>2
        <3> QED BY <3>1, <3>2
    <2> QED BY <2>1
<1>5. Unfolded(pow)
    <2>1. pow = CHOOSE g : Unfolded(g)
        BY DEF pow
    <2> QED BY <1>4, <2>1
<1> DEFINE S == {n \in Nat : pow[n] \in Int}
<1>6. 0 \in S
    BY <1>5
<1>7. ASSUME NEW n \in Nat PROVE pow[n + 1] = Multiplier * pow[n]
    BY <1>5
<1>8. ASSUME NEW n \in Nat, n \in S PROVE n + 1 \in S
    BY <1>0, <1>7, <1>8, OptionTypes
<1>9. Nat \subseteq S
    <2> HIDE DEF S
    <2> QED BY <1>6, <1>8, SetInduction
<1> QED BY <1>5, <1>7, <1>9

\* The waits the n-th failed attempt may choose, and those before it.
WaitsBefore(n) == IF n = 0 THEN {0} ELSE Backoffs(n - 1)

LEMMA PowsGrow ==
    ASSUME Multiplier >= 1
    PROVE  \A n \in Nat : pow[n] \in Nat /\ pow[n] <= pow[n + 1]
<1>1. \A x, y \in Int : x >= 1 /\ y \in Nat => x * y \in Nat /\ y <= x * y
    OBVIOUS
<1>2. Multiplier \in Int
    BY OptionTypes
<1> DEFINE S == {n \in Nat : pow[n] \in Nat}
<1>3. 0 \in S
    BY PowUnfolds
<1>4. ASSUME NEW n \in Nat, n \in S PROVE n + 1 \in S
    BY <1>1, <1>2, <1>4, PowUnfolds
<1>5. Nat \subseteq S
    <2> HIDE DEF S
    <2> QED BY <1>3, <1>4, SetInduction
<1> QED BY <1>1, <1>2, <1>5, PowUnfolds

LEMMA CappedIs ==
    ASSUME NEW d \in Int
    PROVE  /\ Capped(d) \in Int /\ Capped(d) <= MaxBackoff
           /\ d <= MaxBackoff => Capped(d) = d
           /\ \A e \in Int : e <= d => Capped(e) <= Capped(d)
BY OptionTypes DEF Capped

LEMMA BackoffsAre ==
    ASSUME NEW n \in Nat, NEW w \in Backoffs(n), NEW v \in WaitsBefore(n)
    PROVE  /\ w \in Int /\ w <= MaxBackoff
           /\ w < v /\ InitialBackoff >= 0 /\ MaxBackoff >= 0 /\ Multiplier >= 1 =>
                 Overflows(n) /\ w = MinDuration
<1>1. \A k \in Nat : InitialBackoff * pow[k] \in Int
    <2>1. \A x, y \in Int : x * y \in Int
        OBVIOUS
    <2> QED BY <2>1, OptionTypes, PowUnfolds
<1>2. MaxDuration \in Nat /\ MinDuration \in Int /\ MinDuration < 0
    BY OptionTypes DEF MinDuration
<1>3. \A x \in Int : \A d \in ToDuration(x) : d \in Int /\ d <= MaxDuration
    BY <1>2 DEF ToDuration
<1>4. w \in Int /\ w <= MaxBackoff
    BY <1>1, <1>3, CappedIs DEF Backoffs
<1> SUFFICES ASSUME w < v, InitialBackoff >= 0, MaxBackoff >= 0, Multiplier >= 1
             PROVE  Overflows(n) /\ w = MinDuration
    BY <1>4
<1>5. v \in Int /\ v <= Capped(MaxDuration)
    <2>1. 0 <= Capped(MaxDuration)
        BY <1>2, OptionTypes DEF Capped
    <2>2. CASE n = 0
        BY <2>1, <2>2, <1>2, CappedIs DEF WaitsBefore
    <2>3. CASE n # 0
        <3>1. n - 1 \in Nat
            BY <2>3
        <3>2. PICK d \in ToDuration(InitialBackoff * pow[n - 1]) : v = Capped(d)
            BY <2>3 DEF WaitsBefore, Backoffs
        <3>3. d \in Int /\ d <= MaxDuration
            BY <1>1, <1>3, <3>1
        <3> QED BY <1>2, <3>2, <3>3, CappedIs
    <2> QED BY <2>2, <2>3
<1>6. CASE Overflows(n)
    <2>1. w = Capped(MinDuration) \/ w = Capped(MaxDuration)
        BY <1>6 DEF Backoffs, ToDuration, Overflows
    <2>2. Capped(MinDuration) = MinDuration
        BY <1>2, OptionTypes, CappedIs
    <2>3. w # Capped(MaxDuration)
        BY <1>4, <1>5
    <2> QED BY <1>6, <2>1, <2>2, <2>3
<1>7. CASE ~Overflows(n)
    <2>1. /\ \A k \in Nat : InitialBackoff * pow[k] >= 0
          /\ \A k \in Nat : InitialBackoff * pow[k] <= InitialBackoff * pow[k + 1]
        <3>1. \A x, y, z \in Nat : x * y >= 0 /\ (y <= z => x * y <= x * z)
            OBVIOUS
        <3>2. InitialBackoff \in Nat
            BY OptionTypes
        <3> QED BY <3>1, <3>2, PowsGrow
    <2>2. \A k \in Nat : ~Overflows(k) => Backoffs(k) = {Capped(InitialBackoff * pow[k])}
        <3> SUFFICES ASSUME NEW k \in Nat, ~Overflows(k)
                     PROVE  Backoffs(k) = {Capped(InitialBackoff * pow[k])}
            OBVIOUS
        <3> DEFINE x == InitialBackoff * pow[k]
        <3>1. x \in Int /\ x >= 0 /\ ~(x > MaxDuration)
            BY <1>1, <2>1 DEF Overflows
        <3>2. Backoffs(k) = {Capped(d) : d \in ToDuration(x)}
            BY DEF Backoffs
        <3> HIDE DEF x
        <3>3. ToDuration(x) = {x}
            BY <1>2, <3>1 DEF ToDuration
        <3>4. Backoffs(k) = {Capped(x)}
            BY <3>2, <3>3
        <3> QED BY <3>4 DEF x
    <2>3. w = Capped(InitialBackoff * pow[n])
        BY <1>7, <2>2
    <2>4. CASE n = 0
        <3>1. 0 <= Capped(InitialBackoff * pow[n])
            BY <1>1, <2>1, OptionTypes DEF Capped
        <3> QED BY <1>4, <2>3, <2>4, <3>1 DEF WaitsBefore
    <2>5. CASE n # 0
        <3>1. PICK k \in Nat : n = k + 1
            <4>1. n - 1 \in Nat /\ n = (n - 1) + 1
                BY <2>5
            <4> QED BY <4>1
        <3>2. /\ InitialBackoff * pow[k] <= InitialBackoff * pow[n]
              /\ InitialBackoff * pow[k] \in Int /\ InitialBackoff * pow[n] \in Int
            BY <1>1, <2>1, <3>1
        <3>3. ~Overflows(k)
            BY <1>2, <1>7, <3>2 DEF Overflows
        <3>4. v = Capped(InitialBackoff * pow[k])
            BY <2>2, <2>5, <3>1, <3>3 DEF WaitsBefore
        <3>5. v <= w
            BY <2>3, <3>2, <3>4, CappedIs
        <3> QED BY <1>4, <1>5, <3>5
    <2> QED BY <2>4, <2>5
<1> QED BY <1>6, <1>7

\* The waits follow the attempts.
WaitInv ==
    /\ pc \in {"loop", "handler"} => wait \in WaitsBefore(attempt)
    /\ pc = "backoff" => wait \in Backoffs(attempt) /\ lastWait \in WaitsBefore(attempt)

LEMMA WaitStep ==
    ASSUME RetryInv, WaitInv, [LoopNext]_loopVars
    PROVE  WaitInv'
<1>0. Counters /\ attempt \in Nat /\ pc \in Places
    BY DEF RetryInv, Counters
<1> USE DEF WaitInv, history, Return, Places
<1>1. CASE UNCHANGED loopVars \/ Cancel \/ Rest
    BY <1>1 DEF loopVars, Cancel, Rest
<1>2. CASE Deliver
    <2>1. WaitsBefore(0) = {0}
        BY DEF WaitsBefore
    <2> QED BY <1>2, <2>1 DEF Deliver, FirstAttempt
<1>3. CASE LoopTop
    BY <1>3 DEF LoopTop
<1>4. CASE HandlerSucceeds \/ HandlerPanics \/ BackoffCancelled
    BY <1>4 DEF HandlerSucceeds, HandlerPanics, BackoffCancelled
<1>5. CASE HandlerFails
    BY <1>5 DEF HandlerFails
<1>6. CASE BackoffElapses
    <2>1. WaitsBefore(attempt + 1) = Backoffs(attempt)
        BY <1>0 DEF WaitsBefore
    <2> QED BY <1>6, <2>1 DEF BackoffElapses
<1>7. CASE Exhausted
    BY <1>7 DEF Exhausted
<1>8. CASE PublishSucceeds \/ PublishFails
    BY <1>8 DEF PublishSucceeds, PublishFails
<1> QED
    BY <1>1, <1>2, <1>3, <1>4, <1>5, <1>6, <1>7, <1>8 DEF LoopNext, Wrapper

\* For all options and any number of retries no wait is longer than MaxBackoff, and
\* with sensible options only an overflow, in which case there is no wait at all,
\* makes one shorter than the wait before.
THEOREM BackoffIsMonotone == LoopSpec => []BackoffGrows
<1>1. LoopInit => WaitInv
    BY DEF LoopInit, WaitInv
<1>2. RetryInv /\ WaitInv /\ [LoopNext]_loopVars => WaitInv'
    BY WaitStep
<1>3. RetryInv /\ WaitInv => BackoffGrows
    BY BackoffsAre DEF WaitInv, BackoffGrows, RetryInv, Counters
<1> QED BY <1>1, <1>2, <1>3, RetryInvariant, PTL DEF LoopSpec
=============================================================================
