-------------------------- MODULE Lowering_proofs ---------------------------
(* Proofs about module Lowering: what the rewrites of calls keep, and when they *)
(* leave none of GoogleSQL's calls.                                             *)
EXTENDS Lowering, SequenceTheorems, TLAPS

\* No function twice, and at most two levels of parentheses in every argument.
Simple(ch) ==
    /\ \A i, j \in DOMAIN ch.calls : ch.calls[i].fn = ch.calls[j].fn => i = j
    /\ \A i \in DOMAIN ch.calls : Depth(ch, i) <= 2

\* The calls of r are those of ch, some of them lowered, and nothing is undone.
Follows(r, ch) ==
    /\ r \in Chain
    /\ DOMAIN r.calls = DOMAIN ch.calls
    /\ \A i \in DOMAIN ch.calls :
          /\ r.calls[i].fn = ch.calls[i].fn
          /\ ch.calls[i].lowered => r.calls[i].lowered

LoweredIn(r, f) == \A i \in DOMAIN r.calls : r.calls[i].fn = f => r.calls[i].lowered

\* A chain with some calls lowered is a chain.
LEMMA Rewritten ==
    ASSUME NEW ch \in Chain, NEW cs,
           cs = [i \in DOMAIN ch.calls |-> cs[i]],
           \A i \in DOMAIN ch.calls : cs[i] \in Call
    PROVE  /\ [ch EXCEPT !.calls = cs] \in Chain
           /\ [ch EXCEPT !.calls = cs].calls = cs
           /\ [ch EXCEPT !.calls = cs].leaf = ch.leaf
  <1>1. ch.calls \in Seq(Call) /\ DOMAIN ch.calls = 1 .. Len(ch.calls) /\ Len(ch.calls) \in Nat
    BY DEF Chain
  <1>2. cs \in [1 .. Len(ch.calls) -> Call]
    BY <1>1
  <1>3. cs \in Seq(Call)
    BY <1>1, <1>2, SeqDef
  <1> QED BY <1>3 DEF Chain

\* One pass lowers calls of its function only.
LEMMA LowerCallFollows ==
    ASSUME NEW ch \in Chain, NEW f
    PROVE  LET r == LowerCall(f, ch)
           IN  /\ Follows(r, ch)
               /\ r.leaf = ch.leaf
               /\ \A i \in DOMAIN ch.calls : ch.calls[i].fn # f => r.calls[i] = ch.calls[i]
  <1> DEFINE Hit(i) == Matches(ch, f, i) /\ \A j \in 1 .. i - 1 : ~ Matches(ch, f, j)
             cs == [i \in DOMAIN ch.calls |->
                       IF Hit(i) THEN [ch.calls[i] EXCEPT !.lowered = TRUE] ELSE ch.calls[i]]
  <1>1. \A i \in DOMAIN ch.calls : ch.calls[i] \in Call
    BY DEF Chain
  <1>2. \A i \in DOMAIN ch.calls :
            /\ cs[i] \in Call
            /\ cs[i].fn = ch.calls[i].fn
            /\ ch.calls[i].lowered => cs[i].lowered
            /\ ~ Hit(i) => cs[i] = ch.calls[i]
    <2> HIDE DEF Hit
    <2> QED BY <1>1 DEF Call
  <1>3. \A i : Hit(i) => ch.calls[i].fn = f
    BY DEF Matches
  <1>4. LowerCall(f, ch) = [ch EXCEPT !.calls = cs]
    BY DEF LowerCall
  <1> HIDE DEF Hit
  <1>5. DOMAIN cs = DOMAIN ch.calls /\ cs = [i \in DOMAIN ch.calls |-> cs[i]]
    OBVIOUS
  <1> HIDE DEF cs
  <1> QED BY <1>2, <1>3, <1>4, <1>5, Rewritten DEF Follows

\* A rewrite by name lowers every call of its function, and no other.
LEMMA LowerNamedFollows ==
    ASSUME NEW ch \in Chain, NEW f
    PROVE  LET r == LowerNamed(f, ch)
           IN  /\ Follows(r, ch)
               /\ r.leaf = ch.leaf
               /\ LoweredIn(r, f)
               /\ \A i \in DOMAIN ch.calls : ch.calls[i].fn # f => r.calls[i] = ch.calls[i]
  <1> DEFINE cs == [i \in DOMAIN ch.calls |->
                       IF ch.calls[i].fn = f THEN [ch.calls[i] EXCEPT !.lowered = TRUE]
                                             ELSE ch.calls[i]]
  <1>1. \A i \in DOMAIN ch.calls : ch.calls[i] \in Call
    BY DEF Chain
  <1>2. \A i \in DOMAIN ch.calls :
            /\ cs[i] \in Call
            /\ cs[i].fn = ch.calls[i].fn
            /\ ch.calls[i].lowered => cs[i].lowered
            /\ ch.calls[i].fn = f => cs[i].lowered
            /\ ch.calls[i].fn # f => cs[i] = ch.calls[i]
    BY <1>1 DEF Call
  <1>3. LowerNamed(f, ch) = [ch EXCEPT !.calls = cs]
    BY DEF LowerNamed
  <1>4. DOMAIN cs = DOMAIN ch.calls /\ cs = [i \in DOMAIN ch.calls |-> cs[i]]
    OBVIOUS
  <1> HIDE DEF cs
  <1> QED BY <1>2, <1>3, <1>4, Rewritten DEF Follows, LoweredIn

\* In a simple chain one pass lowers the only call of its function.
LEMMA LowerCallWhole ==
    ASSUME NEW ch \in Chain, NEW f, Simple(ch)
    PROVE  LoweredIn(LowerCall(f, ch), f)
  <1> DEFINE r == LowerCall(f, ch)
  <1>1. DOMAIN r.calls = DOMAIN ch.calls /\ \A i \in DOMAIN ch.calls : r.calls[i].fn = ch.calls[i].fn
    BY LowerCallFollows DEF Follows
  <1> SUFFICES ASSUME NEW i \in DOMAIN ch.calls, ch.calls[i].fn = f, ~ r.calls[i].lowered
               PROVE  FALSE
    BY <1>1 DEF LoweredIn
  <1>2. ~ ch.calls[i].lowered
    BY LowerCallFollows DEF Follows
  <1>3. Matches(ch, f, i)
    BY <1>2 DEF Matches, Simple
  <1>4. DOMAIN ch.calls = 1 .. Len(ch.calls) /\ ch.calls[i] \in Call
    BY DEF Chain
  <1>5. \A j \in 1 .. i - 1 : j \in DOMAIN ch.calls /\ j # i
    BY <1>4
  <1>6. \A j \in 1 .. i - 1 : ~ Matches(ch, f, j)
    BY <1>5 DEF Matches, Simple
  <1>7. r.calls[i] = [ch.calls[i] EXCEPT !.lowered = TRUE]
    BY <1>3, <1>6, Rewritten DEF LowerCall, Chain
  <1> QED BY <1>4, <1>7 DEF Call

\* A rewrite that leaves TO_JSON_STRING alone leaves simple chains simple.
LEMMA StaysSimple ==
    ASSUME NEW ch \in Chain, NEW r, Simple(ch), Follows(r, ch), r.leaf = ch.leaf,
           \A i \in DOMAIN ch.calls :
               ch.calls[i].fn = "TO_JSON_STRING" => r.calls[i] = ch.calls[i]
    PROVE  Simple(r)
  <1>1. \A i \in DOMAIN ch.calls : Depth(r, i) = Depth(ch, i)
    <2> TAKE i \in DOMAIN ch.calls
    <2>1. {j \in {k \in DOMAIN r.calls : k > i} : r.calls[j].lowered /\ r.calls[j].fn = "TO_JSON_STRING"}
          = {j \in {k \in DOMAIN ch.calls : k > i} : ch.calls[j].lowered /\ ch.calls[j].fn = "TO_JSON_STRING"}
      BY DEF Follows
    <2>2. {k \in DOMAIN r.calls : k > i} = {k \in DOMAIN ch.calls : k > i}
      BY DEF Follows
    <2> QED BY <2>1, <2>2 DEF Depth
  <1> QED BY <1>1 DEF Simple, Follows

\* Follows is a preorder, and what is lowered stays lowered.
LEMMA FollowsAgain ==
    ASSUME NEW a, NEW b, NEW c, Follows(b, a), Follows(c, b)
    PROVE  Follows(c, a) /\ \A f : LoweredIn(b, f) => LoweredIn(c, f)
  BY DEF Follows, LoweredIn

\* A pass over a simple chain, other than TO_JSON_STRING's.
LEMMA PassStep ==
    ASSUME NEW a, NEW b, NEW f, f # "TO_JSON_STRING", b \in Chain, Follows(b, a), Simple(b)
    PROVE  LET c == LowerCall(f, b)
           IN  /\ c \in Chain /\ Follows(c, a) /\ Simple(c) /\ LoweredIn(c, f)
               /\ \A g : LoweredIn(b, g) => LoweredIn(c, g)
  <1> DEFINE c == LowerCall(f, b)
  <1>1. Follows(c, b) /\ c.leaf = b.leaf
        /\ \A i \in DOMAIN b.calls : b.calls[i].fn # f => c.calls[i] = b.calls[i]
    BY LowerCallFollows
  <1>2. LoweredIn(c, f)
    BY LowerCallWhole
  <1> HIDE DEF c
  <1>3. Simple(c)
    BY <1>1, StaysSimple
  <1>4. Follows(c, a) /\ \A g : LoweredIn(b, g) => LoweredIn(c, g)
    BY <1>1, FollowsAgain
  <1> QED BY <1>1, <1>2, <1>3, <1>4 DEF Follows, c

\* A rewrite by name of a simple chain.
LEMMA NamedStep ==
    ASSUME NEW a, NEW b, NEW f, f # "TO_JSON_STRING", b \in Chain, Follows(b, a), Simple(b)
    PROVE  LET c == LowerNamed(f, b)
           IN  /\ c \in Chain /\ Follows(c, a) /\ Simple(c) /\ LoweredIn(c, f)
               /\ \A g : LoweredIn(b, g) => LoweredIn(c, g)
  <1> DEFINE c == LowerNamed(f, b)
  <1>1. Follows(c, b) /\ c.leaf = b.leaf /\ LoweredIn(c, f)
        /\ \A i \in DOMAIN b.calls : b.calls[i].fn # f => c.calls[i] = b.calls[i]
    BY LowerNamedFollows
  <1> HIDE DEF c
  <1>2. Simple(c)
    BY <1>1, StaysSimple
  <1>3. Follows(c, a) /\ \A g : LoweredIn(b, g) => LoweredIn(c, g)
    BY <1>1, FollowsAgain
  <1> QED BY <1>1, <1>2, <1>3 DEF Follows, c

\* Stripping the parentheses of CURRENT_TIMESTAMP() touches no call.
LEMMA LeafStep ==
    ASSUME NEW ch \in Chain
    PROVE  LET r == LowerCurrentTimestamp(ch)
           IN  Follows(r, ch) /\ r.calls = ch.calls
  BY DEF LowerCurrentTimestamp, Follows, Chain, Leaves

\* All the rewrites of calls (lowering.go:54-85) make a chain of a chain.
LEMMA LowerCallsType == ASSUME NEW ch \in Chain PROVE LowerCalls(ch) \in Chain
  <1>1. \A f, x : x \in Chain => LowerCall(f, x) \in Chain /\ LowerNamed(f, x) \in Chain
    BY LowerCallFollows, LowerNamedFollows DEF Follows
  <1>2. LowerTimestamps(ch) \in Chain
    BY <1>1 DEF LowerTimestamps
  <1>3. LowerDates(LowerTimestamps(ch)) \in Chain
    BY <1>1, <1>2 DEF LowerDates
  <1>4. LowerCall("TO_JSON_STRING", LowerNamed("SAFE_CAST", LowerNamed("COUNTIF",
            LowerDates(LowerTimestamps(ch))))) \in Chain
    BY <1>1, <1>3
  <1> QED BY <1>4, LeafStep DEF LowerCalls, Follows

\* The rewrites, in the order they are registered (lowering.go:54-85), leave none of
\* GoogleSQL's calls in a chain that names no function twice and nests no argument more
\* than two levels deep.
THEOREM LowersWhole ==
    ASSUME NEW ch \in Chain, Simple(ch)
    PROVE  \A i \in DOMAIN LowerCalls(ch).calls : LowerCalls(ch).calls[i].lowered
  <1> DEFINE a == LowerCall("TIMESTAMP_SUB", ch)
             b == LowerCall("TIMESTAMP_ADD", a)
             c == LowerCall("TIMESTAMP_TRUNC", b)
             d == LowerCall("DATE_SUB", c)
             e == LowerCall("DATE_ADD", d)
             f == LowerCall("DATE", e)
             g == LowerNamed("COUNTIF", f)
             h == LowerNamed("SAFE_CAST", g)
             k == LowerCall("TO_JSON_STRING", h)
  <1>0. Follows(ch, ch)
    BY DEF Follows
  <1>1. a \in Chain /\ Follows(a, ch) /\ Simple(a) /\ LoweredIn(a, "TIMESTAMP_SUB")
    BY <1>0, PassStep
  <1>2. /\ b \in Chain /\ Follows(b, ch) /\ Simple(b)
        /\ LoweredIn(b, "TIMESTAMP_SUB") /\ LoweredIn(b, "TIMESTAMP_ADD")
    <2> HIDE DEF a
    <2> QED BY <1>1, PassStep
  <1>3. /\ c \in Chain /\ Follows(c, ch) /\ Simple(c)
        /\ \A fn \in {"TIMESTAMP_SUB", "TIMESTAMP_ADD", "TIMESTAMP_TRUNC"} : LoweredIn(c, fn)
    <2> HIDE DEF b
    <2> QED BY <1>2, PassStep
  <1>4. /\ d \in Chain /\ Follows(d, ch) /\ Simple(d)
        /\ \A fn \in {"TIMESTAMP_SUB", "TIMESTAMP_ADD", "TIMESTAMP_TRUNC", "DATE_SUB"} :
              LoweredIn(d, fn)
    <2> HIDE DEF c
    <2> QED BY <1>3, PassStep
  <1>5. /\ e \in Chain /\ Follows(e, ch) /\ Simple(e)
        /\ \A fn \in {"TIMESTAMP_SUB", "TIMESTAMP_ADD", "TIMESTAMP_TRUNC", "DATE_SUB", "DATE_ADD"} :
              LoweredIn(e, fn)
    <2> HIDE DEF d
    <2> QED BY <1>4, PassStep
  <1>6. /\ f \in Chain /\ Follows(f, ch) /\ Simple(f)
        /\ \A fn \in ArgumentCalls \ {"TO_JSON_STRING"} : LoweredIn(f, fn)
    <2> HIDE DEF e
    <2>1. /\ f \in Chain /\ Follows(f, ch) /\ Simple(f) /\ LoweredIn(f, "DATE")
          /\ \A fn : LoweredIn(e, fn) => LoweredIn(f, fn)
      BY <1>5, PassStep
    <2> HIDE DEF f
    <2> QED BY <1>5, <2>1 DEF ArgumentCalls
  <1>7. /\ g \in Chain /\ Follows(g, ch) /\ Simple(g)
        /\ \A fn \in (ArgumentCalls \ {"TO_JSON_STRING"}) \cup {"COUNTIF"} : LoweredIn(g, fn)
    <2> HIDE DEF f
    <2> QED BY <1>6, NamedStep
  <1>8. /\ h \in Chain /\ Follows(h, ch) /\ Simple(h)
        /\ \A fn \in (ArgumentCalls \ {"TO_JSON_STRING"}) \cup NamedCalls : LoweredIn(h, fn)
    <2> HIDE DEF g
    <2> QED BY <1>7, NamedStep DEF NamedCalls
  <1>9. k \in Chain /\ \A fn \in ArgumentCalls \cup NamedCalls : LoweredIn(k, fn)
    <2> HIDE DEF h
    <2>1. Follows(k, h) /\ k \in Chain
      BY <1>8, LowerCallFollows DEF Follows
    <2>2. LoweredIn(k, "TO_JSON_STRING")
      BY <1>8, LowerCallWhole
    <2>3. \A fn : LoweredIn(h, fn) => LoweredIn(k, fn)
      BY <2>1 DEF Follows, LoweredIn
    <2> QED BY <1>8, <2>1, <2>2, <2>3
  <1>10. LowerCalls(ch) = LowerCurrentTimestamp(k)
    BY DEF LowerCalls, LowerDates, LowerTimestamps
  <1> HIDE DEF k
  <1>11. \A i \in DOMAIN k.calls : k.calls[i].fn \in ArgumentCalls \cup NamedCalls
    <2>1. k.calls \in Seq(Call)
      BY <1>9 DEF Chain
    <2>2. \A x \in Call : x.fn \in ArgumentCalls \cup NamedCalls
      BY DEF Call
    <2> QED BY <2>1, <2>2
  <1> QED BY <1>9, <1>10, <1>11, LeafStep DEF LoweredIn

\* Lower makes a text of a text.
LEMMA LowerType == ASSUME NEW t \in Text PROVE Lower(t) \in Text
  <1> DEFINE u == [t EXCEPT !.chain = LowerCalls(t.chain)]
  <1>1. u \in Text
    BY LowerCallsType DEF Text
  <1>2. [calls |-> <<>>, leaf |-> "column"] \in Chain
    BY DEF Chain, Leaves
  <1>3. LoadToInsert(u) \in Text
    BY <1>1, <1>2 DEF LoadToInsert, Text, Kinds, DuckKinds
  <1> QED BY <1>1, <1>3 DEF Lower, LowerLoadData
=============================================================================
