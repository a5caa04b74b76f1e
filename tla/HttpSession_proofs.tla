------------------------ MODULE HttpSession_proofs -------------------------
(***************************************************************************)
(* Proofs about HttpSession, for any requests, any number of them on the   *)
(* connection, any file and any chunk.                                     *)
(*                                                                         *)
(* The layout of the wire carries the argument: the heads of the requests  *)
(* lie on it in order, and what the parser has passed (m_max_ptr) always   *)
(* separates the heads of the requests that were begun from those that     *)
(* were not.  So the rest of a read that FinishRequest keeps begins in     *)
(* front of the next request's head, whatever else the read held.          *)
(***************************************************************************)
EXTENDS HttpSession, DataLemmas

ScriptOK == \E n \in 1 .. MaxRequests : script \in [1 .. n -> Requests]

-----------------------------------------------------------------------------
(* The wire *)

LEMMA TokensFacts ==
    ASSUME NEW i \in 1 .. MaxRequests
    PROVE  /\ Tokens(i) \in Seq(Token)
           /\ Len(Tokens(i)) \in 1 .. 3
           /\ Tokens(i)[1] = [req |-> i, part |-> "head"]
           /\ \A k \in 1 .. Len(Tokens(i)) : Tokens(i)[k].req = i
           /\ \A k \in 2 .. Len(Tokens(i)) : Tokens(i)[k].part # "head"
           /\ Last(Tokens(i)) = Tokens(i)[Len(Tokens(i))]
<1>. DEFINE T(parts) == [k \in DOMAIN parts |-> [req |-> i, part |-> parts[k]]]
            Ok(t) == /\ t \in Seq(Token)
                     /\ Len(t) \in 1 .. 3
                     /\ t[1] = [req |-> i, part |-> "head"]
                     /\ \A k \in 1 .. Len(t) : t[k].req = i
                     /\ \A k \in 2 .. Len(t) : t[k].part # "head"
<1>1. Ok(T(<<"head", "blank", "body">>))
  BY DEF Token
<1>2. Ok(T(<<"head", "blank">>))
  BY DEF Token
<1>3. Ok(T(<<"head">>))
  BY DEF Token
<1>4. Parts(i) \in {<<"head", "blank", "body">>, <<"head", "blank">>, <<"head">>}
  BY DEF Parts
<1>5. Tokens(i) = T(Parts(i))
  BY DEF Tokens
<1>6. Ok(Tokens(i))
  <2>. HIDE DEF Ok, T
  <2>. QED
    BY <1>1, <1>2, <1>3, <1>4, <1>5
<1>. QED
  BY <1>6 DEF Last

\* w holds the tokens of the requests 1 .. n.
Layout(w, n) ==
    /\ w \in Seq(Token)
    /\ \A k \in 1 .. Len(w) : w[k].req \in 1 .. n
    /\ \A k, l \in 1 .. Len(w) : k < l => w[k].req <= w[l].req
    /\ \A k, l \in 1 .. Len(w) : k < l /\ w[l].part = "head" => w[k].req < w[l].req
    /\ \A i \in 1 .. n : \E k \in 1 .. Len(w) : w[k].req = i /\ w[k].part = "head"
    /\ \A i \in 1 .. n : \E k \in 1 .. Len(w) : w[k] = Last(Tokens(i))

LEMMA LayoutGrows ==
    ASSUME NEW n \in Nat, n + 1 <= MaxRequests, MaxRequests \in Nat, NEW w, Layout(w, n)
    PROVE  Layout(w \o Tokens(n + 1), n + 1)
<1>. DEFINE t == Tokens(n + 1)
            v == w \o t
<1>1. n + 1 \in 1 .. MaxRequests
  OBVIOUS
<1>2. /\ t \in Seq(Token) /\ Len(t) \in 1 .. 3
      /\ t[1] = [req |-> n + 1, part |-> "head"]
      /\ \A k \in 1 .. Len(t) : t[k].req = n + 1
      /\ \A k \in 2 .. Len(t) : t[k].part # "head"
      /\ Last(t) = t[Len(t)]
  BY <1>1, TokensFacts
<1>3. w \in Seq(Token) /\ Len(w) \in Nat
  BY LenProperties DEF Layout
<1>. HIDE DEF t
<1>4. PICK a \in Nat : a = Len(w)
  BY <1>3
<1>14. PICK b \in 1 .. 3 : b = Len(t)
  BY <1>2
<1>15. /\ \A k \in 1 .. a : w[k].req \in 1 .. n
       /\ \A k, l \in 1 .. a : k < l => w[k].req <= w[l].req
       /\ \A k, l \in 1 .. a : k < l /\ w[l].part = "head" => w[k].req < w[l].req
  BY <1>4 DEF Layout
<1>16. /\ \A i \in 1 .. n : \E k \in 1 .. a : w[k].req = i /\ w[k].part = "head"
       /\ \A i \in 1 .. n : \E k \in 1 .. a : w[k] = Last(Tokens(i))
  BY <1>4 DEF Layout
<1>5. /\ v \in Seq(Token) /\ Len(v) = a + b
      /\ \A k \in 1 .. a : v[k] = w[k]
      /\ \A k \in a + 1 .. a + b : v[k] = t[k - a] /\ k - a \in 1 .. b
      /\ \A k \in 1 .. a + b : k \in 1 .. a \/ k \in a + 1 .. a + b
  BY <1>2, <1>3, <1>4, <1>14, ConcatProperties
<1>. HIDE DEF v
<1>7. \A k \in a + 1 .. a + b : v[k].req = n + 1 /\ (v[k].part = "head" => k = a + 1)
  BY <1>2, <1>14, <1>5
<1>8. \A k \in 1 .. a + b : v[k].req \in 1 .. n + 1
  BY <1>5, <1>15, <1>7
<1>9. \A k, l \in 1 .. a + b : k < l => v[k].req <= v[l].req
  <2>. SUFFICES ASSUME NEW k \in 1 .. a + b, NEW l \in 1 .. a + b, k < l
                PROVE  v[k].req <= v[l].req
    OBVIOUS
  <2>1. CASE l \in 1 .. a
    BY <2>1, <1>5, <1>15, SMTT(30)
  <2>2. CASE l \in a + 1 .. a + b
    BY <2>2, <1>7, <1>8
  <2>. QED
    BY <1>5, <2>1, <2>2
<1>10. \A k, l \in 1 .. a + b : k < l /\ v[l].part = "head" => v[k].req < v[l].req
  <2>. SUFFICES ASSUME NEW k \in 1 .. a + b, NEW l \in 1 .. a + b, k < l, v[l].part = "head"
                PROVE  v[k].req < v[l].req
    OBVIOUS
  <2>1. CASE l \in 1 .. a
    BY <2>1, <1>5, <1>15
  <2>2. CASE l \in a + 1 .. a + b
    <3>1. l = a + 1 /\ k \in 1 .. a
      BY <2>2, <1>7
    <3>. QED
      BY <2>2, <3>1, <1>5, <1>15, <1>7
  <2>. QED
    BY <1>5, <2>1, <2>2
<1>11. ASSUME NEW i \in 1 .. n + 1
       PROVE  \E k \in 1 .. a + b : v[k].req = i /\ v[k].part = "head"
  <2>1. CASE i = n + 1
    <3>1. a + 1 \in a + 1 .. a + b /\ (a + 1) - a = 1
      OBVIOUS
    <3>2. v[a + 1] = t[1]
      BY <3>1, <1>5
    <3>. QED
      BY <2>1, <3>1, <3>2, <1>2, <1>5
  <2>2. CASE i \in 1 .. n
    <3>1. PICK k \in 1 .. a : w[k].req = i /\ w[k].part = "head"
      BY <2>2, <1>16
    <3>2. k \in 1 .. a + b /\ v[k] = w[k]
      BY <1>5
    <3>. QED
      BY <3>1, <3>2
  <2>. QED
    BY <2>1, <2>2
<1>12. ASSUME NEW i \in 1 .. n + 1
       PROVE  \E k \in 1 .. a + b : v[k] = Last(Tokens(i))
  <2>1. CASE i = n + 1
    <3>1. a + b \in a + 1 .. a + b /\ (a + b) - a = b
      OBVIOUS
    <3>3. v[a + b] = t[b]
      BY <3>1, <1>5
    <3>2. Last(Tokens(i)) = t[b]
      BY <2>1, <1>2, <1>14 DEF t
    <3>. QED
      BY <3>1, <3>2, <3>3
  <2>2. CASE i \in 1 .. n
    <3>1. PICK k \in 1 .. a : w[k] = Last(Tokens(i))
      BY <2>2, <1>16
    <3>2. k \in 1 .. a + b /\ v[k] = w[k]
      BY <1>5
    <3>. QED
      BY <3>1, <3>2
  <2>. QED
    BY <2>1, <2>2
<1>13. Layout(v, n + 1)
  BY <1>5, <1>8, <1>9, <1>10, <1>11, <1>12 DEF Layout
<1>. QED
  BY <1>13 DEF v, t

LEMMA WireLayout ==
    ASSUME NEW n \in 1 .. MaxRequests, MaxRequests \in Nat, script \in [1 .. n -> Requests]
    PROVE  Layout(Wire, n)
<1>. DEFINE first(m) == [i \in 1 .. m |-> Tokens(i)]
            P == {m \in 0 .. n : Layout(FlattenSeq(first(m)), m)}
<1>1. ASSUME NEW i \in 1 .. n PROVE Tokens(i) \in Seq(Token)
  <2>1. i \in 1 .. MaxRequests
    OBVIOUS
  <2>. QED
    BY <2>1, TokensFacts
<1>2. \A m \in 0 .. n : first(m) \in Seq(Seq(Token))
  <2>. SUFFICES ASSUME NEW m \in 0 .. n PROVE first(m) \in Seq(Seq(Token))
    OBVIOUS
  <2>1. \A i \in 1 .. m : Tokens(i) \in Seq(Token)
    BY <1>1
  <2>. QED
    BY <2>1
<1>3. 0 \in P
  <2>1. first(0) = <<>>
    OBVIOUS
  <2>2. Layout(<<>>, 0)
    BY DEF Layout
  <2>. QED
    BY <2>1, <2>2, FlattenEmpty
<1>4. ASSUME NEW m \in 0 .. n - 1, m \in P PROVE m + 1 \in P
  <2>1. first(m) \in Seq(Seq(Token)) /\ Tokens(m + 1) \in Seq(Token)
    BY <1>1, <1>2
  <2>2. first(m + 1) = Append(first(m), Tokens(m + 1))
    OBVIOUS
  <2>3. FlattenSeq(Append(first(m), Tokens(m + 1))) = FlattenSeq(first(m)) \o Tokens(m + 1)
    <3>. HIDE DEF first
    <3>. QED
      BY <2>1, FlattenAppend
  <2>4. m \in Nat /\ m + 1 <= MaxRequests /\ m + 1 \in 0 .. n
    OBVIOUS
  <2>5. Layout(FlattenSeq(first(m)), m)
    BY <1>4
  <2>. HIDE DEF first
  <2>6. Layout(FlattenSeq(first(m + 1)), m + 1)
    BY <2>2, <2>3, <2>4, <2>5, LayoutGrows
  <2>. QED
    BY <2>4, <2>6
<1>5. n \in P
  <2>. HIDE DEF P
  <2>. QED
    BY <1>3, <1>4, InductionTo
<1>6. Wire = FlattenSeq(first(n))
  BY DEF Wire
<1>. QED
  BY <1>5, <1>6

-----------------------------------------------------------------------------
(* Responses.  Item is one write.                                              *)

Written ==
    [req: 1 .. MaxRequests, part: {"header", "data"}, status: Nat, at: Int, n: Nat]

Share(item, i) == IF item.req = i /\ item.part = "data" THEN item.n ELSE 0
Shares(out, i) == [k \in 1 .. Len(out) |-> Share(out[k], i)]

LEMMA SentIsSum ==
    ASSUME NEW out \in Seq(Written), NEW i
    PROVE  /\ Sent(out, i) \in Nat
           /\ \E f : Summed(Len(out), Shares(out, i), f) /\ Sent(out, i) = f[Len(out)]
<1>1. Len(out) \in Nat /\ \A k \in 1 .. Len(out) : out[k] \in Written
  BY LenProperties, ElementOfSeq
<1>2. PICK n \in Nat : n = Len(out)
  BY <1>1
<1>3. \A k \in 1 .. n : Share(out[k], i) \in Nat
  BY <1>1, <1>2 DEF Share, Written
<1>4. Shares(out, i) \in [1 .. n -> Nat]
  BY <1>2, <1>3 DEF Shares
<1>. DEFINE Eq(f) == f = [k \in 0 .. n |-> IF k = 0 THEN 0 ELSE f[k - 1] + Share(out[k], i)]
<1>5. PICK f \in [0 .. n -> Nat] : Summed(n, Shares(out, i), f)
  BY <1>4, SumExists
<1>6. Eq(f)
  <2>1. \A k \in 0 .. n : k # 0 => k \in 1 .. n
    OBVIOUS
  <2>2. \A k \in 1 .. n : Shares(out, i)[k] = Share(out[k], i)
    BY <1>2 DEF Shares
  <2>. QED
    BY <1>5, <2>1, <2>2 DEF Summed
<1>7. Sent(out, i) = (CHOOSE g : Eq(g))[n]
  BY <1>2 DEF Sent, Share
<1>8. PICK g : Eq(g) /\ Sent(out, i) = g[n]
  <2>. HIDE DEF Eq
  <2>. QED
    BY <1>6, <1>7
<1>9. Summed(n, Shares(out, i), g)
  <2>1. \A k \in 0 .. n : k # 0 => k \in 1 .. n
    OBVIOUS
  <2>2. \A k \in 1 .. n : Shares(out, i)[k] = Share(out[k], i)
    BY <1>2 DEF Shares
  <2>. QED
    BY <1>8, <2>1, <2>2 DEF Summed
<1>10. f[n] = g[n]
  BY <1>5, <1>9, SumsAgree
<1>. QED
  BY <1>2, <1>5, <1>8, <1>9, <1>10

LEMMA SentAppend ==
    ASSUME NEW out \in Seq(Written), NEW x \in Written, NEW i
    PROVE  Sent(Append(out, x), i) = Sent(out, i) + Share(x, i)
<1>. DEFINE more == Append(out, x)
<1>1. PICK n \in Nat : n = Len(out)
  BY LenProperties
<1>2. /\ more \in Seq(Written) /\ Len(more) = n + 1
      /\ \A k \in 1 .. n : more[k] = out[k]
      /\ more[n + 1] = x
  BY <1>1, AppendProperties
<1>. HIDE DEF more
<1>3. PICK f : Summed(n, Shares(out, i), f) /\ Sent(out, i) = f[n]
  BY <1>1, SentIsSum
<1>4. PICK g : Summed(n + 1, Shares(more, i), g) /\ Sent(more, i) = g[n + 1]
  BY <1>2, SentIsSum
<1>5. \A k \in 1 .. n : Shares(out, i)[k] = Shares(more, i)[k]
  BY <1>1, <1>2 DEF Shares
<1>6. f[n] = g[n]
  <2>1. n + 1 \in Nat /\ n <= n + 1
    OBVIOUS
  <2>. QED
    BY <1>3, <1>4, <1>5, <2>1, SumsAgree
<1>7. g[n + 1] = g[n] + Shares(more, i)[n + 1]
  <2>1. n + 1 \in 0 .. n + 1 /\ n + 1 # 0 /\ (n + 1) - 1 = n
    OBVIOUS
  <2>. QED
    BY <1>4, <2>1 DEF Summed
<1>8. Shares(more, i)[n + 1] = Share(x, i)
  <2>1. n + 1 \in 1 .. n + 1
    OBVIOUS
  <2>. QED
    BY <1>2, <2>1 DEF Shares
<1>. QED
  BY <1>3, <1>4, <1>6, <1>7, <1>8 DEF more

LEMMA SentNone ==
    ASSUME NEW out \in Seq(Written), NEW i, \A k \in 1 .. Len(out) : out[k].req # i
    PROVE  Sent(out, i) = 0
<1>1. PICK n \in Nat : n = Len(out)
  BY LenProperties
<1>. DEFINE w == Shares(out, i)
            z == [k \in 0 .. n |-> 0]
<1>2. \A k \in 1 .. n : w[k] = 0
  BY <1>1 DEF Shares, Share
<1>3. PICK f : Summed(n, w, f) /\ Sent(out, i) = f[n]
  BY <1>1, SentIsSum
<1>4. Summed(n, w, z)
  <2>1. \A k \in 0 .. n : k # 0 => k \in 1 .. n /\ k - 1 \in 0 .. n
    OBVIOUS
  <2>. HIDE DEF w
  <2>. QED
    BY <1>2, <2>1 DEF Summed
<1>5. f[n] = z[n]
  <2>. HIDE DEF w, z
  <2>. QED
    BY <1>3, <1>4, SumsAgree
<1>. QED
  BY <1>3, <1>5

UpTo(out, i) == \A k \in 1 .. Len(out) : out[k].req <= i

\* All requests up to d are answered, and nothing else is written.
Done(out, d) ==
    /\ out \in Seq(Written) /\ InOrder(out) /\ UpTo(out, d)
    /\ d # 0 => out # <<>> /\ out[Len(out)].req = d /\ Complete(out, d)

\* Where the next data must begin.
NextAt(out) ==
    LET last == out[Len(out)]
    IN  IF last.part = "data" THEN last.at + last.n
        ELSE IF last.status = 206 THEN script[last.req].from ELSE 0

\* The response of i has begun: s of total bytes are written, and the next ones are at pos.
Begun(out, i, total, s, pos) ==
    /\ out \in Seq(Written) /\ InOrder(out) /\ UpTo(out, i)
    /\ out # <<>> /\ out[Len(out)].req = i
    /\ \E k \in 1 .. Len(out) :
           /\ out[k].req = i /\ out[k].part = "header"
           /\ Due(out[k]) = total /\ Due(out[k]) <= Promised(out[k])
    /\ Sent(out, i) = s
    /\ NextAt(out) = pos

LEMMA AppendFacts ==
    ASSUME NEW out \in Seq(Written), NEW x \in Written, NEW n, n = Len(out)
    PROVE  /\ n \in Nat
           /\ Append(out, x) \in Seq(Written) /\ Append(out, x) # <<>>
           /\ Len(Append(out, x)) = n + 1
           /\ \A k \in 1 .. n : Append(out, x)[k] = out[k]
           /\ Append(out, x)[n + 1] = x
           /\ \A k \in 1 .. n : out[k] \in Written
           /\ out # <<>> <=> n > 0
<1>1. Len(out) \in Nat /\ (out # <<>> <=> Len(out) > 0) /\ \A k \in 1 .. Len(out) : out[k] \in Written
  BY LenProperties, ElementOfSeq, EmptySeq
<1>. QED
  BY <1>1, AppendProperties

LEMMA CompleteKept ==
    ASSUME NEW out \in Seq(Written), NEW x \in Written, NEW j, x.req # j, Complete(out, j)
    PROVE  Complete(Append(out, x), j)
<1>. DEFINE more == Append(out, x)
<1>1. PICK n : n = Len(out)
  OBVIOUS
<1>2. /\ n \in Nat /\ Len(more) = n + 1
      /\ \A k \in 1 .. n : more[k] = out[k]
  BY <1>1, AppendFacts
<1>3. Sent(more, j) = Sent(out, j)
  <2>1. Share(x, j) = 0 /\ Sent(out, j) \in Nat
    BY SentIsSum DEF Share
  <2>. QED
    BY <2>1, SentAppend
<1>. HIDE DEF more
<1>4. PICK k \in 1 .. n : /\ out[k].req = j /\ out[k].part = "header"
                          /\ Sent(out, j) = Due(out[k]) /\ Due(out[k]) <= Promised(out[k])
  BY <1>1 DEF Complete
<1>5. Complete(more, j)
  BY <1>2, <1>3, <1>4 DEF Complete
<1>. QED
  BY <1>5 DEF more

LEMMA InOrderGrows ==
    ASSUME NEW out \in Seq(Written), NEW x \in Written, NEW i \in Nat,
           out # <<>>, InOrder(out), UpTo(out, i), x.req >= i,
           Follows(Append(out, x), Len(out))
    PROVE  InOrder(Append(out, x))
<1>. DEFINE more == Append(out, x)
<1>1. PICK n : n = Len(out)
  OBVIOUS
<1>2. /\ n \in Nat /\ n > 0 /\ Len(more) = n + 1 /\ more # <<>>
      /\ \A k \in 1 .. n : more[k] = out[k] /\ out[k] \in Written
  BY <1>1, AppendFacts
<1>3. Follows(more, n)
  BY <1>1
<1>4. \A j : x.req # j /\ Complete(out, j) => Complete(more, j)
  BY CompleteKept
<1>. HIDE DEF more
<1>5. out[1].req = 1 /\ out[1].part = "header" /\ \A k \in 1 .. n - 1 : Follows(out, k)
  BY <1>1 DEF InOrder
<1>6. ASSUME NEW k \in 1 .. n - 1 PROVE Follows(more, k)
  <2>1. k \in 1 .. n /\ k + 1 \in 1 .. n /\ more[k] = out[k] /\ more[k + 1] = out[k + 1]
    BY <1>2
  <2>2. Complete(out, out[k].req) /\ out[k + 1].req = out[k].req + 1 => Complete(more, out[k].req)
    <3>0. \A m \in 1 .. n : out[m].req <= i
      BY <1>1 DEF UpTo
    <3>1. out[k + 1].req <= i
      BY <2>1, <3>0
    <3>2. x.req \in Nat /\ out[k].req \in Nat /\ out[k + 1].req \in Nat
      <4>1. \A y \in Written : y.req \in Nat
        BY DEF Written
      <4>2. out[k] \in Written /\ out[k + 1] \in Written
        BY <1>2, <2>1
      <4>. QED
        BY <4>1, <4>2
    <3>. QED
      BY <3>1, <3>2, <1>4
  <2>. QED
    BY <1>5, <2>1, <2>2 DEF Follows
<1>7. \A k \in 1 .. Len(more) - 1 : Follows(more, k)
  BY <1>2, <1>3, <1>6
<1>8. InOrder(more)
  BY <1>2, <1>5, <1>7 DEF InOrder
<1>. QED
  BY <1>8 DEF more

\* The header of the next request.
LEMMA HeaderFollows ==
    ASSUME NEW out, NEW i \in 1 .. MaxRequests, Done(out, i - 1),
           NEW x \in Written, x.req = i, x.part = "header", Due(x) <= Promised(x)
    PROVE  Begun(Append(out, x), i, Due(x), 0,
                 IF x.status = 206 THEN script[i].from ELSE 0)
<1>. DEFINE more == Append(out, x)
<1>0. out \in Seq(Written)
  BY DEF Done
<1>1. PICK n : n = Len(out)
  OBVIOUS
<1>2. /\ n \in Nat /\ Len(more) = n + 1 /\ more # <<>> /\ more \in Seq(Written)
      /\ \A k \in 1 .. n : more[k] = out[k] /\ out[k] \in Written
      /\ more[n + 1] = x
      /\ out # <<>> <=> n > 0
  BY <1>0, <1>1, AppendFacts
<1>3. \A k \in 1 .. n : out[k].req <= i - 1 /\ out[k].req \in Nat
  BY <1>1, <1>2, SMTT(30) DEF Done, UpTo, Written
<1>4. Sent(more, i) = 0
  <2>1. Sent(out, i) = 0
    <3>1. \A k \in 1 .. Len(out) : out[k].req # i
      BY <1>1, <1>3
    <3>. QED
      BY <1>0, <3>1, SentNone
  <2>2. Share(x, i) = 0
    BY DEF Share
  <2>. QED
    BY <1>0, <2>1, <2>2, SentAppend
<1>5. InOrder(more)
  <2>1. CASE n = 0
    <3>1. more[1].req = 1
      <4>1. i = 1
        BY <2>1, <1>2 DEF Done
      <4>. QED
        BY <2>1, <4>1, <1>2
    <3>. QED
      BY <2>1, <3>1, <1>2 DEF InOrder
  <2>2. CASE n > 0
    <3>1. out[n].req = i - 1 /\ Complete(out, i - 1)
      <4>1. n \in 1 .. n /\ out[n].req \in 1 .. MaxRequests
        BY <2>2, <1>2 DEF Written
      <4>2. i - 1 # 0
        BY <4>1, <1>3
      <4>. QED
        BY <4>2, <1>1 DEF Done
    <3>2. Complete(more, i - 1)
      BY <3>1, <1>0, CompleteKept
    <3>3. Follows(more, n)
      <4>1. n \in 1 .. n /\ more[n] = out[n] /\ x.req = out[n].req + 1
        BY <2>2, <1>2, <3>1
      <4>. HIDE DEF more
      <4>. QED
        BY <4>1, <3>1, <3>2, <1>2 DEF Follows
    <3>4. i - 1 \in Nat /\ x.req >= i - 1
      OBVIOUS
    <3>5. InOrder(out) /\ UpTo(out, i - 1)
      BY DEF Done
    <3>. QED
      BY <1>0, <1>1, <1>2, <2>2, <3>3, <3>4, <3>5, InOrderGrows
  <2>. QED
    BY <1>2, <2>1, <2>2
<1>. HIDE DEF more
<1>6. UpTo(more, i)
  <2>1. \A k \in 1 .. n + 1 : k = n + 1 \/ k \in 1 .. n
    BY <1>2
  <2>. QED
    BY <1>2, <1>3, <2>1 DEF UpTo
<1>7. NextAt(more) = IF x.status = 206 THEN script[i].from ELSE 0
  BY <1>2 DEF NextAt
<1>8. n + 1 \in 1 .. Len(more)
  BY <1>2
<1>9. Begun(more, i, Due(x), 0, IF x.status = 206 THEN script[i].from ELSE 0)
  BY <1>2, <1>4, <1>5, <1>6, <1>7, <1>8 DEF Begun
<1>. QED
  BY <1>9 DEF more

\* The next data of the response.
LEMMA DataFollows ==
    ASSUME NEW out, NEW i \in 1 .. MaxRequests, NEW total, NEW s \in Nat, NEW pos \in Int,
           Begun(out, i, total, s, pos),
           NEW x \in Written, x.req = i, x.part = "data", x.at = pos
    PROVE  Begun(Append(out, x), i, total, s + x.n, pos + x.n)
<1>. DEFINE more == Append(out, x)
<1>0. out \in Seq(Written) /\ out # <<>>
  BY DEF Begun
<1>1. PICK n : n = Len(out)
  OBVIOUS
<1>2. /\ n \in Nat /\ n > 0 /\ Len(more) = n + 1 /\ more # <<>> /\ more \in Seq(Written)
      /\ \A k \in 1 .. n : more[k] = out[k] /\ out[k] \in Written
      /\ more[n + 1] = x
  BY <1>0, <1>1, AppendFacts
<1>4. Sent(more, i) = s + x.n
  <2>1. Sent(out, i) = s /\ Share(x, i) = x.n
    BY DEF Begun, Share
  <2>. QED
    BY <1>0, <2>1, SentAppend
<1>5. InOrder(more)
  <2>1. n \in 1 .. n /\ more[n] = out[n]
    BY <1>2
  <2>2. out[n].req = i /\ NextAt(out) = pos
    BY <1>1 DEF Begun
  <2>3. pos = IF out[n].part = "data" THEN out[n].at + out[n].n
              ELSE IF out[n].status = 206 THEN script[out[n].req].from ELSE 0
    BY <1>1, <2>2 DEF NextAt
  <2>4. Follows(more, n)
    <3>. HIDE DEF more
    <3>. QED
      BY <1>2, <2>1, <2>2, <2>3 DEF Follows
  <2>5. InOrder(out) /\ UpTo(out, i) /\ x.req >= i
    BY DEF Begun
  <2>. QED
    BY <1>0, <1>1, <2>4, <2>5, InOrderGrows
<1>. HIDE DEF more
<1>6. UpTo(more, i)
  <2>1. \A k \in 1 .. n + 1 : k = n + 1 \/ k \in 1 .. n
    BY <1>2
  <2>2. \A k \in 1 .. n : out[k].req <= i
    BY <1>1 DEF Begun, UpTo
  <2>. QED
    BY <1>2, <2>1, <2>2 DEF UpTo
<1>7. NextAt(more) = pos + x.n
  BY <1>2 DEF NextAt
<1>8. \E k \in 1 .. n + 1 : /\ more[k].req = i /\ more[k].part = "header"
                            /\ Due(more[k]) = total /\ Due(more[k]) <= Promised(more[k])
  <2>1. PICK k \in 1 .. n : /\ out[k].req = i /\ out[k].part = "header"
                            /\ Due(out[k]) = total /\ Due(out[k]) <= Promised(out[k])
    BY <1>1 DEF Begun
  <2>. QED
    BY <1>2, <2>1
<1>9. Begun(more, i, total, s + x.n, pos + x.n)
  BY <1>2, <1>4, <1>5, <1>6, <1>7, <1>8 DEF Begun
<1>. QED
  BY <1>9 DEF more

LEMMA BegunEnds ==
    ASSUME NEW out, NEW i, NEW total, NEW pos, Begun(out, i, total, total, pos)
    PROVE  Done(out, i)
<1>1. Complete(out, i)
  BY DEF Begun, Complete
<1>. QED
  BY <1>1 DEF Begun, Done

-----------------------------------------------------------------------------
(* The inductive invariant.  h is the session within a callback, a how many    *)
(* tokens it has read.                                                         *)

\* The read that the parser is in is the last one.
Segment(h, a) ==
    /\ Len(h.ref) <= a
    /\ \A k \in 1 .. Len(h.ref) : h.ref[k] = Wire[a - Len(h.ref) + k]

\* The heads up to p are those of the requests before i.
Splits(p, i) ==
    \A k \in 1 .. Len(Wire) : Wire[k].part = "head" => (k > p <=> Wire[k].req >= i)

Unended(p, i) == \A k \in 1 .. Len(Wire) : Wire[k] = Last(Tokens(i)) => k > p

\* The parser has passed the head of the request that it is in, and no later one.
Passed(h, a) ==
    h.parsing \in DOMAIN script /\ Splits(a - Len(h.ref) + h.max, h.parsing + 1)

\* No request is in progress: the next one to answer has begun, or not.
Idle(h, a) == h.parsing = 0 /\ \E d \in 0 .. MaxRequests : Done(h.out, d) /\ Splits(a, d + 1)
Heading(h, a) ==
    /\ h.parsing > 0 /\ Done(h.out, h.parsing - 1) /\ Passed(h, a)
    /\ h.whole \/ (Splits(a, h.parsing + 1) /\ Unended(a, h.parsing))
Between(h, a) ==
    /\ h.current = 0 /\ h.reading /\ h.file = "none"
    /\ Idle(h, a) \/ Heading(h, a)

Status(i) == IF ParseRange(i) = NoRange THEN 200 ELSE 206
First(i) == IF ParseRange(i) = NoRange THEN 0 ELSE script[i].from
Total(h) ==
    IF ParseRange(h.current) = NoRange THEN h.size
    ELSE script[h.current].to - script[h.current].from + 1

\* The file lies open up to the last byte to send, and the next one is where the response ends.
Sending(h) ==
    /\ First(h.current) <= h.cur + 1 /\ 0 <= h.cur + 1
    /\ h.cur < h.end /\ h.end < h.size /\ h.end = First(h.current) + Total(h) - 1
    /\ \/ Done(h.out, h.current - 1) /\ h.cur + 1 = First(h.current)
       \/ Begun(h.out, h.current, Total(h), h.cur + 1 - First(h.current), h.cur + 1)

\* A request is being answered.
Serving(h, a) ==
    /\ h.current > 0 /\ ~ h.reading /\ Passed(h, a)
    /\ \/ h.file \in {"open", "stat"} /\ Done(h.out, h.current - 1)
       \/ h.file = "read" /\ Sending(h)
       \/ h.file = "held"

Working(h, a) ==
    /\ Segment(h, a) /\ h.pushed = <<>> /\ ~ h.upgrade
    /\ Between(h, a) \/ Serving(h, a)

Weights(out) == [k \in 1 .. Len(out) |-> Weight(out[k])]

\* The writes that are not reported are counted.
Paid(flying, buffered, out) ==
    /\ flying <= Len(out)
    /\ \E f \in [0 .. Len(out) -> Nat] :
           Summed(Len(out), Weights(out), f) /\ f[Len(out)] - f[Len(out) - flying] <= buffered

Typed(h) ==
    /\ h \in Session /\ h.current \in {0, h.parsing} /\ h.max <= Len(h.ref)
    /\ h.whole => h.parsing > 0 /\ h.life = "open"
    /\ InOrder(h.out)
    /\ Paid(h.flying, h.buffered, h.out)

Good(h, a) ==
    /\ Typed(h)
    /\ h.life # "aborted"
    /\ h.life = "open" => Working(h, a)

IInv ==
    /\ ScriptOK
    /\ arrived \in 0 .. Len(Wire)
    /\ disk \in [kind : {"none", "directory", "regular"}, size : 0 .. MaxSize]
    /\ shrunk \in BOOLEAN
    /\ faults \in 0 .. MaxFaults
    /\ Typed(http)
    /\ http.life = "aborted" => shrunk
    /\ http.life = "open" =>
           /\ Working(http, arrived)
           /\ http.current = 0 => ~ http.whole
           /\ http.file = "read" /\ ~ shrunk => http.size = disk.size

-----------------------------------------------------------------------------
(* Types of the operations                                                     *)

LEMMA GreatestNat ==
    ASSUME NEW n \in Nat, NEW T, T \subseteq 0 .. n, T # {}
    PROVE  Max(T) \in T /\ \A m \in T : m <= Max(T)
<1>. DEFINE U == {n - m : m \in T}
<1>1. U \subseteq Nat /\ U # {}
  <2>1. \A m \in T : n - m \in Nat
    OBVIOUS
  <2>. QED
    BY <2>1
<1>2. PICK u \in U : \A v \in U : u <= v
  <2>. HIDE DEF U
  <2>. QED
    BY <1>1, LeastNat
<1>3. PICK k \in T : u = n - k
  BY <1>2
<1>4. \A m \in T : k >= m
  <2>. SUFFICES ASSUME NEW m \in T PROVE k >= m
    OBVIOUS
  <2>1. n - m \in U
    OBVIOUS
  <2>. QED
    BY <2>1, <1>2, <1>3
<1>5. \E m \in T : \A y \in T : m >= y
  BY <1>4
<1>6. Max(T) = CHOOSE m \in T : \A y \in T : m >= y
  BY DEF Max
<1>7. Max(T) \in T /\ \A y \in T : Max(T) >= y
  BY <1>5, <1>6
<1>. QED
  BY <1>7

LEMMA SmallestNat ==
    ASSUME NEW T, T \subseteq Nat, T # {}
    PROVE  Min(T) \in T /\ \A m \in T : Min(T) <= m
<1>1. \E m \in T : \A y \in T : m <= y
  BY LeastNat
<1>2. Min(T) = CHOOSE m \in T : \A y \in T : m <= y
  BY DEF Min
<1>. QED
  BY <1>1, <1>2

LEMMA RefFacts ==
    ASSUME NEW h \in Session
    PROVE  /\ Len(h.ref) \in Nat /\ DOMAIN h.ref = 1 .. Len(h.ref)
           /\ \A k \in 1 .. Len(h.ref) : h.ref[k] \in Token
<1>1. h.ref \in Seq(Token)
  BY DEF Session
<1>. QED
  BY <1>1, LenProperties, ElementOfSeq

LEMMA FinishSessionType ==
    ASSUME NEW h \in Session
    PROVE  /\ FinishSession(h) \in Session
           /\ FinishSession(h).life = "finished" /\ ~ FinishSession(h).whole
           /\ FinishSession(h).ref = <<>> /\ FinishSession(h).max = 0
           /\ FinishSession(h).current = h.current /\ FinishSession(h).parsing = h.parsing
           /\ FinishSession(h).out = h.out /\ FinishSession(h).flying = 0
           /\ FinishSession(h).buffered = h.buffered
<1>1. <<>> \in Seq(Token)
  BY EmptySeq
<1>2. FinishSession(h) \in Session
  BY <1>1 DEF FinishSession, Session
<1>. QED
  BY <1>2 DEF FinishSession, Session

LEMMA WriteType ==
    ASSUME NEW h \in Session, NEW item \in Written
    PROVE  /\ ResponseWrite(h, item) \in Session
           /\ ResponseWrite(h, item) = [h EXCEPT !.out = Append(h.out, item),
                  !.flying = h.flying + 1, !.buffered = h.buffered + Weight(item)]
<1>1. Append(h.out, item) \in Seq(Written) /\ Weight(item) \in Int
  <2>1. h.out \in Seq(Written)
    BY DEF Session, Written
  <2>. QED
    BY <2>1, AppendProperties DEF Weight, Written
<1>2. ResponseWrite(h, item) = [h EXCEPT !.out = Append(h.out, item),
                  !.flying = h.flying + 1, !.buffered = h.buffered + Weight(item)]
  BY DEF ResponseWrite
<1>3. h.flying + 1 \in Nat /\ h.buffered + Weight(item) \in Int
  BY <1>1 DEF Session
<1>. QED
  BY <1>1, <1>2, <1>3, ZenonT(30) DEF Session, Written

Marked(h, i) == {k \in DOMAIN h.ref : h.ref[k].req = i /\ h.ref[k].part # "blank"}

LEMMA ParsedType ==
    ASSUME NEW h \in Session, NEW i \in 1 .. MaxRequests
    PROVE  /\ Parsed(h, i) \in Session
           /\ Parsed(h, i) = [h EXCEPT !.parsing = i, !.max = Parsed(h, i).max,
                                       !.whole = (Last(Tokens(i)) \in ToSet(h.ref))]
           /\ \/ Marked(h, i) = {} /\ Parsed(h, i).max = h.max
              \/ /\ Parsed(h, i).max \in Marked(h, i)
                 /\ \A k \in Marked(h, i) : k <= Parsed(h, i).max
<1>. DEFINE m == IF Marked(h, i) = {} THEN h.max ELSE Max(Marked(h, i))
<1>1. Marked(h, i) \subseteq 0 .. Len(h.ref) /\ Len(h.ref) \in Nat
  BY RefFacts DEF Marked
<1>2. Marked(h, i) # {} => /\ Max(Marked(h, i)) \in Marked(h, i)
                           /\ \A k \in Marked(h, i) : k <= Max(Marked(h, i))
  BY <1>1, GreatestNat
<1>3. m \in Nat
  BY <1>1, <1>2 DEF Session
<1>4. Parsed(h, i) = [h EXCEPT !.parsing = i, !.max = m, !.whole = (Last(Tokens(i)) \in ToSet(h.ref))]
  BY DEF Parsed, Marked
<1>5. Parsed(h, i).max = m
  BY <1>4 DEF Session
<1>6. Parsed(h, i) \in Session
  <2>1. (Last(Tokens(i)) \in ToSet(h.ref)) \in BOOLEAN /\ i \in 0 .. MaxRequests
    OBVIOUS
  <2>. HIDE DEF m
  <2>. QED
    BY <1>3, <1>4, <2>1, ZenonT(30) DEF Session
<1>. QED
  BY <1>2, <1>4, <1>5, <1>6

Heads(h) == {k \in DOMAIN h.ref : h.ref[k].part = "head"}
HeadOf(h) == h.ref[Min(Heads(h))].req

\* The request that the parser is in or begins.
Current(h) == IF h.parsing > 0 \/ Heads(h) = {} THEN h.parsing ELSE HeadOf(h)

LEMMA HeadsFacts ==
    ASSUME NEW h \in Session
    PROVE  /\ Heads(h) # {} => /\ Min(Heads(h)) \in 1 .. Len(h.ref)
                               /\ h.ref[Min(Heads(h))].part = "head"
                               /\ \A k \in Heads(h) : Min(Heads(h)) <= k
                               /\ HeadOf(h) \in 1 .. MaxRequests
           /\ Current(h) \in 0 .. MaxRequests
<1>1. Heads(h) \subseteq 1 .. Len(h.ref) /\ Len(h.ref) \in Nat
      /\ \A k \in Heads(h) : h.ref[k].part = "head" /\ h.ref[k] \in Token
  BY RefFacts DEF Heads
<1>2. Heads(h) # {} => Min(Heads(h)) \in Heads(h) /\ \A k \in Heads(h) : Min(Heads(h)) <= k
  <2>1. Heads(h) \subseteq Nat
    BY <1>1
  <2>. QED
    BY <2>1, SmallestNat
<1>3. Heads(h) # {} => HeadOf(h) \in 1 .. MaxRequests
  BY <1>1, <1>2 DEF HeadOf, Token
<1>4. h.parsing \in 0 .. MaxRequests
  BY DEF Session
<1>5. Current(h) \in 0 .. MaxRequests
  BY <1>3, <1>4 DEF Current
<1>. QED
  BY <1>1, <1>2, <1>3, <1>5

LEMMA ParserValue ==
    ASSUME NEW h \in Session
    PROVE  RunParser[h] = IF Current(h) = 0 THEN h
                          ELSE IF What(Current(h)) = "junk" THEN FinishSession(h)
                          ELSE Parsed(h, Current(h))
BY DEF RunParser, Current, Heads, HeadOf

\* What the parser leaves as it is.
LEMMA ParserType ==
    ASSUME NEW h \in Session, h.whole => h.parsing > 0
    PROVE  /\ RunParser[h] \in Parsing
           /\ h.parsing = 0 /\ ~ h.whole /\ RunParser[h].whole =>
                 RunParser[h].max > 0 /\ RunParser[h].ref = h.ref
<1>1. CASE Current(h) = 0
  BY <1>1, ParserValue DEF Parsing
<1>2. CASE Current(h) # 0 /\ What(Current(h)) = "junk"
  <2>1. RunParser[h] = FinishSession(h)
    BY <1>2, ParserValue
  <2>. QED
    BY <2>1, FinishSessionType DEF Parsing
<1>3. CASE Current(h) # 0 /\ What(Current(h)) # "junk"
  <2>1. PICK i \in 1 .. MaxRequests : i = Current(h)
    BY <1>3, HeadsFacts
  <2>2. PICK r \in Session : r = RunParser[h] /\ r = Parsed(h, i)
    BY <1>3, <2>1, ParserValue, ParsedType
  <2>3. r = [h EXCEPT !.parsing = i, !.max = r.max, !.whole = (Last(Tokens(i)) \in ToSet(h.ref))]
    BY <2>2, ParsedType
  <2>4. r.parsing = i /\ r.ref = h.ref
    BY <2>3 DEF Session
  <2>5. r \in Parsing
    BY <2>4 DEF Parsing
  <2>6. ASSUME h.parsing = 0 PROVE r.max > 0
    <3>1. Heads(h) # {} /\ i = HeadOf(h)
      BY <2>1, <2>6 DEF Current
    <3>2. Min(Heads(h)) \in Marked(h, i)
      BY <3>1, HeadsFacts, RefFacts DEF Marked, HeadOf
    <3>3. r.max \in Marked(h, i)
      BY <2>2, <3>2, ParsedType
    <3>. QED
      BY <3>3, RefFacts DEF Marked
  <2>. QED
    BY <2>2, <2>4, <2>5, <2>6
<1>. QED
  BY <1>1, <1>2, <1>3

LEMMA RemainderFacts ==
    ASSUME NEW h \in Session, h.max <= Len(h.ref)
    PROVE  /\ Remainder(h) \in Seq(Token)
           /\ Len(Remainder(h)) = Len(h.ref) - h.max
           /\ \A k \in 1 .. Len(h.ref) - h.max : Remainder(h)[k] = h.ref[h.max + k]
<1>1. h.ref \in Seq(Token) /\ Len(h.ref) \in Nat /\ h.max \in Nat
  BY RefFacts DEF Session
<1>2. PICK n \in Nat, m \in Nat : n = Len(h.ref) /\ m = h.max /\ m <= n
  BY <1>1
<1>3. m + 1 \in 1 .. Len(h.ref) + 1 /\ Len(h.ref) \in (m + 1) - 1 .. Len(h.ref)
  BY <1>2
<1>4. /\ SubSeq(h.ref, m + 1, Len(h.ref)) \in Seq(Token)
      /\ Len(SubSeq(h.ref, m + 1, Len(h.ref))) = Len(h.ref) - (m + 1) + 1
      /\ \A k \in 1 .. Len(h.ref) - (m + 1) + 1 :
             SubSeq(h.ref, m + 1, Len(h.ref))[k] = h.ref[(m + 1) + k - 1]
  BY <1>1, <1>3, SubSeqProperties
<1>5. PICK s : s = Remainder(h) /\ s = SubSeq(h.ref, m + 1, n)
  BY <1>2 DEF Remainder
<1>6. /\ s \in Seq(Token) /\ Len(s) = n - (m + 1) + 1
      /\ \A k \in 1 .. n - (m + 1) + 1 : s[k] = h.ref[(m + 1) + k - 1]
  BY <1>2, <1>4, <1>5
<1>7. n - (m + 1) + 1 = n - m /\ \A k \in 1 .. n - m : (m + 1) + k - 1 = m + k
  BY <1>2
<1>. QED
  BY <1>2, <1>5, <1>6, <1>7

\* What FinishRequest gives the parser.
Restarted(h) ==
    [h EXCEPT !.current = 0, !.reading = TRUE, !.parsing = 0, !.whole = FALSE,
              !.ref = Remainder(h), !.max = 0]

LEMMA RestartedType ==
    ASSUME NEW h \in Session, h.max <= Len(h.ref)
    PROVE  /\ Restarted(h) \in Session
           /\ Restarted(h).current = 0 /\ Restarted(h).reading /\ Restarted(h).parsing = 0
           /\ ~ Restarted(h).whole /\ Restarted(h).max = 0
           /\ Restarted(h).ref = Remainder(h)
           /\ Restarted(h).life = h.life /\ Restarted(h).pushed = h.pushed
           /\ Restarted(h).upgrade = h.upgrade /\ Restarted(h).file = h.file
           /\ Restarted(h).out = h.out /\ Restarted(h).flying = h.flying
           /\ Restarted(h).buffered = h.buffered
<1>1. Remainder(h) \in Seq(Token)
  BY RemainderFacts
<1>2. 0 \in 0 .. MaxRequests
  BY HttpSessionAssumption
<1>. QED
  BY <1>1, <1>2 DEF Restarted, Session

LEMMA AbortType ==
    ASSUME NEW h \in Session
    PROVE  Abort(h) \in Parsing /\ ~ Abort(h).whole /\ Abort(h).life = "aborted"
<1>1. PICK r \in Session : r = FinishSession(h) /\ ~ r.whole
  BY FinishSessionType
<1>2. Abort(h) = [r EXCEPT !.life = "aborted"]
  BY <1>1 DEF Abort
<1>. QED
  BY <1>1, <1>2 DEF Session, Parsing

LEMMA FinishRequestType ==
    ASSUME NEW h \in Session
    PROVE  /\ FinishRequest[h] \in Parsing
           /\ FinishRequest[h].whole =>
                 /\ FinishRequest[h].max > 0
                 /\ Len(FinishRequest[h].ref) = Len(h.ref) - h.max
<1>1. CASE h.reading \/ h.upgrade \/ h.max > Len(h.ref)
  <2>1. FinishRequest[h] = Abort(h)
    BY <1>1 DEF FinishRequest
  <2>. QED
    BY <2>1, AbortType
<1>2. CASE ~ (h.reading \/ h.upgrade \/ h.max > Len(h.ref))
  <2>1. h.max <= Len(h.ref)
    BY <1>2, RefFacts DEF Session
  <2>2. FinishRequest[h] = RunParser[Restarted(h)]
    BY <1>2 DEF FinishRequest, Restarted
  <2>3. PICK r \in Session : /\ r = Restarted(h) /\ r.parsing = 0 /\ ~ r.whole
                             /\ r.ref = Remainder(h)
    BY <2>1, RestartedType
  <2>4. RunParser[r] \in Parsing /\ (RunParser[r].whole => RunParser[r].max > 0 /\ RunParser[r].ref = r.ref)
    BY <2>3, ParserType
  <2>. QED
    BY <2>1, <2>2, <2>3, <2>4, RemainderFacts
<1>. QED
  BY <1>1, <1>2

LEMMA ItemType ==
    ASSUME NEW h, h.current \in 1 .. MaxRequests, NEW part \in {"header", "data"},
           NEW status \in Nat, NEW at \in Int, NEW n \in Nat
    PROVE  /\ Item(h, part, status, at, n) \in Written
           /\ Item(h, part, status, at, n).req = h.current
           /\ Item(h, part, status, at, n).part = part
           /\ Item(h, part, status, at, n).status = status
           /\ Item(h, part, status, at, n).at = at
           /\ Item(h, part, status, at, n).n = n
           /\ Weight(Item(h, part, status, at, n)) = IF part = "header" THEN 1 ELSE n
<1>. DEFINE y == [req |-> h.current, part |-> part, status |-> status, at |-> at, n |-> n]
<1>3. y \in Written
  BY DEF Written
<1>4. y = Item(h, part, status, at, n)
  BY DEF Item
<1>1. PICK x \in Written : /\ x = Item(h, part, status, at, n)
                          /\ x.req = h.current /\ x.part = part /\ x.status = status
                          /\ x.at = at /\ x.n = n
  BY <1>3, <1>4
<1>2. Weight(x) = IF part = "header" THEN 1 ELSE n
  BY <1>1 DEF Weight
<1>. QED
  BY <1>1, <1>2

HeaderOf(h, status) == Item(h, "header", status, 0, 1)
BodyOf(h, status) == Item(h, "data", status, 0, 1)

\* A response of a header and one run of bytes.
Responded(h, status, s) ==
    /\ s.out = Append(Append(h.out, HeaderOf(h, status)), BodyOf(h, status))
    /\ s.flying = h.flying + 2 /\ s.buffered = h.buffered + 2
    /\ ~ s.upgrade /\ s.file = "none"
    /\ s.ref = h.ref /\ s.max = h.max /\ s.life = h.life /\ s.reading = h.reading
    /\ s.current = h.current /\ s.parsing = h.parsing /\ s.whole = h.whole
    /\ s.pushed = h.pushed

LEMMA RespondValue ==
    ASSUME NEW h \in Session, h.current \in 1 .. MaxRequests, NEW status \in Nat
    PROVE  \E s \in Session : Responded(h, status, s) /\ Respond(h, status, 1) = FinishRequest[s]
<1>1. PICK x \in Written : x = HeaderOf(h, status) /\ Weight(x) = 1
  BY ItemType DEF HeaderOf
<1>2. PICK y \in Written : y = BodyOf(h, status) /\ Weight(y) = 1
  BY ItemType DEF BodyOf
<1>3. PICK r \in Session : /\ r = ResponseWrite(h, x)
                           /\ r = [h EXCEPT !.out = Append(h.out, x), !.flying = h.flying + 1,
                                            !.buffered = h.buffered + 1]
  BY <1>1, WriteType, ZenonT(30)
<1>4. /\ r.out = Append(h.out, x) /\ r.flying = h.flying + 1 /\ r.buffered = h.buffered + 1
      /\ r.current = h.current
  BY <1>3 DEF Session
<1>5. PICK t \in Session : /\ t = ResponseWrite(r, y)
                           /\ t = [r EXCEPT !.out = Append(r.out, y), !.flying = r.flying + 1,
                                            !.buffered = r.buffered + 1]
  BY <1>2, WriteType, ZenonT(30)
<1>6. PICK s : s = [t EXCEPT !.upgrade = FALSE, !.file = "none"]
  OBVIOUS
<1>7. s \in Session
  BY <1>6 DEF Session
<1>8. Respond(h, status, 1) = FinishRequest[s]
  <2>1. Item(h, "data", status, 0, 1) = y
    BY <1>2 DEF BodyOf
  <2>2. Item(h, "header", status, 0, 1) = x
    BY <1>1 DEF HeaderOf
  <2>3. ResponseWrite(h, Item(h, "header", status, 0, 1)) = r
    BY <1>3, <2>2
  <2>4. ResponseWrite(r, Item(h, "data", status, 0, 1)) = t
    BY <1>5, <2>1
  <2>. DEFINE headed == ResponseWrite(h, Item(h, "header", status, 0, 1))
              sent == IF 1 = 0 THEN headed
                      ELSE ResponseWrite(headed, Item(h, "data", status, 0, 1))
  <2>5. Respond(h, status, 1) = FinishRequest[[sent EXCEPT !.upgrade = FALSE, !.file = "none"]]
    BY DEF Respond
  <2>6. sent = t
    BY <2>3, <2>4
  <2>. HIDE DEF sent
  <2>. QED
    BY <1>6, <2>5, <2>6
<1>9. t.out = Append(r.out, y) /\ t.flying = r.flying + 1 /\ t.buffered = r.buffered + 1
  BY <1>5 DEF Session
<1>10. /\ r.ref = h.ref /\ r.max = h.max /\ r.life = h.life /\ r.reading = h.reading
       /\ r.parsing = h.parsing /\ r.whole = h.whole /\ r.pushed = h.pushed
  BY <1>3 DEF Session
<1>11. /\ t.ref = r.ref /\ t.max = r.max /\ t.life = r.life /\ t.reading = r.reading
       /\ t.parsing = r.parsing /\ t.whole = r.whole /\ t.pushed = r.pushed
       /\ t.current = r.current
  BY <1>5 DEF Session
<1>12. /\ s.ref = t.ref /\ s.max = t.max /\ s.life = t.life /\ s.reading = t.reading
       /\ s.parsing = t.parsing /\ s.whole = t.whole /\ s.pushed = t.pushed
       /\ s.current = t.current /\ s.out = t.out /\ s.flying = t.flying
       /\ s.buffered = t.buffered /\ ~ s.upgrade /\ s.file = "none"
  BY <1>6 DEF Session
<1>13. s.flying = h.flying + 2 /\ s.buffered = h.buffered + 2
  <2>1. h.flying \in Nat /\ h.buffered \in Int
    BY DEF Session
  <2>. QED
    BY <2>1, <1>4, <1>9, <1>12
<1>14. s.out = Append(Append(h.out, HeaderOf(h, status)), BodyOf(h, status))
  BY <1>1, <1>2, <1>4, <1>9, <1>12
<1>15. Responded(h, status, s)
  BY <1>4, <1>10, <1>11, <1>12, <1>13, <1>14 DEF Responded
<1>. QED
  BY <1>7, <1>8, <1>15

\* What StartRequest makes of h before it emits the request.
Begin(h) ==
    [h EXCEPT !.reading = FALSE, !.current = h.parsing,
              !.upgrade = What(h.parsing) \in {"upgrade", "refused", "badws"}]

LEMMA BeginType ==
    ASSUME NEW h \in Session
    PROVE  /\ Begin(h) \in Session
           /\ ~ Begin(h).reading /\ Begin(h).current = h.parsing
           /\ Begin(h).upgrade = (What(h.parsing) \in {"upgrade", "refused", "badws"})
           /\ Begin(h).ref = h.ref /\ Begin(h).max = h.max /\ Begin(h).life = h.life
           /\ Begin(h).parsing = h.parsing /\ Begin(h).whole = h.whole
           /\ Begin(h).pushed = h.pushed /\ Begin(h).file = h.file /\ Begin(h).out = h.out
           /\ Begin(h).flying = h.flying /\ Begin(h).buffered = h.buffered
<1>1. (What(h.parsing) \in {"upgrade", "refused", "badws"}) \in BOOLEAN
  OBVIOUS
<1>2. Begin(h) \in Session
  BY <1>1 DEF Begin, Session
<1>. QED
  BY <1>2 DEF Begin, Session

LEMMA UpgradedType ==
    ASSUME NEW h \in Session, h.current \in 1 .. MaxRequests
    PROVE  \E x \in Written, s \in Session :
              /\ x = Item(h, "header", 101, 0, 0)
              /\ s = Upgraded(h) /\ s.life = "upgraded" /\ ~ s.whole
              /\ s.ref = <<>> /\ s.max = 0 /\ s.current = h.current /\ s.parsing = h.parsing
              /\ s.out = Append(h.out, x) /\ s.flying = 0 /\ s.buffered = h.buffered + 1
<1>1. PICK x \in Written : x = Item(h, "header", 101, 0, 0) /\ Weight(x) = 1
  BY ItemType
<1>2. PICK r \in Session : /\ r = ResponseWrite(h, x)
                           /\ r = [h EXCEPT !.out = Append(h.out, x), !.flying = h.flying + 1,
                                            !.buffered = h.buffered + Weight(x)]
  BY WriteType
<1>3. /\ r.out = Append(h.out, x) /\ r.buffered = h.buffered + 1
      /\ r.current = h.current /\ r.parsing = h.parsing
  BY <1>1, <1>2 DEF Session
<1>4. PICK f \in Session : f = FinishSession(r)
  BY FinishSessionType
<1>5. /\ ~ f.whole /\ f.ref = <<>> /\ f.max = 0 /\ f.current = r.current
      /\ f.parsing = r.parsing /\ f.out = r.out /\ f.buffered = r.buffered
  BY <1>4, FinishSessionType
<1>6. Upgraded(h) = [f EXCEPT !.life = "upgraded", !.flying = 0]
  BY <1>1, <1>2, <1>4 DEF Upgraded
<1>8. PICK s : s = [f EXCEPT !.life = "upgraded", !.flying = 0]
  OBVIOUS
<1>7. s \in Session /\ s.life = "upgraded" /\ s.flying = 0 /\ s.whole = f.whole
      /\ s.ref = f.ref /\ s.max = f.max /\ s.current = f.current /\ s.parsing = f.parsing
      /\ s.out = f.out /\ s.buffered = f.buffered
  BY <1>8 DEF Session
<1>9. /\ ~ s.whole /\ s.ref = <<>> /\ s.max = 0 /\ s.current = h.current /\ s.parsing = h.parsing
      /\ s.out = Append(h.out, x) /\ s.buffered = h.buffered + 1 /\ s = Upgraded(h)
  BY <1>3, <1>5, <1>6, <1>7, <1>8
<1>. QED
  BY <1>1, <1>7, <1>9

LEMMA UnhandledType ==
    ASSUME NEW h \in Session
    PROVE  \E s \in Session :
              /\ s = [FinishSession(h) EXCEPT !.life = "unhandled"]
              /\ s.life = "unhandled" /\ ~ s.whole /\ s.ref = <<>> /\ s.max = 0
              /\ s.current = h.current /\ s.parsing = h.parsing
              /\ s.out = h.out /\ s.flying = 0 /\ s.buffered = h.buffered
<1>1. PICK f \in Session : f = FinishSession(h)
  BY FinishSessionType
<1>2. /\ ~ f.whole /\ f.ref = <<>> /\ f.max = 0 /\ f.current = h.current /\ f.flying = 0
      /\ f.parsing = h.parsing /\ f.out = h.out /\ f.buffered = h.buffered
  BY <1>1, FinishSessionType
<1>3. PICK s : s = [f EXCEPT !.life = "unhandled"]
  OBVIOUS
<1>4. s \in Session /\ s.life = "unhandled" /\ s.flying = f.flying /\ s.whole = f.whole
      /\ s.ref = f.ref /\ s.max = f.max /\ s.current = f.current /\ s.parsing = f.parsing
      /\ s.out = f.out /\ s.buffered = f.buffered
  BY <1>3 DEF Session
<1>. QED
  BY <1>1, <1>2, <1>3, <1>4

\* All that StartRequest can do.
Started(h, s) ==
    \/ h.upgrade /\ s = Abort(h)
    \/ s = FinishSession(h)
    \/ s = Upgraded(Begin(h))
    \/ \E status \in {400, 405} : s = Respond(Begin(h), status, 1)
    \/ s = [FinishSession(Respond(Begin(h), 400, 1)) EXCEPT !.life = "unhandled"]
    \/ ~ Begin(h).upgrade /\ s = [Begin(h) EXCEPT !.file = "open"]

LEMMA StartOptions ==
    ASSUME NEW h \in Session, h.current = 0
    PROVE  Started(h, StartRequest[h])
<1>1. PICK b : b = Begin(h)
  OBVIOUS
<1>2. StartRequest[h] = IF h.current # 0 \/ h.upgrade THEN Abort(h)
                        ELSE IF What(h.parsing) = "old" THEN FinishSession(h)
                        ELSE IF b.upgrade THEN UpgradeListener(b)
                        ELSE RequestListener(b)
  BY <1>1 DEF StartRequest, Begin
<1>3. \/ UpgradeListener(b) = Upgraded(b) \/ UpgradeListener(b) = Respond(b, 400, 1)
      \/ UpgradeListener(b) = [FinishSession(Respond(b, 400, 1)) EXCEPT !.life = "unhandled"]
  BY DEF UpgradeListener
<1>4. RequestListener(b) = Respond(b, 405, 1) \/ RequestListener(b) = [b EXCEPT !.file = "open"]
  BY DEF RequestListener
<1>5. 400 \in {400, 405} /\ 405 \in {400, 405}
  OBVIOUS
<1>. QED
  BY <1>1, <1>2, <1>3, <1>4, <1>5 DEF Started

LEMMA StartRequestType ==
    ASSUME NEW h \in Session, h.parsing > 0, h.current = 0
    PROVE  /\ StartRequest[h] \in Parsing
           /\ StartRequest[h].whole /\ StartRequest[h].current = 0 =>
                 /\ StartRequest[h].max > 0
                 /\ Len(StartRequest[h].ref) = Len(h.ref) - h.max
<1>1. PICK s : s = StartRequest[h] /\ Started(h, s)
  BY StartOptions
<1>2. PICK b \in Session : b = Begin(h) /\ b.current \in 1 .. MaxRequests /\ b.ref = h.ref /\ b.max = h.max
                           /\ b.current = b.parsing
  <2>1. h.parsing \in 0 .. MaxRequests
    BY DEF Session
  <2>. QED
    BY <2>1, BeginType
<1>3. \A status \in {400, 405} :
          /\ Respond(b, status, 1) \in Parsing
          /\ Respond(b, status, 1).whole =>
                 /\ Respond(b, status, 1).max > 0
                 /\ Len(Respond(b, status, 1).ref) = Len(b.ref) - b.max
  <2>. SUFFICES ASSUME NEW status \in {400, 405}
                PROVE  /\ Respond(b, status, 1) \in Parsing
                       /\ Respond(b, status, 1).whole =>
                              /\ Respond(b, status, 1).max > 0
                              /\ Len(Respond(b, status, 1).ref) = Len(b.ref) - b.max
    OBVIOUS
  <2>1. PICK t \in Session : Responded(b, status, t) /\ Respond(b, status, 1) = FinishRequest[t]
    BY <1>2, RespondValue
  <2>2. t.ref = b.ref /\ t.max = b.max
    BY <2>1 DEF Responded
  <2>. QED
    BY <2>1, <2>2, FinishRequestType
<1>4. CASE s = Abort(h)
  BY <1>1, <1>4, AbortType
<1>5. CASE s = FinishSession(h)
  BY <1>1, <1>5, FinishSessionType DEF Parsing
<1>6. CASE s = Upgraded(b)
  BY <1>1, <1>2, <1>6, UpgradedType DEF Parsing
<1>7. CASE \E status \in {400, 405} : s = Respond(b, status, 1)
  BY <1>1, <1>2, <1>3, <1>7
<1>8. CASE s = [FinishSession(Respond(b, 400, 1)) EXCEPT !.life = "unhandled"]
  <2>1. PICK r \in Session : r = Respond(b, 400, 1)
    BY <1>3 DEF Parsing
  <2>2. s = [FinishSession(r) EXCEPT !.life = "unhandled"]
    BY <1>8, <2>1
  <2>3. s \in Session /\ ~ s.whole
    BY <2>2, UnhandledType
  <2>. QED
    BY <1>1, <2>3 DEF Parsing
<1>9. CASE s = [b EXCEPT !.file = "open"]
  <2>1. s \in Session /\ s.current = b.current /\ s.parsing = b.parsing
    BY <1>9, ZenonT(30) DEF Session
  <2>. QED
    BY <1>1, <1>2, <2>1 DEF Parsing
<1>. QED
  BY <1>1, <1>2, <1>4, <1>5, <1>6, <1>7, <1>8, <1>9 DEF Started

\* A turn of Settle is to be taken.
Waiting(h) == h.whole /\ h.current = 0

\* What every request that is started keeps, all of them keep.
LEMMA SettleInvariant ==
    ASSUME NEW P, P \subseteq Parsing, \A x \in P : Waiting(x) => StartRequest[x] \in P,
           NEW h \in P
    PROVE  Settle[h] \in P /\ ~ Waiting(Settle[h])
<1>. DEFINE Stop == {x \in Parsing : ~ Waiting(x)}
            out == [x \in Parsing |-> x]
            next == [x \in Parsing |-> IF Waiting(x) THEN StartRequest[x] ELSE x]
            measure == [x \in Parsing |->
                            IF Waiting(x) THEN 2 * Len(x.ref) + (IF x.max = 0 THEN 2 ELSE 1) ELSE 0]
            Solves(f) == f = [x \in Parsing |-> IF Waiting(x) THEN f[StartRequest[x]] ELSE x]
<1>1. ASSUME NEW x \in Parsing
      PROVE  x \in Session /\ Len(x.ref) \in Nat /\ x.max \in Nat
  BY RefFacts DEF Parsing, Session
<1>2. ASSUME NEW x \in Parsing, Waiting(x)
      PROVE  /\ StartRequest[x] \in Parsing
             /\ Waiting(StartRequest[x]) =>
                   StartRequest[x].max > 0 /\ Len(StartRequest[x].ref) = Len(x.ref) - x.max
  BY <1>2, StartRequestType DEF Parsing, Waiting
<1>3. Looping(Parsing, Parsing, measure, Stop, out, next)
  <2>1. measure \in [Parsing -> Nat]
    <3>1. ASSUME NEW x \in Parsing PROVE 2 * Len(x.ref) + (IF x.max = 0 THEN 2 ELSE 1) \in Nat
      <4>1. PICK n \in Nat : n = Len(x.ref)
        BY <1>1
      <4>2. PICK k \in {1, 2} : k = IF x.max = 0 THEN 2 ELSE 1
        OBVIOUS
      <4>3. 2 * n + k \in Nat
        OBVIOUS
      <4>. QED
        BY <4>1, <4>2, <4>3
    <3>. QED
      BY <3>1
  <2>2. Stop \in SUBSET Parsing /\ out \in [Parsing -> Parsing]
    OBVIOUS
  <2>3. next \in [Parsing -> Parsing]
    BY <1>2
  <2>4. ASSUME NEW x \in Parsing \ Stop PROVE measure[next[x]] < measure[x]
    <3>1. Waiting(x) /\ next[x] = StartRequest[x]
      OBVIOUS
    <3>2. PICK y \in Parsing : /\ y = StartRequest[x]
                               /\ Waiting(y) => y.max > 0 /\ Len(y.ref) = Len(x.ref) - x.max
      BY <1>2, <3>1
    <3>3. PICK n \in Nat, m \in Nat : n = Len(x.ref) /\ m = x.max
      BY <1>1
    <3>4. PICK p \in Nat, q \in Nat : p = Len(y.ref) /\ q = y.max
      BY <1>1
    <3>5. measure[x] = 2 * n + (IF m = 0 THEN 2 ELSE 1)
      BY <3>1, <3>3
    <3>6. measure[y] = IF Waiting(y) THEN 2 * p + (IF q = 0 THEN 2 ELSE 1) ELSE 0
      BY <3>4
    <3>7. Waiting(y) => q > 0 /\ p = n - m
      BY <3>2, <3>3, <3>4
    <3>8. measure[y] < measure[x]
      <4>. HIDE DEF measure
      <4>. QED
        BY <3>5, <3>6, <3>7
    <3>. HIDE DEF measure, next
    <3>. QED
      BY <3>1, <3>2, <3>8
  <2>. HIDE DEF measure, Stop, out, next
  <2>. QED
    BY <2>1, <2>2, <2>3, <2>4 DEF Looping
<1>4. \E f : Solves(f)
  <2>1. PICK f \in [Parsing -> Parsing] : Looped(Parsing, Stop, out, next, f)
    <3>. HIDE DEF measure, Stop, out, next
    <3>. QED
      BY <1>3, LoopExists
  <2>2. \A x \in Parsing : f[x] = IF x \in Stop THEN out[x] ELSE f[next[x]]
    <3>. HIDE DEF Stop, out, next
    <3>. QED
      BY <2>1 DEF Looped
  <2>3. \A x \in Parsing : f[x] = IF Waiting(x) THEN f[StartRequest[x]] ELSE x
    BY <2>2
  <2>. QED
    BY <2>3
<1>5. Settle = CHOOSE f : Solves(f)
  BY DEF Settle, Waiting
<1>6. Solves(Settle)
  <2>. HIDE DEF Solves
  <2>. QED
    BY <1>4, <1>5
<1>7. Looped(Parsing, Stop, out, next, Settle)
  <2>0. \A x \in Parsing : Settle[x] = IF Waiting(x) THEN Settle[StartRequest[x]] ELSE x
    BY <1>6
  <2>1. \A x \in Parsing : Settle[x] = IF x \in Stop THEN out[x] ELSE Settle[next[x]]
    BY <2>0
  <2>. HIDE DEF Stop, out, next
  <2>. QED
    BY <2>1 DEF Looped
<1>8. \A x \in P \ Stop : next[x] \in P
  OBVIOUS
<1>9. PICK x \in P \cap Stop : Settle[h] = out[x]
  <2>. HIDE DEF measure, Stop, out, next
  <2>. QED
    BY <1>3, <1>7, <1>8, LoopInvariant
<1>. QED
  BY <1>9

-----------------------------------------------------------------------------
(* Positions on the wire                                                       *)

LEMMA WireFacts ==
    ASSUME ScriptOK
    PROVE  /\ Wire \in Seq(Token) /\ Len(Wire) \in Nat
           /\ \A k \in 1 .. Len(Wire) : Wire[k].req \in 1 .. MaxRequests
           /\ \A k, l \in 1 .. Len(Wire) : k < l => Wire[k].req <= Wire[l].req
           /\ \A k, l \in 1 .. Len(Wire) :
                  k < l /\ Wire[l].part = "head" => Wire[k].req < Wire[l].req
           /\ \A l \in 1 .. Len(Wire) : \A i \in 1 .. Wire[l].req :
                  /\ \E k \in 1 .. Len(Wire) : Wire[k].req = i /\ Wire[k].part = "head"
                  /\ \E k \in 1 .. Len(Wire) : Wire[k] = Last(Tokens(i))
           /\ \A i \in 1 .. MaxRequests : Last(Tokens(i)).req = i
           /\ \A k \in 1 .. Len(Wire) : Wire[k].req \in DOMAIN script
<1>1. PICK n \in 1 .. MaxRequests : script \in [1 .. n -> Requests]
  BY DEF ScriptOK
<1>2. Layout(Wire, n)
  BY <1>1, WireLayout, HttpSessionAssumption
<1>3. PICK w : w = Wire
  OBVIOUS
<1>4. PICK z \in Nat : z = Len(w)
  BY <1>2, <1>3, LenProperties DEF Layout
<1>5. /\ w \in Seq(Token)
      /\ \A k \in 1 .. z : w[k].req \in 1 .. n
      /\ \A k, l \in 1 .. z : k < l => w[k].req <= w[l].req
      /\ \A k, l \in 1 .. z : k < l /\ w[l].part = "head" => w[k].req < w[l].req
      /\ \A i \in 1 .. n : \E k \in 1 .. z : w[k].req = i /\ w[k].part = "head"
      /\ \A i \in 1 .. n : \E k \in 1 .. z : w[k] = Last(Tokens(i))
  BY <1>2, <1>3, <1>4 DEF Layout
<1>6. \A k \in 1 .. z : w[k].req \in 1 .. MaxRequests
  BY <1>5, HttpSessionAssumption
<1>7. \A l \in 1 .. z : \A i \in 1 .. w[l].req : i \in 1 .. n
  BY <1>5
<1>8. \A l \in 1 .. z : \A i \in 1 .. w[l].req :
          /\ \E k \in 1 .. z : w[k].req = i /\ w[k].part = "head"
          /\ \E k \in 1 .. z : w[k] = Last(Tokens(i))
  BY <1>5, <1>7
<1>9. ASSUME NEW i \in 1 .. MaxRequests PROVE Last(Tokens(i)).req = i
  <2>1. /\ Len(Tokens(i)) \in 1 .. 3
        /\ \A k \in 1 .. Len(Tokens(i)) : Tokens(i)[k].req = i
        /\ Last(Tokens(i)) = Tokens(i)[Len(Tokens(i))]
    BY TokensFacts
  <2>2. Len(Tokens(i)) \in 1 .. Len(Tokens(i))
    BY <2>1
  <2>. QED
    BY <2>1, <2>2
<1>10. \A k \in 1 .. z : w[k].req \in DOMAIN script
  BY <1>1, <1>5
<1>. QED
  BY <1>3, <1>4, <1>5, <1>6, <1>8, <1>9, <1>10

LEMMA HeadSplits ==
    ASSUME ScriptOK, NEW p \in 1 .. Len(Wire), Wire[p].part = "head"
    PROVE  Splits(p, Wire[p].req + 1) /\ Unended(p - 1, Wire[p].req)
<1>1. PICK w \in Seq(Token), z \in Nat : w = Wire /\ z = Len(w)
  BY WireFacts
<1>2. /\ \A k \in 1 .. z : w[k].req \in 1 .. MaxRequests
      /\ \A k, l \in 1 .. z : k < l => w[k].req <= w[l].req
      /\ \A k, l \in 1 .. z : k < l /\ w[l].part = "head" => w[k].req < w[l].req
      /\ \A i \in 1 .. MaxRequests : Last(Tokens(i)).req = i
  BY <1>1, WireFacts
<1>3. p \in 1 .. z /\ w[p].part = "head"
  BY <1>1
<1>4. PICK i \in 1 .. MaxRequests : i = w[p].req
  BY <1>2, <1>3
<1>5. ASSUME NEW k \in 1 .. z, w[k].part = "head" PROVE k > p <=> w[k].req >= i + 1
  <2>1. k > p => w[p].req < w[k].req
    BY <1>2, <1>3, <1>5
  <2>2. k <= p => w[k].req <= w[p].req
    BY <1>2, <1>3
  <2>3. w[k].req \in Nat
    BY <1>2
  <2>. QED
    BY <1>4, <2>1, <2>2, <2>3
<1>6. ASSUME NEW k \in 1 .. z, w[k] = Last(Tokens(i)) PROVE k > p - 1
  <2>1. w[k].req = i
    BY <1>2, <1>6
  <2>2. k < p => w[k].req < w[p].req
    BY <1>2, <1>3
  <2>. QED
    BY <1>3, <1>4, <2>1, <2>2
<1>. QED
  BY <1>1, <1>4, <1>5, <1>6 DEF Splits, Unended

\* A later token of the same request.
LEMMA LaterSplits ==
    ASSUME ScriptOK, NEW p \in Int, NEW q \in 1 .. Len(Wire), p <= q,
           Splits(p, Wire[q].req + 1)
    PROVE  Splits(q, Wire[q].req + 1)
<1>1. PICK w \in Seq(Token), z \in Nat : w = Wire /\ z = Len(w)
  BY WireFacts
<1>2. /\ \A k \in 1 .. z : w[k].req \in 1 .. MaxRequests
      /\ \A k, l \in 1 .. z : k < l => w[k].req <= w[l].req
  BY <1>1, WireFacts
<1>3. q \in 1 .. z
  BY <1>1
<1>4. PICK i \in 1 .. MaxRequests : i = w[q].req
  BY <1>2, <1>3
<1>5. \A k \in 1 .. z : w[k].part = "head" => (k > p <=> w[k].req >= i + 1)
  BY <1>1, <1>4 DEF Splits
<1>6. ASSUME NEW k \in 1 .. z, w[k].part = "head" PROVE k > q <=> w[k].req >= i + 1
  <2>1. k <= q => w[k].req <= w[q].req
    BY <1>2, <1>3
  <2>2. w[k].req \in Nat
    BY <1>2
  <2>. QED
    BY <1>3, <1>4, <1>5, <1>6, <2>1, <2>2, SMTT(30)
<1>. QED
  BY <1>1, <1>4, <1>6 DEF Splits

\* While the request's end has not arrived, no later head has.
LEMMA UnendedSplits ==
    ASSUME ScriptOK, NEW i \in 1 .. MaxRequests, NEW p \in Int, NEW a \in Int, p <= a,
           Splits(p, i + 1), Unended(a, i)
    PROVE  Splits(a, i + 1)
<1>1. PICK w \in Seq(Token), z \in Nat : w = Wire /\ z = Len(w)
  BY WireFacts
<1>2. /\ \A k \in 1 .. z : w[k].req \in 1 .. MaxRequests
      /\ \A k, l \in 1 .. z : k < l => w[k].req <= w[l].req
      /\ \A l \in 1 .. z : \A j \in 1 .. w[l].req : \E k \in 1 .. z : w[k] = Last(Tokens(j))
      /\ Last(Tokens(i)).req = i
  BY <1>1, WireFacts
<1>3. \A k \in 1 .. z : w[k].part = "head" => (k > p <=> w[k].req >= i + 1)
  BY <1>1 DEF Splits
<1>4. \A k \in 1 .. z : w[k] = Last(Tokens(i)) => k > a
  BY <1>1 DEF Unended
<1>5. ASSUME NEW k \in 1 .. z, w[k].part = "head", w[k].req >= i + 1 PROVE k > a
  <2>1. i \in 1 .. w[k].req
    BY <1>2, <1>5
  <2>2. PICK l \in 1 .. z : w[l] = Last(Tokens(i))
    BY <1>2, <2>1
  <2>3. l > a /\ w[l].req = i
    BY <1>2, <1>4, <2>2
  <2>4. k < l => w[k].req <= w[l].req
    BY <1>2
  <2>5. w[k].req \in Nat
    BY <1>2
  <2>6. ~ (k < l)
    BY <1>5, <2>3, <2>4, <2>5
  <2>. QED
    BY <2>3, <2>6
<1>6. ASSUME NEW k \in 1 .. z, w[k].part = "head" PROVE k > a <=> w[k].req >= i + 1
  BY <1>3, <1>5, <1>6
<1>. QED
  BY <1>1, <1>6 DEF Splits

\* The first head behind p is that of the next request.
LEMMA FirstHead ==
    ASSUME ScriptOK, NEW d \in Nat, NEW p \in Int, Splits(p, d + 1),
           NEW q \in 1 .. Len(Wire), q > p, Wire[q].part = "head",
           \A k \in 1 .. Len(Wire) : Wire[k].part = "head" /\ k > p => q <= k
    PROVE  Wire[q].req = d + 1
<1>1. PICK w \in Seq(Token), z \in Nat : w = Wire /\ z = Len(w)
  BY WireFacts
<1>2. /\ \A k \in 1 .. z : w[k].req \in 1 .. MaxRequests
      /\ \A k, l \in 1 .. z : k < l => w[k].req <= w[l].req
      /\ \A l \in 1 .. z : \A j \in 1 .. w[l].req :
            \E k \in 1 .. z : w[k].req = j /\ w[k].part = "head"
  BY <1>1, WireFacts
<1>3. \A k \in 1 .. z : w[k].part = "head" => (k > p <=> w[k].req >= d + 1)
  BY <1>1 DEF Splits
<1>4. q \in 1 .. z /\ w[q].part = "head" /\ \A k \in 1 .. z : w[k].part = "head" /\ k > p => q <= k
  BY <1>1
<1>5. w[q].req >= d + 1 /\ w[q].req \in Nat
  <2>1. w[q].req \in 1 .. MaxRequests
    BY <1>2, <1>4
  <2>2. q > p => w[q].req >= d + 1
    BY <1>3, <1>4
  <2>. QED
    BY <2>1, <2>2, HttpSessionAssumption
<1>6. PICK k \in 1 .. z : w[k].req = d + 1 /\ w[k].part = "head"
  <2>1. d + 1 \in 1 .. w[q].req
    BY <1>5
  <2>. QED
    BY <1>2, <1>4, <2>1
<1>7. k > p
  BY <1>3, <1>6
<1>8. q <= k
  BY <1>4, <1>6, <1>7
<1>9. w[q].req <= w[k].req
  BY <1>2, <1>4, <1>8
<1>. QED
  BY <1>1, <1>5, <1>6, <1>9

-----------------------------------------------------------------------------
(* The writes that are not reported                                            *)

LEMMA SumGrows ==
    ASSUME NEW n \in Nat, NEW w \in [1 .. n -> Nat], NEW f \in [0 .. n -> Nat], Summed(n, w, f),
           NEW m \in 0 .. n
    PROVE  f[m] <= f[n]
<1>. DEFINE P == {j \in 0 .. n - m : f[m] <= f[m + j]}
<1>1. n - m \in Nat
  OBVIOUS
<1>2. 0 \in P
  OBVIOUS
<1>3. ASSUME NEW j \in 0 .. (n - m) - 1, j \in P PROVE j + 1 \in P
  <2>1. /\ j + 1 \in 0 .. n - m /\ m + (j + 1) \in 0 .. n /\ m + (j + 1) # 0
        /\ (m + (j + 1)) - 1 = m + j /\ m + (j + 1) \in 1 .. n /\ m + j \in 0 .. n
    OBVIOUS
  <2>2. f[m + (j + 1)] = f[m + j] + w[m + (j + 1)]
    BY <2>1 DEF Summed
  <2>3. f[m + j] \in Nat /\ w[m + (j + 1)] \in Nat /\ f[m] \in Nat
    BY <2>1
  <2>. QED
    BY <1>3, <2>1, <2>2, <2>3
<1>4. n - m \in P
  <2>. HIDE DEF P
  <2>. QED
    BY <1>1, <1>2, <1>3, InductionTo
<1>5. m + (n - m) = n
  OBVIOUS
<1>. QED
  BY <1>4, <1>5

LEMMA WeightsFacts ==
    ASSUME NEW out \in Seq(Written)
    PROVE  /\ Len(out) \in Nat
           /\ \A k \in 1 .. Len(out) : Weight(out[k]) \in Nat /\ Weights(out)[k] = Weight(out[k])
           /\ Weights(out) \in [1 .. Len(out) -> Nat]
<1>1. Len(out) \in Nat /\ \A k \in 1 .. Len(out) : out[k] \in Written
  BY LenProperties, ElementOfSeq
<1>2. \A x \in Written : Weight(x) \in Nat
  BY DEF Weight, Written
<1>. QED
  BY <1>1, <1>2 DEF Weights

LEMMA PaidNone == Paid(0, 0, <<>>)
<1>1. <<>> \in Seq(Written) /\ Len(<<>>) = 0
  OBVIOUS
<1>2. Weights(<<>>) \in [1 .. 0 -> Nat]
  BY <1>1, WeightsFacts
<1>3. PICK f \in [0 .. 0 -> Nat] : Summed(0, Weights(<<>>), f)
  BY <1>2, SumExists
<1>4. f[0] - f[0 - 0] <= 0
  OBVIOUS
<1>. QED
  BY <1>1, <1>3, <1>4 DEF Paid

LEMMA PaidWrite ==
    ASSUME NEW out \in Seq(Written), NEW x \in Written, NEW flying \in Nat, NEW buffered \in Int,
           Paid(flying, buffered, out)
    PROVE  Paid(flying + 1, buffered + Weight(x), Append(out, x))
<1>. DEFINE more == Append(out, x)
<1>1. PICK n \in Nat : n = Len(out)
  BY WeightsFacts
<1>2. /\ Len(more) = n + 1 /\ more \in Seq(Written)
      /\ \A k \in 1 .. n : more[k] = out[k]
      /\ more[n + 1] = x
  BY <1>1, AppendFacts
<1>. HIDE DEF more
<1>3. /\ \A k \in 1 .. n : Weights(out)[k] = Weight(out[k])
      /\ \A k \in 1 .. n + 1 : Weights(more)[k] = Weight(more[k]) /\ Weight(more[k]) \in Nat
  BY <1>1, <1>2, WeightsFacts
<1>4. Weights(more)[n + 1] = Weight(x) /\ Weight(x) \in Nat /\ n + 1 \in 1 .. n + 1
  BY <1>2, <1>3
<1>5. \A k \in 1 .. n : Weights(more)[k] = Weights(out)[k]
  BY <1>2, <1>3
<1>6. PICK f \in [0 .. n -> Nat] : /\ Summed(n, Weights(out), f)
                                   /\ f[n] - f[n - flying] <= buffered
  BY <1>1 DEF Paid
<1>. DEFINE g == [k \in 0 .. n + 1 |-> IF k = n + 1 THEN f[n] + Weight(x) ELSE f[k]]
<1>7. \A k \in 0 .. n + 1 : k # n + 1 => k \in 0 .. n /\ k # n + 1
  OBVIOUS
<1>8. g \in [0 .. n + 1 -> Nat]
  BY <1>4, <1>7
<1>9. \A k \in 0 .. n : f[k] = IF k = 0 THEN 0 ELSE f[k - 1] + Weights(out)[k]
  BY <1>6 DEF Summed
<1>10. Summed(n + 1, Weights(more), g)
  <2>1. ASSUME NEW k \in 0 .. n + 1
        PROVE  g[k] = IF k = 0 THEN 0 ELSE g[k - 1] + Weights(more)[k]
    <3>1. CASE k = n + 1
      <4>1. k - 1 = n /\ k # 0 /\ n \in 0 .. n + 1 /\ n # n + 1
        BY <3>1
      <4>. QED
        BY <3>1, <4>1, <1>4
    <3>2. CASE k = 0
      BY <3>2, <1>9
    <3>3. CASE k # 0 /\ k # n + 1
      <4>1. k \in 1 .. n /\ k \in 0 .. n /\ k - 1 \in 0 .. n + 1 /\ k - 1 # n + 1
        BY <3>3
      <4>. QED
        BY <3>3, <4>1, <1>5, <1>9
    <3>. QED
      BY <3>1, <3>2, <3>3
  <2>. QED
    BY <2>1 DEF Summed
<1>11. flying <= n
  BY <1>1 DEF Paid
<1>12. g[n + 1] - g[(n + 1) - (flying + 1)] <= buffered + Weight(x)
  <2>1. (n + 1) - (flying + 1) = n - flying /\ n - flying \in 0 .. n
    BY <1>11
  <2>2. g[n + 1] = f[n] + Weight(x) /\ g[n - flying] = f[n - flying]
    BY <2>1
  <2>3. f[n] \in Nat /\ f[n - flying] \in Nat
    BY <2>1
  <2>. HIDE DEF g
  <2>. QED
    BY <1>4, <1>6, <2>1, <2>2, <2>3
<1>13. flying + 1 <= n + 1
  BY <1>11
<1>14. Paid(flying + 1, buffered + Weight(x), more)
  <2>. HIDE DEF g
  <2>. QED
    BY <1>2, <1>8, <1>10, <1>12, <1>13 DEF Paid
<1>. QED
  BY <1>14 DEF more

\* A write is reported, done or failed.
LEMMA PaidReport ==
    ASSUME NEW out \in Seq(Written), NEW flying \in Nat, flying > 0, NEW buffered \in Int,
           Paid(flying, buffered, out)
    PROVE  /\ Paid(flying - 1, buffered - Weight(out[Len(out) - flying + 1]), out)
           /\ Paid(flying - 1, buffered, out)
           /\ Weight(out[Len(out) - flying + 1]) \in Nat
<1>1. PICK n \in Nat : n = Len(out)
  BY WeightsFacts
<1>2. \A k \in 1 .. n : Weight(out[k]) \in Nat /\ Weights(out)[k] = Weight(out[k])
  BY <1>1, WeightsFacts
<1>3. PICK f \in [0 .. n -> Nat] : /\ Summed(n, Weights(out), f)
                                   /\ f[n] - f[n - flying] <= buffered
  BY <1>1 DEF Paid
<1>4. flying <= n
  BY <1>1 DEF Paid
<1>5. /\ n - flying + 1 \in 1 .. n /\ n - flying + 1 \in 0 .. n /\ n - flying + 1 # 0
      /\ (n - flying + 1) - 1 = n - flying /\ n - (flying - 1) = n - flying + 1
      /\ n - flying \in 0 .. n /\ n \in 0 .. n /\ flying - 1 <= n
  BY <1>4
<1>6. f[n - flying + 1] = f[n - flying] + Weight(out[n - flying + 1])
  BY <1>2, <1>3, <1>5 DEF Summed
<1>7. PICK u \in Nat, v \in Nat : u = f[n] /\ v = f[n - flying]
  BY <1>5
<1>8. PICK k \in Nat : k = Weight(out[n - flying + 1])
  BY <1>2, <1>5
<1>9. f[n - (flying - 1)] = v + k /\ u - v <= buffered
  BY <1>3, <1>5, <1>6, <1>7, <1>8
<1>10. u - (v + k) <= buffered - k /\ u - (v + k) <= buffered
  BY <1>9
<1>11. /\ f[n] - f[n - (flying - 1)] <= buffered - k
       /\ f[n] - f[n - (flying - 1)] <= buffered
  BY <1>7, <1>9, <1>10
<1>. QED
  BY <1>1, <1>3, <1>5, <1>8, <1>11 DEF Paid

LEMMA PaidEnough ==
    ASSUME NEW out \in Seq(Written), NEW flying \in Nat, NEW buffered \in Int,
           Paid(flying, buffered, out)
    PROVE  buffered >= 0 /\ Paid(0, buffered, out) /\ flying <= Len(out)
<1>1. PICK n \in Nat : n = Len(out)
  BY WeightsFacts
<1>2. PICK f \in [0 .. n -> Nat] : /\ Summed(n, Weights(out), f)
                                   /\ f[n] - f[n - flying] <= buffered
  BY <1>1 DEF Paid
<1>3. flying <= n /\ n - flying \in 0 .. n /\ n \in 0 .. n /\ n - 0 = n
  BY <1>1 DEF Paid
<1>4. Weights(out) \in [1 .. n -> Nat]
  BY <1>1, WeightsFacts
<1>5. f[n - flying] <= f[n]
  BY <1>2, <1>3, <1>4, SumGrows
<1>6. f[n] \in Nat /\ f[n - flying] \in Nat
  BY <1>3
<1>7. buffered >= 0 /\ f[n] - f[n - 0] <= buffered
  BY <1>2, <1>3, <1>5, <1>6
<1>8. 0 <= n
  OBVIOUS
<1>. QED
  BY <1>1, <1>2, <1>3, <1>7, <1>8 DEF Paid

-----------------------------------------------------------------------------
(* What the operations keep                                                    *)

\* s is h, with out written, after its session ended.
Ended(h, out, buffered, s) ==
    /\ s \in Session /\ s.life \notin {"open", "aborted"} /\ ~ s.whole
    /\ s.ref = <<>> /\ s.max = 0 /\ s.current = h.current /\ s.parsing = h.parsing
    /\ s.out = out /\ s.flying = 0 /\ s.buffered = buffered

LEMMA EndedGood ==
    ASSUME NEW h, h.current \in {0, h.parsing}, NEW out \in Seq(Written), InOrder(out),
           NEW flying \in Nat, NEW buffered \in Int, Paid(flying, buffered, out),
           NEW s, Ended(h, out, buffered, s), NEW a
    PROVE  Good(s, a)
<1>1. Paid(0, buffered, out)
  BY PaidEnough
<1>2. Len(s.ref) = 0
  BY DEF Ended
<1>. QED
  BY <1>1, <1>2 DEF Ended, Good, Typed

LEMMA TypedFacts ==
    ASSUME NEW h, Typed(h)
    PROVE  /\ h \in Session /\ h.out \in Seq(Written) /\ h.flying \in Nat /\ h.buffered \in Int
           /\ h.current \in {0, h.parsing} /\ h.parsing \in 0 .. MaxRequests
           /\ h.max \in Nat /\ Len(h.ref) \in Nat
BY RefFacts DEF Typed, Session, Written

LEMMA FinishedGood ==
    ASSUME NEW h, Typed(h), NEW a
    PROVE  Good(FinishSession(h), a)
<1>1. h \in Session
  BY DEF Typed
<1>2. PICK s : s = FinishSession(h) /\ Ended(h, h.out, h.buffered, s)
  BY <1>1, FinishSessionType DEF Ended
<1>. QED
  BY <1>2, TypedFacts, EndedGood DEF Typed

\* A marked token of the read.
LEMMA LaterMarked ==
    ASSUME ScriptOK, NEW i \in 1 .. MaxRequests, NEW p \in Int, NEW q \in Int, p <= q,
           q \in 1 .. Len(Wire), Wire[q].req = i, Splits(p, i + 1)
    PROVE  Splits(q, i + 1)
BY LaterSplits

\* The parser reached the request i.
LEMMA ParsedKeeps ==
    ASSUME ScriptOK, NEW h, Typed(h), NEW a \in Nat, a <= Len(Wire), Segment(h, a),
           NEW i \in 1 .. MaxRequests, i \in DOMAIN script, h.life = "open", h.current = 0, h.reading, h.file = "none", h.pushed = <<>>, ~ h.upgrade,
           h.max = 0, Done(h.out, i - 1), Unended(a - Len(h.ref), i),
           \/ Splits(a - Len(h.ref), i + 1)
           \/ \E k \in Marked(h, i) : Splits(a - Len(h.ref) + k, i + 1)
    PROVE  Good(Parsed(h, i), a)
<1>0. h \in Session
  BY DEF Typed
<1>1. PICK r \in Session :
          /\ r = Parsed(h, i)
          /\ r = [h EXCEPT !.parsing = i, !.max = r.max, !.whole = (Last(Tokens(i)) \in ToSet(h.ref))]
          /\ \/ Marked(h, i) = {} /\ r.max = 0
             \/ r.max \in Marked(h, i) /\ \A k \in Marked(h, i) : k <= r.max
  BY <1>0, ParsedType
<1>2. /\ r.parsing = i /\ r.whole = (Last(Tokens(i)) \in ToSet(h.ref)) /\ r.ref = h.ref
      /\ r.life = h.life /\ r.current = 0 /\ r.reading = h.reading /\ r.file = h.file
      /\ r.pushed = h.pushed /\ r.upgrade = h.upgrade /\ r.out = h.out
      /\ r.flying = h.flying /\ r.buffered = h.buffered
  BY <1>1 DEF Session
<1>13. Len(Wire) \in Nat /\ a \in Nat /\ \A k \in 1 .. a : k \in 1 .. Len(Wire)
  BY WireFacts
<1>3. PICK n \in Nat, m \in Nat : n = Len(h.ref) /\ m = r.max /\ n <= a
  <2>1. r.max \in Nat
    BY DEF Session
  <2>. QED
    BY <1>0, <1>13, <2>1, RefFacts DEF Segment
<1>14. n <= a
  BY <1>3
<1>4. \A k \in Marked(h, i) : k \in 1 .. n /\ Wire[a - n + k].req = i /\ a - n + k \in 1 .. a
  <2>. SUFFICES ASSUME NEW k \in Marked(h, i)
                PROVE  k \in 1 .. n /\ Wire[a - n + k].req = i /\ a - n + k \in 1 .. a
    OBVIOUS
  <2>1. k \in 1 .. n /\ h.ref[k].req = i
    BY <1>0, <1>3, RefFacts DEF Marked
  <2>2. h.ref[k] = Wire[a - n + k]
    BY <1>3, <2>1 DEF Segment
  <2>3. k \in 1 .. n
    BY <2>1
  <2>4. a - n + k \in 1 .. a
    BY <1>14, <2>3
  <2>. QED
    BY <2>1, <2>2, <2>4
<1>5. m <= n
  BY <1>1, <1>3, <1>4
<1>6. a - n \in Int /\ a - n <= a /\ a - n + m \in Int /\ a - n <= a - n + m /\ a - n + m <= a
  BY <1>3, <1>5
<1>7. Splits(a - n + m, i + 1)
  <2>1. CASE \E k \in Marked(h, i) : Splits(a - n + k, i + 1)
    <3>1. PICK k \in Marked(h, i) : Splits(a - n + k, i + 1)
      BY <2>1
    <3>2. m \in Marked(h, i) /\ k <= m
      BY <1>1, <1>3, <3>1
    <3>4. k \in 1 .. n
      BY <1>4, <3>1
    <3>3. a - n + k <= a - n + m /\ a - n + k \in Int
      BY <3>2, <3>4
    <3>. QED
      BY <1>3, <1>4, <1>6, <1>13, <3>1, <3>2, <3>3, LaterMarked
  <2>2. CASE Splits(a - n, i + 1)
    <3>1. CASE m = 0
      <4>1. a - n + m = a - n
        BY <3>1, <1>3
      <4>. QED
        BY <2>2, <4>1
    <3>2. CASE m # 0
      <4>1. m \in Marked(h, i)
        BY <3>2, <1>1, <1>3
      <4>. QED
        BY <1>3, <1>4, <1>6, <1>13, <2>2, <4>1, LaterMarked
    <3>. QED
      BY <3>1, <3>2
  <2>. QED
    BY <1>3, <2>1, <2>2
<1>8. ASSUME ~ r.whole PROVE Unended(a, i) /\ Splits(a, i + 1)
  <2>1. Unended(a, i)
    <3>1. SUFFICES ASSUME NEW k \in 1 .. a, Wire[k] = Last(Tokens(i))
                   PROVE  FALSE
      BY <1>13 DEF Unended
    <3>2. k > a - n
      BY <1>3, <1>13, <3>1 DEF Unended
    <3>3. k - (a - n) \in 1 .. n /\ a - n + (k - (a - n)) = k
      BY <1>14, <3>2
    <3>4. h.ref[k - (a - n)] = Last(Tokens(i))
      BY <1>3, <3>1, <3>3 DEF Segment
    <3>5. Last(Tokens(i)) \in ToSet(h.ref)
      BY <1>0, <1>3, <3>3, <3>4, RefFacts DEF ToSet
    <3>. QED
      BY <1>2, <1>8, <3>5
  <2>2. Splits(a, i + 1)
    BY <1>6, <1>7, <2>1, UnendedSplits
  <2>. QED
    BY <2>1, <2>2
<1>9. Segment(r, a)
  BY <1>2 DEF Segment
<1>10. Heading(r, a)
  BY <1>2, <1>3, <1>7, <1>8 DEF Heading, Passed
<1>11. Working(r, a)
  BY <1>2, <1>9, <1>10 DEF Working, Between
<1>12. Typed(r)
  BY <1>2, <1>3, <1>5 DEF Typed
<1>. QED
  BY <1>1, <1>2, <1>11, <1>12 DEF Good

\* What the parser is given: nothing of it has been parsed.
Resumed(h, a) ==
    /\ Typed(h) /\ Segment(h, a)
    /\ h.life = "open" /\ h.current = 0 /\ h.reading /\ h.file = "none" /\ h.pushed = <<>>
    /\ ~ h.upgrade /\ h.max = 0 /\ ~ h.whole
    /\ \/ /\ h.parsing = 0
          /\ \E d \in 0 .. MaxRequests : Done(h.out, d) /\ Splits(a - Len(h.ref), d + 1)
       \/ /\ h.parsing > 0 /\ h.parsing \in DOMAIN script /\ Done(h.out, h.parsing - 1)
          /\ Splits(a - Len(h.ref), h.parsing + 1) /\ Unended(a - Len(h.ref), h.parsing)

\* The first head of the read is that of the next request.
LEMMA NextHead ==
    ASSUME ScriptOK, NEW h \in Session, NEW a \in Nat, a <= Len(Wire), Segment(h, a),
           NEW d \in Nat, Splits(a - Len(h.ref), d + 1), Heads(h) # {}
    PROVE  /\ HeadOf(h) = d + 1 /\ d + 1 \in DOMAIN script
           /\ Unended(a - Len(h.ref), d + 1)
           /\ \E k \in Marked(h, d + 1) : Splits(a - Len(h.ref) + k, (d + 1) + 1)
<1>1. PICK n \in Nat, m \in Nat :
          /\ n = Len(h.ref) /\ m = Min(Heads(h)) /\ m \in 1 .. n /\ n <= a
          /\ h.ref[m].part = "head" /\ \A k \in Heads(h) : m <= k
  BY HeadsFacts, RefFacts DEF Segment
<1>2. n <= a /\ m >= 1 /\ m <= n
  BY <1>1
<1>3. PICK p \in Nat, q \in Nat : p = a - n /\ q = p + m /\ q <= a /\ q > p /\ q >= 1
  BY <1>2
<1>4. Len(Wire) \in Nat /\ \A k \in 1 .. a : k \in 1 .. Len(Wire)
  BY WireFacts
<1>5. q \in 1 .. Len(Wire)
  BY <1>3, <1>4
<1>6. Wire[q] = h.ref[m]
  BY <1>1, <1>3 DEF Segment
<1>7. ASSUME NEW k \in 1 .. Len(Wire), Wire[k].part = "head", k > p PROVE q <= k
  <2>1. CASE k > a
    BY <1>3, <1>4, <2>1
  <2>2. CASE k <= a
    <3>1. PICK j \in Nat : j = k - p /\ j \in 1 .. n /\ p + j = k
      BY <1>2, <1>3, <1>4, <1>7, <2>2
    <3>2. h.ref[j] = Wire[k]
      BY <1>1, <1>3, <3>1 DEF Segment
    <3>3. j \in Heads(h)
      BY <1>1, <1>7, <3>1, <3>2, RefFacts DEF Heads
    <3>4. m <= j
      BY <1>1, <3>3
    <3>5. p + m <= p + j
      BY <3>4
    <3>. QED
      BY <1>3, <3>1, <3>5
  <2>. QED
    BY <1>4, <2>1, <2>2
<1>8. Splits(p, d + 1) /\ Wire[q].part = "head"
  <2>1. a - Len(h.ref) = p
    BY <1>1, <1>3
  <2>. QED
    BY <1>1, <1>6, <2>1
<1>9. Wire[q].req = d + 1
  <2>1. p \in Int /\ q > p
    BY <1>3
  <2>2. \A k \in 1 .. Len(Wire) : Wire[k].part = "head" /\ k > p => q <= k
    BY <1>7
  <2>. QED
    BY <1>5, <1>8, <2>1, <2>2, FirstHead
<1>10. Splits(q, (d + 1) + 1) /\ Unended(q - 1, d + 1)
  BY <1>5, <1>8, <1>9, HeadSplits
<1>11. Unended(p, d + 1)
  <2>1. q - 1 >= p
    BY <1>3
  <2>. QED
    BY <1>3, <1>4, <1>10, <2>1 DEF Unended
<1>12. m \in Marked(h, d + 1)
  BY <1>1, <1>6, <1>9, RefFacts DEF Marked
<1>13. HeadOf(h) = d + 1
  BY <1>1, <1>6, <1>9 DEF HeadOf
<1>14. Splits(a - Len(h.ref) + m, (d + 1) + 1) /\ Unended(a - Len(h.ref), d + 1)
  BY <1>1, <1>3, <1>10, <1>11
<1>15. d + 1 \in DOMAIN script
  BY <1>5, <1>9, WireFacts
<1>. QED
  BY <1>12, <1>13, <1>14, <1>15

LEMMA ParserKeeps ==
    ASSUME ScriptOK, NEW h, NEW a \in Nat, a <= Len(Wire), Resumed(h, a)
    PROVE  Good(RunParser[h], a)
<1>1. Typed(h) /\ h \in Session /\ Segment(h, a) /\ h.parsing \in 0 .. MaxRequests
  BY TypedFacts DEF Resumed
<1>2. PICK i \in 0 .. MaxRequests : i = Current(h)
  BY <1>1, HeadsFacts
<1>3. RunParser[h] = IF i = 0 THEN h ELSE IF What(i) = "junk" THEN FinishSession(h) ELSE Parsed(h, i)
  BY <1>1, <1>2, ParserValue
<1>4. Good(FinishSession(h), a)
  BY <1>1, FinishedGood
<1>5. CASE i = 0
  <2>1. h.parsing = 0 /\ Heads(h) = {}
    BY <1>1, <1>2, <1>5, HeadsFacts DEF Current
  <2>2. PICK d \in 0 .. MaxRequests : Done(h.out, d) /\ Splits(a - Len(h.ref), d + 1)
    BY <2>1 DEF Resumed
  <2>3. PICK n \in Nat : n = Len(h.ref) /\ n <= a
    BY <1>1, RefFacts DEF Segment
  <2>12. n <= a
    BY <2>3
  <2>4. PICK p \in Nat : p = a - n
    BY <2>12
  <2>5. Len(Wire) \in Nat
    BY WireFacts
  <2>6. ASSUME NEW k \in 1 .. a, k > p, Wire[k].part = "head" PROVE FALSE
    <3>1. PICK j \in Nat : j = k - p /\ j \in 1 .. n /\ p + j = k
      BY <2>4, <2>6, <2>12, SMTT(30)
    <3>2. h.ref[j] = Wire[k]
      BY <1>1, <2>3, <2>4, <3>1 DEF Segment
    <3>. QED
      BY <1>1, <2>1, <2>3, <2>6, <3>1, <3>2, RefFacts DEF Heads
  <2>7. p <= a
    BY <2>3, <2>4
  <2>8. ASSUME NEW k \in 1 .. Len(Wire), Wire[k].part = "head" PROVE k > a <=> k > p
    BY <2>5, <2>6, <2>7, <2>8
  <2>9. \A k \in 1 .. Len(Wire) : Wire[k].part = "head" => (k > p <=> Wire[k].req >= d + 1)
    BY <2>2, <2>3, <2>4 DEF Splits
  <2>10. Splits(a, d + 1)
    BY <2>8, <2>9 DEF Splits
  <2>11. Between(h, a)
    BY <2>1, <2>2, <2>10 DEF Resumed, Between, Idle
  <2>13. Good(h, a)
    BY <1>1, <2>11 DEF Resumed, Good, Working
  <2>. QED
    BY <1>3, <1>5, <2>13
<1>6. CASE i # 0
  <2>0. i \in 1 .. MaxRequests
    BY <1>6
  <2>1. CASE h.parsing = 0
    <3>1. Heads(h) # {} /\ i = HeadOf(h)
      BY <1>2, <1>6, <2>1 DEF Current
    <3>2. PICK d \in 0 .. MaxRequests : Done(h.out, d) /\ Splits(a - Len(h.ref), d + 1)
      BY <2>1 DEF Resumed
    <3>3. d \in Nat
      OBVIOUS
    <3>4. /\ i = d + 1 /\ i \in DOMAIN script /\ Unended(a - Len(h.ref), i)
          /\ \E k \in Marked(h, i) : Splits(a - Len(h.ref) + k, i + 1)
      BY <1>1, <3>1, <3>2, <3>3, NextHead
    <3>5. Done(h.out, i - 1)
      <4>1. i - 1 = d
        BY <3>3, <3>4
      <4>. QED
        BY <3>2, <4>1
    <3>6. Good(Parsed(h, i), a)
      BY <1>1, <2>0, <3>4, <3>5, ParsedKeeps DEF Resumed
    <3>. QED
      BY <1>3, <1>4, <1>6, <3>6
  <2>2. CASE h.parsing > 0
    <3>1. i = h.parsing
      BY <1>2, <2>2 DEF Current
    <3>2. /\ Done(h.out, i - 1) /\ Splits(a - Len(h.ref), i + 1) /\ Unended(a - Len(h.ref), i)
          /\ i \in DOMAIN script
      BY <2>2, <3>1 DEF Resumed
    <3>6. Good(Parsed(h, i), a)
      BY <1>1, <2>0, <3>2, ParsedKeeps DEF Resumed
    <3>. QED
      BY <1>3, <1>4, <1>6, <3>6
  <2>. QED
    BY <1>1, <2>1, <2>2
<1>. QED
  BY <1>5, <1>6

\* The request that h answers is answered.
Finishing(h, a) ==
    /\ Typed(h) /\ Segment(h, a)
    /\ h.life = "open" /\ ~ h.reading /\ ~ h.upgrade /\ h.file = "none" /\ h.pushed = <<>>
    /\ h.parsing > 0 /\ Done(h.out, h.parsing) /\ Passed(h, a)

LEMMA FinishKeeps ==
    ASSUME ScriptOK, NEW h, NEW a \in Nat, a <= Len(Wire), Finishing(h, a)
    PROVE  Good(FinishRequest[h], a) /\ FinishRequest[h] \in Parsing
<1>1. /\ Typed(h) /\ h \in Session /\ Segment(h, a) /\ h.parsing \in 0 .. MaxRequests
      /\ h.max <= Len(h.ref)
  BY TypedFacts DEF Finishing, Typed
<1>2. PICK n \in Nat, m \in Nat : n = Len(h.ref) /\ m = h.max /\ m <= n /\ n <= a
  BY <1>1, TypedFacts DEF Segment
<1>3. n <= a /\ m <= n
  BY <1>2
<1>4. FinishRequest[h] = RunParser[Restarted(h)]
  <2>1. ~ (h.reading \/ h.upgrade \/ h.max > Len(h.ref))
    BY <1>2 DEF Finishing
  <2>. QED
    BY <1>1, <2>1 DEF FinishRequest, Restarted
<1>5. PICK r \in Session :
          /\ r = Restarted(h)
          /\ r.current = 0 /\ r.reading /\ r.parsing = 0 /\ ~ r.whole /\ r.max = 0
          /\ r.ref = Remainder(h) /\ r.life = h.life /\ r.pushed = h.pushed
          /\ r.upgrade = h.upgrade /\ r.file = h.file
          /\ r.out = h.out /\ r.flying = h.flying /\ r.buffered = h.buffered
  BY <1>1, RestartedType
<1>6. /\ Len(r.ref) = n - m /\ \A k \in 1 .. n - m : r.ref[k] = h.ref[m + k]
  BY <1>1, <1>2, <1>5, RemainderFacts
<1>7. Segment(r, a)
  <2>1. n - m <= a
    BY <1>3
  <2>2. ASSUME NEW k \in 1 .. n - m PROVE r.ref[k] = Wire[a - (n - m) + k]
    <3>1. m + k \in 1 .. n /\ a - n + (m + k) = a - (n - m) + k
      BY <1>3
    <3>2. h.ref[m + k] = Wire[a - n + (m + k)]
      BY <1>1, <1>2, <3>1 DEF Segment
    <3>. QED
      BY <1>6, <3>1, <3>2
  <2>. QED
    BY <1>6, <2>1, <2>2 DEF Segment
<1>8. Splits(a - Len(r.ref), h.parsing + 1)
  <2>1. Splits(a - n + m, h.parsing + 1)
    BY <1>2 DEF Finishing, Passed
  <2>2. a - n + m = a - (n - m)
    BY <1>3
  <2>. QED
    BY <1>6, <2>1, <2>2
<1>9. Typed(r)
  <2>1. 0 <= Len(r.ref)
    BY <1>3, <1>6
  <2>. QED
    BY <1>1, <1>5, <2>1 DEF Typed
<1>10. Resumed(r, a)
  BY <1>1, <1>5, <1>7, <1>8, <1>9 DEF Finishing, Resumed
<1>11. Good(RunParser[r], a) /\ RunParser[r] \in Parsing
  BY <1>5, <1>10, ParserKeeps, ParserType
<1>. QED
  BY <1>4, <1>5, <1>11

\* The request that h is in is to be answered.
Answerable(h, a) ==
    /\ Typed(h) /\ Segment(h, a)
    /\ h.life = "open" /\ ~ h.reading /\ h.pushed = <<>>
    /\ h.current > 0 /\ Done(h.out, h.current - 1) /\ Passed(h, a)

LEMMA AnswerableFacts ==
    ASSUME NEW h, NEW a, Answerable(h, a)
    PROVE  /\ h \in Session /\ h.current \in 1 .. MaxRequests /\ h.parsing = h.current
           /\ h.out \in Seq(Written) /\ h.flying \in Nat /\ h.buffered \in Int
BY TypedFacts DEF Answerable

LEMMA RespondKeeps ==
    ASSUME ScriptOK, NEW h, NEW a \in Nat, a <= Len(Wire), Answerable(h, a),
           NEW status \in Nat \ {206}
    PROVE  Good(Respond(h, status, 1), a) /\ Respond(h, status, 1) \in Parsing
<1>1. /\ h \in Session /\ h.current \in 1 .. MaxRequests /\ h.parsing = h.current
      /\ h.out \in Seq(Written) /\ h.flying \in Nat /\ h.buffered \in Int
  BY AnswerableFacts
<1>2. PICK s \in Session : Responded(h, status, s) /\ Respond(h, status, 1) = FinishRequest[s]
  BY <1>1, RespondValue
<1>3. PICK i \in 1 .. MaxRequests : i = h.current
  BY <1>1
<1>4. PICK x \in Written : /\ x = HeaderOf(h, status) /\ x.req = i /\ x.part = "header"
                           /\ x.status = status /\ x.n = 1 /\ Weight(x) = 1
  BY <1>3, ItemType DEF HeaderOf
<1>5. PICK y \in Written : /\ y = BodyOf(h, status) /\ y.req = i /\ y.part = "data"
                           /\ y.at = 0 /\ y.n = 1 /\ Weight(y) = 1
  BY <1>3, ItemType DEF BodyOf
<1>6. PICK o : o = Append(h.out, x)
  OBVIOUS
<1>7. Begun(o, i, 1, 0, 0)
  <2>1. Done(h.out, i - 1)
    BY <1>3 DEF Answerable
  <2>2. Due(x) = 1 /\ Promised(x) = 1 /\ x.status # 206
    BY <1>4 DEF Due, Promised
  <2>3. Due(x) <= Promised(x)
    BY <2>2
  <2>. QED
    BY <1>4, <1>6, <2>1, <2>2, <2>3, HeaderFollows
<1>8. s.out = Append(o, y)
  BY <1>2, <1>4, <1>5, <1>6 DEF Responded
<1>9. Done(s.out, i)
  <2>1. Begun(Append(o, y), i, 1, 0 + y.n, 0 + y.n)
    BY <1>5, <1>7, DataFollows
  <2>2. 0 + y.n = 1
    BY <1>5
  <2>. QED
    BY <1>8, <2>1, <2>2, BegunEnds
<1>10. Paid(s.flying, s.buffered, s.out)
  <2>1. Paid(h.flying, h.buffered, h.out)
    BY DEF Answerable, Typed
  <2>2. o \in Seq(Written) /\ h.flying + 1 \in Nat /\ h.buffered + 1 \in Int
    BY <1>1, <1>7, SMTT(30) DEF Begun
  <2>3. Paid(h.flying + 1, h.buffered + 1, o)
    BY <1>1, <1>4, <1>6, <2>1, PaidWrite
  <2>4. Paid((h.flying + 1) + 1, (h.buffered + 1) + 1, s.out)
    BY <1>5, <1>8, <2>2, <2>3, PaidWrite
  <2>5. (h.flying + 1) + 1 = h.flying + 2 /\ (h.buffered + 1) + 1 = h.buffered + 2
    BY <1>1
  <2>. QED
    BY <1>2, <2>4, <2>5 DEF Responded
<1>11. Typed(s)
  BY <1>2, <1>9, <1>10 DEF Responded, Answerable, Typed, Done
<1>12. Finishing(s, a)
  <2>1. Segment(s, a)
    BY <1>2, ZenonT(30) DEF Responded, Answerable, Segment
  <2>2. Passed(s, a)
    BY <1>2 DEF Responded, Answerable, Passed
  <2>3. s.parsing = i /\ i > 0
    BY <1>1, <1>2, <1>3 DEF Responded
  <2>4. /\ s.life = "open" /\ ~ s.reading /\ ~ s.upgrade /\ s.file = "none"
        /\ s.pushed = <<>>
    BY <1>2 DEF Responded, Answerable
  <2>. QED
    BY <1>9, <1>11, <2>1, <2>2, <2>3, <2>4 DEF Finishing
<1>. QED
  BY <1>2, <1>12, FinishKeeps

LEMMA StartKeeps ==
    ASSUME ScriptOK, NEW h, NEW a \in Nat, a <= Len(Wire), Good(h, a), Waiting(h)
    PROVE  Good(StartRequest[h], a) /\ StartRequest[h] \in Parsing
<1>1. /\ Typed(h) /\ h \in Session /\ h.whole /\ h.current = 0 /\ h.parsing > 0
      /\ h.life = "open" /\ h.parsing \in 1 .. MaxRequests
  BY TypedFacts DEF Good, Waiting, Typed
<1>2. /\ Segment(h, a) /\ h.pushed = <<>> /\ ~ h.upgrade /\ h.file = "none"
      /\ Done(h.out, h.parsing - 1) /\ Passed(h, a)
  BY <1>1 DEF Good, Working, Between, Idle, Heading, Serving
<1>3. PICK b \in Session :
          /\ b = Begin(h)
          /\ ~ b.reading /\ b.current = h.parsing
          /\ b.ref = h.ref /\ b.max = h.max /\ b.life = h.life
          /\ b.parsing = h.parsing /\ b.whole = h.whole
          /\ b.pushed = h.pushed /\ b.file = h.file /\ b.out = h.out
          /\ b.flying = h.flying /\ b.buffered = h.buffered
  BY <1>1, BeginType
<1>4. Typed(b)
  BY <1>1, <1>3 DEF Typed
<1>5. Segment(b, a) /\ Passed(b, a)
  BY <1>2, <1>3 DEF Segment, Passed
<1>6. Answerable(b, a)
  BY <1>1, <1>2, <1>3, <1>4, <1>5 DEF Answerable
<1>7. PICK i \in 1 .. MaxRequests : i = b.current
  BY <1>1, <1>3
<1>8. /\ b.out \in Seq(Written) /\ b.flying \in Nat /\ b.buffered \in Int /\ b.current \in {0, b.parsing}
      /\ InOrder(b.out) /\ Paid(b.flying, b.buffered, b.out)
  BY <1>4, TypedFacts DEF Typed
<1>9. PICK s : s = StartRequest[h] /\ Started(h, s)
  BY <1>1, StartOptions
<1>15. SUFFICES Good(s, a)
  BY <1>1, <1>9, StartRequestType
<1>10. CASE s = FinishSession(h)
  BY <1>1, <1>9, <1>10, FinishedGood
<1>11. CASE s = Upgraded(b)
  <2>1. PICK x \in Written :
            /\ x = Item(b, "header", 101, 0, 0)
            /\ \E t \in Session :
                  /\ t = Upgraded(b) /\ t.life = "upgraded" /\ ~ t.whole
                  /\ t.ref = <<>> /\ t.max = 0 /\ t.current = b.current /\ t.parsing = b.parsing
                  /\ t.out = Append(b.out, x) /\ t.flying = 0 /\ t.buffered = b.buffered + 1
    BY <1>7, UpgradedType
  <2>2. x.req = i /\ x.part = "header" /\ x.status = 101 /\ x.n = 0 /\ Weight(x) = 1
    BY <1>7, <2>1, ItemType
  <2>3. PICK o : o = Append(b.out, x)
    OBVIOUS
  <2>4. Done(b.out, i - 1)
    BY <1>2, <1>3, <1>7
  <2>9. Due(x) = 0 /\ Promised(x) = 0 /\ Due(x) <= Promised(x)
    BY <2>2 DEF Due, Promised
  <2>10. Begun(o, i, Due(x), 0, IF x.status = 206 THEN script[i].from ELSE 0)
    BY <2>2, <2>3, <2>4, <2>9, HeaderFollows
  <2>5. InOrder(o) /\ o \in Seq(Written)
    BY <2>10 DEF Begun
  <2>6. Paid(b.flying + 1, b.buffered + 1, o)
    BY <1>8, <2>2, <2>3, PaidWrite
  <2>7. Ended(b, o, b.buffered + 1, s)
    BY <1>11, <2>1, <2>3 DEF Ended
  <2>8. b.flying + 1 \in Nat /\ b.buffered + 1 \in Int
    BY <1>8
  <2>. QED
    BY <1>8, <1>9, <2>5, <2>6, <2>7, <2>8, EndedGood, SMTT(30)
<1>12. CASE \E status \in {400, 405} : s = Respond(b, status, 1)
  <2>1. PICK status \in Nat \ {206} : s = Respond(b, status, 1)
    BY <1>12
  <2>. QED
    BY <1>6, <1>9, <2>1, RespondKeeps
<1>13. CASE s = [FinishSession(Respond(b, 400, 1)) EXCEPT !.life = "unhandled"]
  <2>1. PICK r : r = Respond(b, 400, 1) /\ Good(r, a)
    BY <1>6, RespondKeeps
  <2>2. r \in Session /\ r.out \in Seq(Written) /\ r.flying \in Nat /\ r.buffered \in Int
        /\ r.current \in {0, r.parsing} /\ InOrder(r.out) /\ Paid(r.flying, r.buffered, r.out)
    BY <2>1, TypedFacts DEF Good, Typed
  <2>3. s = [FinishSession(r) EXCEPT !.life = "unhandled"]
    BY <1>13, <2>1
  <2>4. Ended(r, r.out, r.buffered, s)
    <3>1. PICK t \in Session :
              /\ t = [FinishSession(r) EXCEPT !.life = "unhandled"]
              /\ t.life = "unhandled" /\ ~ t.whole /\ t.ref = <<>> /\ t.max = 0
              /\ t.current = r.current /\ t.parsing = r.parsing
              /\ t.out = r.out /\ t.flying = 0 /\ t.buffered = r.buffered
      BY <2>2, UnhandledType
    <3>2. s = t
      BY <2>3, <3>1
    <3>. QED
      BY <3>1, <3>2 DEF Ended
  <2>. QED
    BY <1>9, <2>2, <2>4, EndedGood
<1>14. CASE ~ b.upgrade /\ s = [b EXCEPT !.file = "open"]
  <2>1. s \in Session /\ s.file = "open" /\ ~ s.upgrade
        /\ ~ s.reading /\ s.current = b.current
        /\ s.ref = b.ref /\ s.max = b.max /\ s.life = b.life
        /\ s.parsing = b.parsing /\ s.whole = b.whole
        /\ s.pushed = b.pushed /\ s.out = b.out
        /\ s.flying = b.flying /\ s.buffered = b.buffered
    BY <1>3, <1>14, ZenonT(30) DEF Session
  <2>2. Typed(s)
    BY <1>4, <2>1 DEF Typed
  <2>3. Segment(s, a) /\ Passed(s, a)
    BY <1>5, <2>1 DEF Segment, Passed
  <2>4. s.current > 0 /\ Done(s.out, s.current - 1)
    BY <1>1, <1>2, <1>3, <2>1
  <2>5. Working(s, a)
    BY <1>2, <1>3, <2>1, <2>3, <2>4 DEF Working, Serving
  <2>. QED
    BY <1>1, <1>3, <1>9, <2>1, <2>2, <2>5 DEF Good
<1>. QED
  BY <1>2, <1>3, <1>9, <1>10, <1>11, <1>12, <1>13, <1>14 DEF Started

-----------------------------------------------------------------------------
(* The steps                                                                   *)

\* What is said of a session speaks of the state only through the script.
LEMMA SameScript ==
    ASSUME script' = script
    PROVE  /\ Wire' = Wire /\ (ScriptOK' <=> ScriptOK)
           /\ \A h : Typed(h)' <=> Typed(h)
           /\ \A h, a : Working(h, a)' <=> Working(h, a)
<1>1. Wire' = Wire /\ \A i : Tokens(i)' = Tokens(i)
  BY DEF Wire, Tokens, Parts, What
<1>2. ScriptOK' <=> ScriptOK
  BY DEF ScriptOK
<1>3. \A x : Due(x)' = Due(x) /\ Promised(x)' = Promised(x)
  BY DEF Due, Promised
<1>4. \A out, i : Complete(out, i)' <=> Complete(out, i)
  BY <1>3 DEF Complete
<1>5. \A out, k : Follows(out, k)' <=> Follows(out, k)
  BY <1>4 DEF Follows
<1>6. \A out : InOrder(out)' <=> InOrder(out)
  BY <1>5 DEF InOrder
<1>7. \A out, d : Done(out, d)' <=> Done(out, d)
  BY <1>4, <1>6 DEF Done
<1>8. \A out : NextAt(out)' = NextAt(out)
  BY DEF NextAt
<1>9. \A out, i, total, s, pos : Begun(out, i, total, s, pos)' <=> Begun(out, i, total, s, pos)
  BY <1>3, <1>6, <1>8 DEF Begun
<1>10. \A h, a : Segment(h, a)' <=> Segment(h, a)
  BY <1>1 DEF Segment
<1>11. \A p, i : (Splits(p, i)' <=> Splits(p, i)) /\ (Unended(p, i)' <=> Unended(p, i))
  BY <1>1 DEF Splits, Unended
<1>12. \A h, a : Passed(h, a)' <=> Passed(h, a)
  BY <1>11 DEF Passed
<1>13. \A h, a : Between(h, a)' <=> Between(h, a)
  BY <1>7, <1>11, <1>12 DEF Between, Idle, Heading
<1>14. \A i : First(i)' = First(i)
  BY DEF First, ParseRange
<1>15. \A h : Total(h)' = Total(h)
  BY DEF Total, ParseRange
<1>16. \A h : Sending(h)' <=> Sending(h)
  BY <1>7, <1>9, <1>14, <1>15 DEF Sending
<1>17. \A h, a : Serving(h, a)' <=> Serving(h, a)
  BY <1>7, <1>12, <1>16 DEF Serving
<1>18. \A h, a : Working(h, a)' <=> Working(h, a)
  BY <1>10, <1>13, <1>17 DEF Working
<1>19. \A h : Typed(h)' <=> Typed(h)
  BY <1>6 DEF Typed
<1>. QED
  BY <1>1, <1>2, <1>18, <1>19

Disk == [kind : {"none", "directory", "regular"}, size : 0 .. MaxSize]

\* z is a session that a step may leave behind.
Left(z, a, size, lost) ==
    /\ Typed(z)
    /\ z.life = "aborted" => lost
    /\ z.life = "open" => /\ Working(z, a) /\ ~ Waiting(z)
                          /\ z.file = "read" /\ ~ lost => z.size = size

LEMMA StepKeeps ==
    ASSUME IInv, script' = script, arrived' \in 0 .. Len(Wire), disk' \in Disk,
           shrunk' \in BOOLEAN, faults' \in 0 .. MaxFaults,
           Left(http', arrived', disk'.size, shrunk')
    PROVE  IInv'
<1>1. PICK z, a, size, lost : z = http' /\ a = arrived' /\ size = disk'.size /\ lost = shrunk'
  OBVIOUS
<1>2. Left(z, a, size, lost)
  BY <1>1
<1>3. Typed(z) /\ (z.life = "aborted" => lost)
  BY <1>2 DEF Left
<1>4. z.life = "open" => /\ Working(z, a) /\ (z.current = 0 => ~ z.whole)
                         /\ z.file = "read" /\ ~ lost => z.size = size
  BY <1>2 DEF Left, Waiting
<1>5. Typed(z)' /\ (Working(z, a)' <=> Working(z, a)) /\ Wire' = Wire /\ ScriptOK'
  BY <1>3, SameScript DEF IInv
<1>. QED
  BY <1>1, <1>3, <1>4, <1>5 DEF IInv, Disk

LEMMA IInvFacts ==
    ASSUME IInv
    PROVE  /\ ScriptOK /\ arrived \in Nat /\ arrived <= Len(Wire) /\ Len(Wire) \in Nat
           /\ arrived \in 0 .. Len(Wire) /\ disk \in Disk /\ shrunk \in BOOLEAN
           /\ faults \in 0 .. MaxFaults /\ MaxFaults \in Nat
           /\ disk.kind \in {"none", "directory", "regular"} /\ disk.size \in 0 .. MaxSize
           /\ Typed(http) /\ http \in Session
           /\ Left(http, arrived, disk.size, shrunk)
           /\ Open => Working(http, arrived) /\ ~ Waiting(http)
<1>1. ScriptOK /\ arrived \in 0 .. Len(Wire) /\ disk \in Disk /\ Typed(http)
  BY DEF IInv, Disk
<1>2. Len(Wire) \in Nat
  BY <1>1, WireFacts
<1>3. arrived \in Nat /\ arrived <= Len(Wire)
  BY <1>1, <1>2
<1>4. disk.kind \in {"none", "directory", "regular"} /\ disk.size \in 0 .. MaxSize
  BY <1>1 DEF Disk
<1>5. Left(http, arrived, disk.size, shrunk)
  BY DEF IInv, Left, Waiting
<1>6. Open => Working(http, arrived) /\ ~ Waiting(http)
  BY <1>5 DEF Left, Open
<1>7. http \in Session
  BY <1>1 DEF Typed
<1>. QED
  BY <1>1, <1>2, <1>3, <1>4, <1>5, <1>6, <1>7, HttpSessionAssumption DEF IInv

\* No chunk is asked for.
Quiet(h) == h.life = "open" => h.file # "read"

LEMMA ParserCurrent ==
    ASSUME NEW r \in Session
    PROVE  RunParser[r].current = r.current
<1>1. PICK i \in 0 .. MaxRequests : i = Current(r)
  BY HeadsFacts
<1>2. FinishSession(r).current = r.current
  BY FinishSessionType
<1>3. ASSUME i # 0 PROVE Parsed(r, i).current = r.current
  <2>1. i \in 1 .. MaxRequests
    BY <1>3
  <2>2. Parsed(r, i) = [r EXCEPT !.parsing = i, !.max = Parsed(r, i).max,
                                 !.whole = (Last(Tokens(i)) \in ToSet(r.ref))]
    BY <2>1, ParsedType
  <2>. QED
    BY <2>2 DEF Session
<1>. QED
  BY <1>1, <1>2, <1>3, ParserValue

LEMMA FinishQuiet ==
    ASSUME NEW h \in Session, NEW a, Good(FinishRequest[h], a)
    PROVE  Quiet(FinishRequest[h])
<1>1. PICK f : f = FinishRequest[h] /\ Good(f, a)
  OBVIOUS
<1>2. CASE h.reading \/ h.upgrade \/ h.max > Len(h.ref)
  <2>1. f = Abort(h)
    BY <1>1, <1>2 DEF FinishRequest
  <2>. QED
    BY <1>1, <2>1, AbortType DEF Quiet
<1>3. CASE ~ (h.reading \/ h.upgrade \/ h.max > Len(h.ref))
  <2>1. h.max <= Len(h.ref)
    BY <1>3, RefFacts DEF Session
  <2>2. f = RunParser[Restarted(h)]
    BY <1>1, <1>3 DEF FinishRequest, Restarted
  <2>3. PICK r \in Session : r = Restarted(h) /\ r.current = 0
    BY <2>1, RestartedType
  <2>4. f.current = 0
    BY <2>2, <2>3, ParserCurrent
  <2>5. f.life = "open" => f.file = "none"
    BY <1>1, <2>4 DEF Good, Working, Between, Serving
  <2>. QED
    BY <1>1, <2>5 DEF Quiet
<1>. QED
  BY <1>2, <1>3

LEMMA RespondQuiet ==
    ASSUME ScriptOK, NEW h, NEW a \in Nat, a <= Len(Wire), Answerable(h, a),
           NEW status \in Nat \ {206}
    PROVE  Quiet(Respond(h, status, 1))
<1>1. PICK s \in Session : Respond(h, status, 1) = FinishRequest[s]
  BY AnswerableFacts, RespondValue
<1>2. Good(FinishRequest[s], a)
  BY <1>1, RespondKeeps
<1>. QED
  BY <1>1, <1>2, FinishQuiet

LEMMA StartQuiet ==
    ASSUME ScriptOK, NEW h, NEW a \in Nat, a <= Len(Wire), Good(h, a), Waiting(h)
    PROVE  Quiet(StartRequest[h])
<1>1. /\ Typed(h) /\ h \in Session /\ h.whole /\ h.current = 0 /\ h.parsing > 0
      /\ h.life = "open" /\ h.parsing \in 1 .. MaxRequests
  BY TypedFacts DEF Good, Waiting, Typed
<1>2. /\ Segment(h, a) /\ h.pushed = <<>> /\ ~ h.upgrade
      /\ Done(h.out, h.parsing - 1) /\ Passed(h, a)
  BY <1>1 DEF Good, Working, Between, Idle, Heading, Serving
<1>3. PICK b \in Session :
          /\ b = Begin(h)
          /\ ~ b.reading /\ b.current = h.parsing
          /\ b.ref = h.ref /\ b.max = h.max /\ b.life = h.life
          /\ b.parsing = h.parsing /\ b.whole = h.whole
          /\ b.pushed = h.pushed /\ b.out = h.out
          /\ b.flying = h.flying /\ b.buffered = h.buffered
  BY <1>1, BeginType
<1>4. Typed(b) /\ Segment(b, a) /\ Passed(b, a)
  BY <1>1, <1>2, <1>3 DEF Typed, Segment, Passed
<1>5. Answerable(b, a)
  BY <1>1, <1>2, <1>3, <1>4 DEF Answerable
<1>6. b.current \in 1 .. MaxRequests
  BY <1>1, <1>3
<1>7. PICK s : s = StartRequest[h] /\ Started(h, s)
  BY <1>1, StartOptions
<1>8. SUFFICES Quiet(s)
  BY <1>7
<1>9. CASE s = Abort(h)
  BY <1>1, <1>9, AbortType DEF Quiet
<1>10. CASE s = FinishSession(h)
  BY <1>1, <1>10, FinishSessionType DEF Quiet
<1>11. CASE s = Upgraded(b)
  BY <1>6, <1>11, UpgradedType DEF Quiet
<1>12. CASE \E status \in {400, 405} : s = Respond(b, status, 1)
  <2>1. PICK status \in Nat \ {206} : s = Respond(b, status, 1)
    BY <1>12
  <2>. QED
    BY <1>5, <2>1, RespondQuiet
<1>13. CASE s = [FinishSession(Respond(b, 400, 1)) EXCEPT !.life = "unhandled"]
  <2>1. PICK r \in Session : r = Respond(b, 400, 1)
    BY <1>5, RespondKeeps DEF Parsing
  <2>2. s = [FinishSession(r) EXCEPT !.life = "unhandled"]
    BY <1>13, <2>1
  <2>3. s.life = "unhandled"
    BY <2>2, UnhandledType
  <2>. QED
    BY <2>3 DEF Quiet
<1>14. CASE s = [b EXCEPT !.file = "open"]
  <2>1. s.file = "open"
    BY <1>14 DEF Session
  <2>. QED
    BY <2>1 DEF Quiet
<1>. QED
  BY <1>3, <1>7, <1>9, <1>10, <1>11, <1>12, <1>13, <1>14 DEF Started

\* After the requests that wait were started.
LEMMA SettleLeaves ==
    ASSUME ScriptOK, NEW h, NEW a \in Nat, a <= Len(Wire), Good(h, a), Quiet(h),
           NEW size, NEW lost
    PROVE  Left(Settle[h], a, size, lost)
<1>. DEFINE P == {x \in Parsing : Good(x, a) /\ Quiet(x)}
<1>1. h \in P
  BY DEF Parsing, Good, Typed
<1>2. \A x \in P : Waiting(x) => StartRequest[x] \in P
  BY StartKeeps, StartQuiet
<1>3. P \subseteq Parsing
  OBVIOUS
<1>4. Settle[h] \in P /\ ~ Waiting(Settle[h])
  <2>. HIDE DEF P
  <2>. QED
    BY <1>1, <1>2, <1>3, SettleInvariant
<1>. QED
  BY <1>4 DEF Good, Quiet, Left

\* Nothing waits.
LEMMA SettleStays ==
    ASSUME NEW h \in Parsing, ~ Waiting(h)
    PROVE  Settle[h] = h
<1>1. {h} \subseteq Parsing /\ \A x \in {h} : Waiting(x) => StartRequest[x] \in {h}
  OBVIOUS
<1>2. h \in {h}
  OBVIOUS
<1>3. Settle[h] \in {h}
  BY <1>1, <1>2, SettleInvariant
<1>. QED
  BY <1>3

LEMMA InitKeeps ==
    ASSUME Init
    PROVE  IInv
<1>1. ScriptOK
  BY DEF Init, ScriptOK
<1>2. Len(Wire) \in Nat
  BY <1>1, WireFacts
<1>3. MaxSize \in Nat /\ MaxFaults \in Nat /\ MaxRequests \in Nat
  BY HttpSessionAssumption
<1>4. disk \in [kind : {"none", "directory", "regular"}, size : 0 .. MaxSize]
  BY <1>3 DEF Init
<1>5. PICK z : z = NewHttp
  OBVIOUS
<1>6. /\ z.life = "open" /\ z.reading /\ z.ref = <<>> /\ z.max = 0 /\ z.pushed = <<>>
      /\ z.parsing = 0 /\ ~ z.whole /\ z.current = 0 /\ ~ z.upgrade /\ z.file = "none"
      /\ z.out = <<>> /\ z.flying = 0 /\ z.buffered = 0
  BY <1>5 DEF NewHttp
<1>7. z \in Session
  <2>1. <<>> \in Seq(Token) /\ 0 \in 0 .. MaxRequests
    BY <1>3
  <2>. QED
    BY <1>5, <2>1 DEF NewHttp, Session
<1>8. Typed(z)
  <2>1. InOrder(<<>>) /\ Len(<<>>) = 0
    BY DEF InOrder
  <2>. QED
    BY <1>6, <1>7, <2>1, PaidNone DEF Typed
<1>9. Segment(z, 0)
  BY <1>6 DEF Segment
<1>10. Done(<<>>, 0)
  BY DEF Done, InOrder, UpTo
<1>11. Splits(0, 0 + 1)
  <2>1. \A k \in 1 .. Len(Wire) : Wire[k].req \in 1 .. MaxRequests
    BY <1>1, WireFacts
  <2>2. \A k \in 1 .. Len(Wire) : k > 0 /\ Wire[k].req >= 0 + 1
    BY <1>2, <1>3, <2>1
  <2>. QED
    BY <2>2 DEF Splits
<1>12. Working(z, 0)
  <2>1. 0 \in 0 .. MaxRequests
    BY <1>3
  <2>. QED
    BY <1>6, <1>9, <1>10, <1>11, <2>1 DEF Working, Between, Idle
<1>13. http = z /\ arrived = 0 /\ shrunk = FALSE /\ faults = 0
  BY <1>5 DEF Init
<1>14. Typed(http) /\ Working(http, arrived)
  BY <1>8, <1>12, <1>13
<1>15. http.life = "open" /\ ~ http.whole /\ http.file = "none"
  BY <1>6, <1>13
<1>16. arrived \in 0 .. Len(Wire) /\ shrunk \in BOOLEAN /\ faults \in 0 .. MaxFaults
  <2>1. 0 \in 0 .. Len(Wire)
    BY <1>2
  <2>2. 0 \in 0 .. MaxFaults
    BY <1>3
  <2>3. FALSE \in BOOLEAN
    OBVIOUS
  <2>. QED
    BY <1>13, <2>1, <2>2, <2>3, Zenon
<1>. QED
  BY <1>1, <1>4, <1>14, <1>15, <1>16 DEF IInv

LEMMA ReadKeeps ==
    ASSUME IInv, NEW n \in 1 .. Len(Wire), Read(n)
    PROVE  IInv'
<1>1. /\ ScriptOK /\ arrived \in Nat /\ arrived <= Len(Wire) /\ Len(Wire) \in Nat
      /\ disk \in Disk /\ shrunk \in BOOLEAN /\ faults \in 0 .. MaxFaults
      /\ Typed(http) /\ http \in Session
  BY IInvFacts
<1>2. Open /\ http.reading /\ arrived' = arrived + n /\ arrived + n <= Len(Wire)
      /\ UNCHANGED <<script, disk, shrunk, faults>>
  BY DEF Read
<1>3. Working(http, arrived) /\ ~ Waiting(http)
  BY <1>2, IInvFacts
<1>4. /\ http.current = 0 /\ ~ http.whole /\ http.pushed = <<>> /\ ~ http.upgrade
      /\ http.file = "none" /\ http.life = "open"
      /\ Idle(http, arrived) \/ Heading(http, arrived)
  BY <1>2, <1>3 DEF Working, Between, Serving, Waiting, Open
<1>5. PICK a \in Nat, b \in Nat : a = arrived /\ b = arrived + n /\ b <= Len(Wire) /\ b - n = a
  BY <1>1, <1>2
<1>6. PICK buf : buf = SubSeq(Wire, arrived + 1, arrived + n)
  OBVIOUS
<1>7. /\ buf \in Seq(Token) /\ Len(buf) = n
      /\ \A k \in 1 .. n : buf[k] = Wire[a + k]
  <2>1. Wire \in Seq(Token) /\ \A k \in 1 .. Len(Wire) : Wire[k] \in Token
    BY <1>1, WireFacts, ElementOfSeq
  <2>2. n \in Nat /\ n >= 1
    BY <1>1
  <2>3. a + 1 \in Int /\ b \in Int /\ b = a + n /\ buf = SubSeq(Wire, a + 1, b)
    BY <1>5, <1>6
  <2>4. \A k \in a + 1 .. b : Wire[k] \in Token
    <3>1. \A k \in a + 1 .. b : k \in 1 .. Len(Wire)
      BY <1>1, <1>5
    <3>. QED
      BY <2>1, <3>1
  <2>5. /\ SubSeq(Wire, a + 1, b) \in Seq(Token)
        /\ Len(SubSeq(Wire, a + 1, b)) = IF a + 1 <= b THEN b - (a + 1) + 1 ELSE 0
        /\ \A k \in 1 .. b - (a + 1) + 1 : SubSeq(Wire, a + 1, b)[k] = Wire[(a + 1) + k - 1]
    BY <2>3, <2>4, SubSeqProperties, SMTT(30)
  <2>6. a + 1 <= b /\ b - (a + 1) + 1 = n /\ \A k \in 1 .. n : (a + 1) + k - 1 = a + k
    BY <2>2, <2>3
  <2>. QED
    BY <2>3, <2>5, <2>6
<1>8. PICK r : r = [http EXCEPT !.ref = http.pushed \o buf, !.pushed = <<>>, !.max = 0]
  OBVIOUS
<1>9. http.pushed \o buf = buf
  BY <1>4, <1>7, ConcatEmptySeq
<1>10. r \in Session
  <2>1. <<>> \in Seq(Token)
    OBVIOUS
  <2>. QED
    BY <1>1, <1>7, <1>8, <1>9, <2>1 DEF Session
<1>11. /\ r.ref = buf /\ r.pushed = <<>> /\ r.max = 0 /\ r.life = http.life
       /\ r.reading = http.reading /\ r.parsing = http.parsing /\ r.whole = http.whole
       /\ r.current = http.current /\ r.upgrade = http.upgrade /\ r.file = http.file
       /\ r.out = http.out /\ r.flying = http.flying /\ r.buffered = http.buffered
  BY <1>1, <1>8, <1>9 DEF Session
<1>12. Segment(r, b)
  <2>1. n <= b
    BY <1>5
  <2>. QED
    BY <1>5, <1>7, <1>11, <2>1 DEF Segment
<1>13. Typed(r)
  <2>1. r.max <= Len(r.ref)
    BY <1>7, <1>11
  <2>. QED
    BY <1>1, <1>10, <1>11, <2>1 DEF Typed
<1>14. b - Len(r.ref) = a
  BY <1>5, <1>7, <1>11
<1>15. Resumed(r, b)
  <2>1. /\ r.life = "open" /\ r.current = 0 /\ r.reading /\ r.file = "none" /\ r.pushed = <<>>
        /\ ~ r.upgrade /\ r.max = 0 /\ ~ r.whole
    BY <1>2, <1>4, <1>11
  <2>2. CASE Idle(http, arrived)
    BY <1>5, <1>11, <1>12, <1>13, <1>14, <2>1, <2>2 DEF Idle, Resumed
  <2>3. CASE Heading(http, arrived)
    BY <1>4, <1>5, <1>11, <1>12, <1>13, <1>14, <2>1, <2>3 DEF Heading, Passed, Resumed
  <2>. QED
    BY <1>4, <2>2, <2>3
<1>16. PICK f : f = RunParser[r] /\ Good(f, b) /\ f \in Parsing
  BY <1>1, <1>5, <1>10, <1>11, <1>15, <1>4, ParserKeeps, ParserType
<1>17. Quiet(f)
  <2>1. f.current = 0
    BY <1>4, <1>10, <1>11, <1>16, ParserCurrent
  <2>. QED
    BY <1>16, <2>1 DEF Quiet, Good, Working, Between, Serving
<1>18. Left(Settle[f], b, disk.size, shrunk)
  BY <1>1, <1>5, <1>16, <1>17, SettleLeaves
<1>19. http' = Settle[f]
  BY <1>4, <1>6, <1>8, <1>16 DEF Read
<1>20. arrived' \in 0 .. Len(Wire)
  BY <1>1, <1>2, <1>5
<1>. QED
  BY <1>1, <1>2, <1>5, <1>18, <1>19, <1>20, StepKeeps

\* The session ends.
LEMMA EndKeeps ==
    ASSUME IInv, http' = FinishSession(http) \/ http' = [FinishSession(http) EXCEPT !.life = "closed"],
           script' = script, arrived' = arrived, disk' \in Disk, shrunk' \in BOOLEAN,
           faults' \in 0 .. MaxFaults
    PROVE  IInv'
<1>1. Typed(http) /\ http \in Session /\ arrived \in 0 .. Len(Wire)
  BY IInvFacts
<1>2. PICK f \in Session :
          /\ f = FinishSession(http) /\ f.life = "finished" /\ ~ f.whole
          /\ f.ref = <<>> /\ f.max = 0 /\ f.current = http.current /\ f.parsing = http.parsing
          /\ f.out = http.out /\ f.flying = 0 /\ f.buffered = http.buffered
  BY <1>1, FinishSessionType
<1>3. PICK z : z = http'
  OBVIOUS
<1>4. Ended(http, http.out, http.buffered, z)
  <2>1. CASE z = f
    BY <1>2, <2>1 DEF Ended
  <2>2. CASE z = [f EXCEPT !.life = "closed"]
    <3>1. /\ z \in Session /\ z.life = "closed" /\ z.flying = f.flying /\ z.whole = f.whole
          /\ z.ref = f.ref /\ z.max = f.max /\ z.current = f.current /\ z.parsing = f.parsing
          /\ z.out = f.out /\ z.buffered = f.buffered
      BY <1>2, <2>2 DEF Session
    <3>. QED
      BY <1>2, <3>1 DEF Ended
  <2>. QED
    BY <1>2, <1>3, <2>1, <2>2
<1>5. Good(z, arrived)
  BY <1>1, <1>4, TypedFacts, EndedGood DEF Typed
<1>6. Left(http', arrived', disk'.size, shrunk')
  BY <1>3, <1>4, <1>5 DEF Left, Ended, Good
<1>. QED
  BY <1>1, <1>6, StepKeeps

LEMMA WriteDoneKeeps ==
    ASSUME IInv, NEW ok \in BOOLEAN, WriteDone(ok)
    PROVE  IInv'
<1>1. /\ Typed(http) /\ http \in Session /\ arrived \in 0 .. Len(Wire) /\ disk \in Disk
      /\ shrunk \in BOOLEAN /\ faults \in 0 .. MaxFaults /\ MaxFaults \in Nat
      /\ Left(http, arrived, disk.size, shrunk)
  BY IInvFacts
<1>2. http.out \in Seq(Written) /\ http.flying \in Nat /\ http.buffered \in Int
  BY <1>1, TypedFacts
<1>3. http.flying > 0 /\ Open /\ UNCHANGED <<script, arrived, disk, shrunk>>
  BY DEF WriteDone
<1>4. faults' \in 0 .. MaxFaults
  <2>1. faults' = (IF ok THEN faults ELSE faults + 1) /\ (ok \/ faults < MaxFaults)
    BY DEF WriteDone
  <2>. QED
    BY <1>1, <2>1
<1>5. PICK w : w = Weight(http.out[Len(http.out) - http.flying + 1])
  OBVIOUS
<1>6. PICK c : c = IF ok THEN http.buffered - w ELSE http.buffered
  OBVIOUS
<1>7. Paid(http.flying - 1, c, http.out) /\ c \in Int /\ http.flying - 1 \in Nat
  <2>1. /\ Paid(http.flying - 1, http.buffered - w, http.out)
        /\ Paid(http.flying - 1, http.buffered, http.out) /\ w \in Nat
    BY <1>1, <1>2, <1>3, <1>5, PaidReport DEF Typed
  <2>2. http.buffered - w \in Int /\ http.flying - 1 \in Nat
    BY <1>2, <1>3, <2>1
  <2>. QED
    BY <1>2, <1>6, <2>1, <2>2
<1>8. PICK z : z = http' /\ z = [http EXCEPT !.flying = http.flying - 1, !.buffered = c]
  BY <1>5, <1>6 DEF WriteDone
<1>9. /\ z \in Session /\ z.flying = http.flying - 1 /\ z.buffered = c
      /\ z.ref = http.ref /\ z.pushed = http.pushed /\ z.max = http.max /\ z.life = http.life
      /\ z.reading = http.reading /\ z.parsing = http.parsing /\ z.whole = http.whole
      /\ z.current = http.current /\ z.upgrade = http.upgrade /\ z.file = http.file
      /\ z.cur = http.cur /\ z.end = http.end /\ z.size = http.size /\ z.out = http.out
  BY <1>1, <1>7, <1>8 DEF Session
<1>10. Typed(z)
  BY <1>1, <1>7, <1>9 DEF Typed
<1>11. ASSUME Working(http, arrived) PROVE Working(z, arrived)
  <2>1. Segment(z, arrived) /\ z.pushed = <<>> /\ ~ z.upgrade
    BY <1>9, <1>11 DEF Working, Segment
  <2>2. Passed(http, arrived) => Passed(z, arrived)
    BY <1>9 DEF Passed
  <2>3. Between(http, arrived) => Between(z, arrived)
    BY <1>9, <2>2 DEF Between, Idle, Heading
  <2>4. Sending(http) => Sending(z)
    BY <1>9 DEF Sending, Total
  <2>5. Serving(http, arrived) => Serving(z, arrived)
    BY <1>9, <2>2, <2>4 DEF Serving
  <2>. QED
    BY <1>11, <2>1, <2>3, <2>5 DEF Working
<1>12. Left(z, arrived, disk.size, shrunk)
  BY <1>1, <1>9, <1>10, <1>11 DEF Left, Waiting
<1>. QED
  BY <1>1, <1>3, <1>4, <1>8, <1>12, StepKeeps

LEMMA ShrinkKeeps ==
    ASSUME IInv, Shrink
    PROVE  IInv'
<1>1. /\ Typed(http) /\ arrived \in 0 .. Len(Wire) /\ disk \in Disk /\ disk.size \in 0 .. MaxSize
      /\ shrunk \in BOOLEAN /\ faults \in 0 .. MaxFaults
      /\ Left(http, arrived, disk.size, shrunk)
  BY IInvFacts
<1>2. /\ disk.size > 0 /\ shrunk' = TRUE /\ UNCHANGED <<script, arrived, http, faults>>
      /\ disk' = [disk EXCEPT !.size = disk.size - 1]
  BY DEF Shrink
<1>3. disk.size - 1 \in 0 .. MaxSize
  BY <1>1, <1>2, HttpSessionAssumption
<1>4. disk' \in Disk
  BY <1>1, <1>2, <1>3 DEF Disk
<1>5. Left(http', arrived', disk'.size, shrunk')
  BY <1>1, <1>2 DEF Left
<1>. QED
  BY <1>1, <1>2, <1>4, <1>5, StepKeeps

\* A request for the file is answered or fails.
LEMMA MayFacts ==
    ASSUME IInv, NEW ok \in BOOLEAN, May(ok)
    PROVE  faults' \in 0 .. MaxFaults
<1>1. faults \in 0 .. MaxFaults /\ MaxFaults \in Nat
  BY IInvFacts
<1>2. faults' = (IF ok THEN faults ELSE faults + 1) /\ (ok \/ faults < MaxFaults)
  BY DEF May
<1>. QED
  BY <1>1, <1>2

LEMMA OpenAnswerable ==
    ASSUME IInv, Open, http.file \in {"open", "stat"}
    PROVE  Answerable(http, arrived)
<1>1. Typed(http) /\ Working(http, arrived)
  BY IInvFacts
<1>. QED
  BY <1>1 DEF Working, Between, Serving, Answerable, Open

\* The request is answered at once.
LEMMA RespondLeaves ==
    ASSUME IInv, Answerable(http, arrived), NEW status \in Nat \ {206}, NEW size, NEW lost
    PROVE  Left(Settle[Respond(http, status, 1)], arrived, size, lost)
<1>1. ScriptOK /\ arrived \in Nat /\ arrived <= Len(Wire)
  BY IInvFacts
<1>2. PICK r : r = Respond(http, status, 1)
  OBVIOUS
<1>3. Good(r, arrived) /\ Quiet(r)
  BY <1>1, <1>2, RespondKeeps, RespondQuiet
<1>. QED
  BY <1>1, <1>2, <1>3, SettleLeaves

LEMMA FileOpenedKeeps ==
    ASSUME IInv, NEW ok \in BOOLEAN, FileOpened(ok)
    PROVE  IInv'
<1>1. /\ Typed(http) /\ http \in Session /\ arrived \in 0 .. Len(Wire) /\ disk \in Disk
      /\ shrunk \in BOOLEAN /\ Left(http, arrived, disk.size, shrunk)
  BY IInvFacts
<1>2. Open /\ http.file = "open" /\ UNCHANGED <<script, arrived, disk, shrunk>>
  BY DEF FileOpened, Answering
<1>3. faults' \in 0 .. MaxFaults
  BY MayFacts DEF FileOpened
<1>4. Answerable(http, arrived) /\ Working(http, arrived)
  BY <1>2, OpenAnswerable, IInvFacts
<1>5. CASE http' = Settle[Respond(http, 404, 1)]
  <2>1. Left(http', arrived, disk.size, shrunk)
    BY <1>4, <1>5, RespondLeaves
  <2>. QED
    BY <1>1, <1>2, <1>3, <2>1, StepKeeps
<1>6. CASE http' = [http EXCEPT !.file = "stat"]
  <2>1. PICK z : z = http'
    OBVIOUS
  <2>2. /\ z \in Session /\ z.file = "stat" /\ z.flying = http.flying
        /\ z.ref = http.ref /\ z.pushed = http.pushed /\ z.max = http.max /\ z.life = http.life
        /\ z.reading = http.reading /\ z.parsing = http.parsing /\ z.whole = http.whole
        /\ z.current = http.current /\ z.upgrade = http.upgrade /\ z.buffered = http.buffered
        /\ z.out = http.out
    BY <1>1, <1>6, <2>1 DEF Session
  <2>3. Typed(z)
    BY <1>1, <2>2 DEF Typed
  <2>4. Segment(z, arrived) /\ Passed(z, arrived)
    BY <1>4, <2>2 DEF Answerable, Segment, Passed
  <2>5. Working(z, arrived)
    BY <1>4, <2>2, <2>4 DEF Answerable, Working, Serving
  <2>6. ~ Waiting(z) /\ z.life = "open"
    BY <1>4, <2>2 DEF Answerable, Waiting
  <2>7. Left(z, arrived, disk.size, shrunk)
    BY <2>2, <2>3, <2>5, <2>6 DEF Left
  <2>. QED
    BY <1>1, <1>2, <1>3, <2>1, <2>7, StepKeeps
<1>. QED
  BY <1>5, <1>6 DEF FileOpened

LEMMA RangeType ==
    ASSUME ScriptOK, NEW i \in DOMAIN script
    PROVE  script[i].from \in Int /\ script[i].to \in Int
<1>1. PICK r \in Requests : r = script[i]
  BY DEF ScriptOK
<1>2. r.from \in Int /\ r.to \in Int
  BY HttpSessionAssumption
<1>. QED
  BY <1>1, <1>2

\* The range that is answered lies in the file.
Ranged(i, size, cur, end) ==
    LET range == ParseRange(i)
    IN  /\ end = IF range = NoRange THEN size - 1 ELSE range.to
        /\ cur = IF range = NoRange THEN -1 ELSE range.from - 1
        /\ ~ (range # NoRange /\ (\/ Beyond(range.from, size) \/ Beyond(range.to, size)
                                  \/ range.from > range.to))

LEMMA MeasuredFacts ==
    ASSUME ScriptOK, NEW i \in DOMAIN script, NEW size \in Nat, NEW cur, NEW end,
           Ranged(i, size, cur, end)
    PROVE  /\ end \in Int /\ cur \in Int
           /\ First(i) = cur + 1 /\ 0 <= cur + 1
           /\ size > 0 => cur < end /\ end < size
           /\ end = First(i) + (IF ParseRange(i) = NoRange THEN size
                                ELSE script[i].to - script[i].from + 1) - 1
           /\ ParseRange(i) # NoRange => script[i].to - script[i].from + 1 <= size
<1>1. CASE ParseRange(i) = NoRange
  <2>1. end = size - 1 /\ cur = -1 /\ First(i) = 0
    BY <1>1 DEF First, Ranged
  <2>. QED
    BY <1>1, <2>1
<1>2. CASE ParseRange(i) # NoRange
  <2>1. PICK from \in Int, to \in Int : from = script[i].from /\ to = script[i].to
    BY RangeType
  <2>2. ParseRange(i) = [from |-> from, to |-> to]
    BY <1>2, <2>1 DEF ParseRange
  <2>3. /\ end = to /\ cur = from - 1 /\ First(i) = from
        /\ ~ Beyond(from, size) /\ ~ Beyond(to, size) /\ ~ (from > to)
    BY <1>2, <2>1, <2>2 DEF First, Ranged
  <2>4. from >= 0 /\ from < size /\ to >= 0 /\ to < size /\ from <= to
    BY <2>3 DEF Beyond
  <2>5. cur = from - 1 /\ end = to /\ from - 1 + 1 = from
    BY <2>3
  <2>6. /\ end \in Int /\ cur \in Int /\ First(i) = cur + 1 /\ 0 <= cur + 1
        /\ cur < end /\ end < size
    BY <2>3, <2>4, <2>5
  <2>7. end = First(i) + (to - from + 1) - 1 /\ to - from + 1 <= size
    BY <2>3, <2>4
  <2>. QED
    BY <1>2, <2>1, <2>6, <2>7
<1>. QED
  BY <1>1, <1>2

\* s is where h is in the read and in its requests.
Same(h, s) ==
    /\ s.ref = h.ref /\ s.pushed = h.pushed /\ s.max = h.max /\ s.life = h.life
    /\ s.reading = h.reading /\ s.parsing = h.parsing /\ s.whole = h.whole
    /\ s.current = h.current /\ s.upgrade = h.upgrade

LEMMA WriteFields ==
    ASSUME NEW h \in Session, NEW x \in Written
    PROVE  \E s \in Session :
              /\ s = ResponseWrite(h, x) /\ Same(h, s)
              /\ s.file = h.file /\ s.size = h.size /\ s.cur = h.cur /\ s.end = h.end
              /\ s.out = Append(h.out, x) /\ s.flying = h.flying + 1
              /\ s.buffered = h.buffered + Weight(x)
<1>1. PICK s \in Session :
          /\ s = ResponseWrite(h, x)
          /\ s = [h EXCEPT !.out = Append(h.out, x), !.flying = h.flying + 1,
                           !.buffered = h.buffered + Weight(x)]
  BY WriteType
<1>2. /\ Same(h, s) /\ s.file = h.file /\ s.size = h.size /\ s.cur = h.cur /\ s.end = h.end
      /\ s.out = Append(h.out, x) /\ s.flying = h.flying + 1
      /\ s.buffered = h.buffered + Weight(x)
  BY <1>1 DEF Session, Same
<1>. QED
  BY <1>1, <1>2

LEMMA FileFields ==
    ASSUME NEW h \in Session, NEW file \in {"none", "open", "stat", "read", "held"}
    PROVE  \E s \in Session :
              /\ s = [h EXCEPT !.file = file] /\ Same(h, s)
              /\ s.file = file /\ s.size = h.size /\ s.cur = h.cur /\ s.end = h.end
              /\ s.out = h.out /\ s.flying = h.flying /\ s.buffered = h.buffered
<1>1. PICK s : s = [h EXCEPT !.file = file]
  OBVIOUS
<1>2. /\ s \in Session /\ Same(h, s)
      /\ s.file = file /\ s.size = h.size /\ s.cur = h.cur /\ s.end = h.end
      /\ s.out = h.out /\ s.flying = h.flying /\ s.buffered = h.buffered
  BY <1>1 DEF Session, Same
<1>. QED
  BY <1>1, <1>2

\* What Measured makes of h before the file is read.
Sized(h, size, cur, end) == [h EXCEPT !.size = size, !.end = end, !.cur = cur]

LEMMA SizedFields ==
    ASSUME NEW h \in Session, NEW size \in Nat, NEW cur \in Int, NEW end \in Int
    PROVE  \E s \in Session :
              /\ s = Sized(h, size, cur, end) /\ Same(h, s)
              /\ s.file = h.file /\ s.size = size /\ s.cur = cur /\ s.end = end
              /\ s.out = h.out /\ s.flying = h.flying /\ s.buffered = h.buffered
<1>1. PICK s : s = Sized(h, size, cur, end)
  OBVIOUS
<1>2. /\ s \in Session /\ Same(h, s)
      /\ s.file = h.file /\ s.size = size /\ s.cur = cur /\ s.end = end
      /\ s.out = h.out /\ s.flying = h.flying /\ s.buffered = h.buffered
  BY <1>1 DEF Session, Same, Sized
<1>. QED
  BY <1>1, <1>2

\* h is answering, with anything written.
InProgress(h, a) ==
    /\ h \in Session /\ h.current > 0 /\ h.current = h.parsing /\ h.max <= Len(h.ref)
    /\ Segment(h, a) /\ Passed(h, a) /\ h.pushed = <<>> /\ ~ h.upgrade
    /\ h.life = "open" /\ ~ h.reading

\* A response that is begun and goes on.
LEMMA GoesOn ==
    ASSUME NEW h, NEW a, InProgress(h, a), NEW s \in Session, Same(h, s),
           InOrder(s.out), Paid(s.flying, s.buffered, s.out),
           s.file = "held" \/ (s.file = "read" /\ Sending(s))
    PROVE  Typed(s) /\ Working(s, a) /\ ~ Waiting(s) /\ s.life = "open" /\ s \in Parsing
<1>1. Typed(s)
  BY DEF Typed, Same, InProgress
<1>2. Segment(s, a) /\ Passed(s, a)
  BY DEF Same, Segment, Passed, InProgress
<1>3. Working(s, a)
  BY <1>2 DEF Same, Working, Serving, InProgress
<1>4. ~ Waiting(s) /\ s.life = "open"
  BY DEF Same, Waiting, InProgress
<1>. QED
  BY <1>1, <1>3, <1>4 DEF Typed, Parsing

\* The size is known: the response is refused, begun and held, or will be read.
LEMMA MeasuredKeeps ==
    ASSUME IInv, Answerable(http, arrived), ~ http.upgrade, NEW lost
    PROVE  Left(Settle[Measured(http)], arrived, disk.size, lost)
<1>1. /\ ScriptOK /\ Typed(http) /\ http \in Session /\ arrived \in Nat /\ arrived <= Len(Wire)
      /\ disk.size \in 0 .. MaxSize
  BY IInvFacts
<1>2. /\ http.current \in 1 .. MaxRequests /\ http.parsing = http.current
      /\ http.out \in Seq(Written) /\ http.flying \in Nat /\ http.buffered \in Int
  BY AnswerableFacts
<1>3. PICK i \in 1 .. MaxRequests : i = http.current /\ i \in DOMAIN script /\ http.parsing = i
  BY <1>2 DEF Answerable, Passed
<1>4. PICK size \in Nat : size = disk.size
  BY <1>1, HttpSessionAssumption
<1>5. PICK range : range = ParseRange(i)
  OBVIOUS
<1>6. PICK end : end = IF range = NoRange THEN size - 1 ELSE range.to
  OBVIOUS
<1>7. PICK cur : cur = IF range = NoRange THEN -1 ELSE range.from - 1
  OBVIOUS
<1>8. PICK status : status = IF range = NoRange THEN 200 ELSE 206
  OBVIOUS
<1>9. PICK z : z = Measured(http)
  OBVIOUS
<1>. DEFINE Refused == range # NoRange /\ (\/ Beyond(range.from, size) \/ Beyond(range.to, size)
                                           \/ range.from > range.to)
<1>10. CASE Refused
  <2>1. z = Respond(http, 400, 1)
    BY <1>3, <1>4, <1>5, <1>9, <1>10 DEF Measured
  <2>. QED
    BY <1>9, <2>1, RespondLeaves
<1>11. CASE ~ Refused
  <2>1. /\ end \in Int /\ cur \in Int
        /\ First(i) = cur + 1 /\ 0 <= cur + 1
        /\ size > 0 => cur < end /\ end < size
        /\ end = First(i) + (IF ParseRange(i) = NoRange THEN size
                             ELSE script[i].to - script[i].from + 1) - 1
        /\ ParseRange(i) # NoRange => script[i].to - script[i].from + 1 <= size
    <3>1. Ranged(i, size, cur, end)
      BY <1>5, <1>6, <1>7, <1>11 DEF Ranged
    <3>. QED
      BY <1>1, <1>3, <3>1, MeasuredFacts
  <2>2. PICK x \in Written : /\ x = Item(http, "header", status, 0, size)
                             /\ x.req = i /\ x.part = "header" /\ Weight(x) = 1
                             /\ x.status = status /\ x.n = size
    <3>1. status \in Nat
      BY <1>8
    <3>. QED
      BY <1>3, <3>1, ItemType
  <2>3. PICK sized \in Session :
            /\ sized = Sized(http, size, cur, end) /\ Same(http, sized)
            /\ sized.file = http.file /\ sized.size = size /\ sized.cur = cur /\ sized.end = end
            /\ sized.out = http.out /\ sized.flying = http.flying /\ sized.buffered = http.buffered
    BY <1>1, <2>1, SizedFields
  <2>4. z = IF What(i) = "HEAD" \/ size = 0
            THEN [ResponseWrite(sized, x) EXCEPT !.file = "held"]
            ELSE [sized EXCEPT !.file = "read"]
    BY <1>3, <1>4, <1>5, <1>6, <1>7, <1>8, <1>9, <1>11, <2>2, <2>3 DEF Measured, Sized
  <2>5. /\ InProgress(http, arrived) /\ InOrder(http.out)
        /\ Paid(http.flying, http.buffered, http.out) /\ Done(http.out, i - 1)
    BY <1>3 DEF Answerable, InProgress, Typed
  <2>6. SUFFICES /\ z \in Session /\ Same(http, z) /\ z.size = disk.size
                 /\ InOrder(z.out) /\ Paid(z.flying, z.buffered, z.out)
                 /\ z.file = "held" \/ (z.file = "read" /\ Sending(z))
    <3>1. Typed(z) /\ Working(z, arrived) /\ ~ Waiting(z) /\ z.life = "open" /\ z \in Parsing
      BY <2>5, <2>6, GoesOn
    <3>2. Settle[z] = z
      BY <3>1, SettleStays
    <3>. QED
      BY <1>9, <2>6, <3>1, <3>2 DEF Left
  <2>7. CASE What(i) = "HEAD" \/ size = 0
    <3>1. PICK r \in Session :
              /\ r = ResponseWrite(sized, x) /\ Same(sized, r) /\ r.size = sized.size
              /\ r.out = Append(sized.out, x) /\ r.flying = sized.flying + 1
              /\ r.buffered = sized.buffered + Weight(x)
      BY WriteFields
    <3>2. PICK s \in Session :
              /\ s = [r EXCEPT !.file = "held"] /\ Same(r, s) /\ s.file = "held"
              /\ s.size = r.size /\ s.out = r.out /\ s.flying = r.flying /\ s.buffered = r.buffered
      BY FileFields
    <3>3. z = s
      BY <2>4, <2>7, <3>1, <3>2
    <3>4. Same(http, s)
      BY <2>3, <3>1, <3>2 DEF Same
    <3>5. /\ s.out = Append(http.out, x) /\ s.flying = http.flying + 1
          /\ s.buffered = http.buffered + 1 /\ s.size = disk.size
      BY <1>4, <2>2, <2>3, <3>1, <3>2
    <3>8. Due(x) <= Promised(x)
      <4>1. x.status = 206 => ParseRange(i) # NoRange
        BY <1>5, <1>8, <2>2
      <4>. QED
        BY <1>2, <2>1, <2>2, <4>1 DEF Due, Promised
    <3>6. InOrder(s.out)
      BY <2>2, <2>5, <3>5, <3>8, HeaderFollows DEF Begun
    <3>7. Paid(s.flying, s.buffered, s.out)
      BY <1>2, <2>2, <2>5, <3>5, PaidWrite
    <3>. QED
      BY <3>2, <3>3, <3>4, <3>5, <3>6, <3>7
  <2>8. CASE ~ (What(i) = "HEAD" \/ size = 0)
    <3>1. PICK s \in Session :
              /\ s = [sized EXCEPT !.file = "read"] /\ Same(sized, s) /\ s.file = "read"
              /\ s.size = sized.size /\ s.cur = sized.cur /\ s.end = sized.end
              /\ s.out = sized.out /\ s.flying = sized.flying /\ s.buffered = sized.buffered
      BY FileFields
    <3>2. z = s
      BY <2>4, <2>8, <3>1
    <3>3. Same(http, s)
      BY <2>3, <3>1 DEF Same
    <3>4. /\ s.out = http.out /\ s.flying = http.flying /\ s.buffered = http.buffered
          /\ s.size = size /\ s.cur = cur /\ s.end = end /\ s.current = i
      BY <1>3, <2>3, <3>1, <3>3 DEF Same
    <3>5. Total(s) = IF ParseRange(i) = NoRange THEN size
                     ELSE script[i].to - script[i].from + 1
      BY <3>4 DEF Total
    <3>6. Sending(s)
      BY <2>1, <2>5, <2>8, <3>4, <3>5 DEF Sending
    <3>. QED
      BY <1>4, <2>5, <3>1, <3>2, <3>3, <3>4, <3>6
  <2>. QED
    BY <2>7, <2>8
<1>. QED
  BY <1>10, <1>11

LEMMA FileStatKeeps ==
    ASSUME IInv, NEW ok \in BOOLEAN, FileStat(ok)
    PROVE  IInv'
<1>1. arrived \in 0 .. Len(Wire) /\ disk \in Disk /\ shrunk \in BOOLEAN
  BY IInvFacts
<1>2. Open /\ http.file = "stat" /\ UNCHANGED <<script, arrived, disk, shrunk>>
  BY DEF FileStat, Answering
<1>3. faults' \in 0 .. MaxFaults
  BY MayFacts DEF FileStat
<1>4. Answerable(http, arrived) /\ ~ http.upgrade
  BY <1>2, OpenAnswerable, IInvFacts DEF Working
<1>5. \/ \E status \in {404, 500} : http' = Settle[Respond(http, status, 1)]
      \/ http' = Settle[Measured(http)]
  BY DEF FileStat
<1>6. Left(http', arrived, disk.size, shrunk)
  <2>1. CASE \E status \in {404, 500} : http' = Settle[Respond(http, status, 1)]
    <3>1. PICK status \in Nat \ {206} : http' = Settle[Respond(http, status, 1)]
      BY <2>1
    <3>. QED
      BY <1>4, <3>1, RespondLeaves
  <2>2. CASE http' = Settle[Measured(http)]
    BY <1>4, <2>2, MeasuredKeeps
  <2>. QED
    BY <1>5, <2>1, <2>2
<1>. QED
  BY <1>1, <1>2, <1>3, <1>6, StepKeeps

\* The header goes out before the first chunk.
Headed(h, status) ==
    IF \E k \in DOMAIN h.out : h.out[k].req = h.current THEN h
    ELSE ResponseWrite(h, Item(h, "header", status, 0, h.size))

LEMMA SendingFacts ==
    ASSUME ScriptOK, NEW h, Typed(h), InProgress(h, arrived), Sending(h)
    PROVE  /\ h.current \in 1 .. MaxRequests /\ h.current \in DOMAIN script
           /\ First(h.current) \in Int /\ Total(h) \in Int /\ h.cur \in Int /\ h.end \in Int
           /\ h.size \in Nat /\ h.cur + 1 \in Nat /\ h.cur + 1 - First(h.current) \in Nat
<1>1. h \in Session /\ h.current \in 1 .. MaxRequests /\ h.current \in DOMAIN script
  BY TypedFacts DEF InProgress, Passed
<1>2. h.cur \in Int /\ h.end \in Int /\ h.size \in Nat
  BY <1>1 DEF Session
<1>3. script[h.current].from \in Int /\ script[h.current].to \in Int
  BY <1>1, RangeType
<1>4. First(h.current) \in Int /\ Total(h) \in Int
  BY <1>2, <1>3 DEF First, Total
<1>5. First(h.current) <= h.cur + 1 /\ 0 <= h.cur + 1
  BY DEF Sending
<1>6. h.cur + 1 \in Nat /\ h.cur + 1 - First(h.current) \in Nat
  BY <1>2, <1>4, <1>5
<1>. QED
  BY <1>1, <1>2, <1>4, <1>6

LEMMA HeadedKeeps ==
    ASSUME ScriptOK, NEW h, Typed(h), InProgress(h, arrived), Sending(h)
    PROVE  \E g \in Session :
              /\ g = Headed(h, Status(h.current)) /\ Same(h, g)
              /\ g.file = h.file /\ g.size = h.size /\ g.cur = h.cur /\ g.end = h.end
              /\ Begun(g.out, h.current, Total(h), h.cur + 1 - First(h.current), h.cur + 1)
              /\ Paid(g.flying, g.buffered, g.out)
<1>1. PICK i \in 1 .. MaxRequests : i = h.current
  BY SendingFacts
<1>2. /\ h \in Session /\ h.out \in Seq(Written) /\ h.flying \in Nat /\ h.buffered \in Int
      /\ Paid(h.flying, h.buffered, h.out) /\ h.size \in Nat
      /\ DOMAIN h.out = 1 .. Len(h.out) /\ Len(h.out) \in Nat
  BY SendingFacts, TypedFacts, LenProperties DEF Typed
<1>3. CASE Begun(h.out, i, Total(h), h.cur + 1 - First(i), h.cur + 1)
  <2>1. \E k \in DOMAIN h.out : h.out[k].req = i
    BY <1>2, <1>3 DEF Begun
  <2>2. Headed(h, Status(i)) = h
    BY <1>1, <2>1 DEF Headed
  <2>. QED
    BY <1>1, <1>2, <1>3, <2>2 DEF Same
<1>4. CASE Done(h.out, i - 1) /\ h.cur + 1 = First(i)
  <2>1. ~ \E k \in DOMAIN h.out : h.out[k].req = i
    <3>1. \A k \in 1 .. Len(h.out) : h.out[k].req <= i - 1 /\ h.out[k] \in Written
      BY <1>2, <1>4, ElementOfSeq DEF Done, UpTo
    <3>2. \A x \in Written : x.req \in Nat
      BY DEF Written
    <3>. QED
      BY <1>2, <3>1, <3>2
  <2>2. PICK x \in Written : /\ x = Item(h, "header", Status(i), 0, h.size)
                             /\ x.req = i /\ x.part = "header" /\ x.status = Status(i)
                             /\ x.n = h.size /\ Weight(x) = 1
    <3>1. Status(i) \in Nat
      BY DEF Status
    <3>. QED
      BY <1>1, <1>2, <3>1, ItemType
  <2>3. PICK g \in Session :
            /\ g = ResponseWrite(h, x) /\ Same(h, g)
            /\ g.file = h.file /\ g.size = h.size /\ g.cur = h.cur /\ g.end = h.end
            /\ g.out = Append(h.out, x) /\ g.flying = h.flying + 1
            /\ g.buffered = h.buffered + Weight(x)
    BY <1>2, WriteFields
  <2>4. g = Headed(h, Status(i))
    BY <1>1, <2>1, <2>2, <2>3 DEF Headed
  <2>5. Due(x) = Total(h) /\ (IF x.status = 206 THEN script[i].from ELSE 0) = First(i)
    BY <1>1, <2>2 DEF Due, Promised, Total, First, Status
  <2>9. Due(x) <= Promised(x)
    <3>1. First(i) \in Int /\ Total(h) \in Int /\ h.end \in Int /\ h.cur + 1 \in Nat
      BY <1>1, SendingFacts
    <3>2. h.end = First(i) + Total(h) - 1 /\ h.end < h.size
      BY <1>1 DEF Sending
    <3>3. 0 <= First(i)
      BY <1>4, <3>1
    <3>4. Total(h) <= h.size
      BY <1>2, <3>1, <3>2, <3>3
    <3>. QED
      BY <2>2, <2>5, <3>4 DEF Promised
  <2>6. Begun(g.out, i, Total(h), 0, First(i))
    <3>1. Begun(Append(h.out, x), i, Due(x), 0, IF x.status = 206 THEN script[i].from ELSE 0)
      BY <1>4, <2>2, <2>9, HeaderFollows
    <3>. QED
      BY <2>3, <2>5, <3>1
  <2>7. h.cur + 1 - First(i) = 0
    BY <1>1, <1>4, SendingFacts
  <2>8. Paid(g.flying, g.buffered, g.out)
    BY <1>2, <2>3, PaidWrite
  <2>. QED
    BY <1>1, <1>4, <2>3, <2>4, <2>6, <2>7, <2>8
<1>. QED
  BY <1>1, <1>3, <1>4 DEF Sending

LEMMA ChunkedKeeps ==
    ASSUME ScriptOK, NEW h, Typed(h), InProgress(h, arrived), Sending(h), h.file = "read",
           arrived \in Nat, arrived <= Len(Wire), NEW n \in Nat, n <= h.end - h.cur,
           NEW size, NEW lost, lost \/ h.size = size
    PROVE  Left(Chunked(h, n), arrived, size, lost)
<1>1. /\ h.current \in DOMAIN script
      /\ First(h.current) \in Int /\ Total(h) \in Int /\ h.cur \in Int /\ h.end \in Int
      /\ h.cur + 1 \in Nat /\ h.cur + 1 - First(h.current) \in Nat
  BY SendingFacts
<1>2. PICK i \in 1 .. MaxRequests : i = h.current
  BY SendingFacts
<1>3. PICK first \in Int, total \in Int, pos \in Nat, end \in Int :
          /\ first = First(i) /\ total = Total(h) /\ pos = h.cur + 1 /\ end = h.end
          /\ pos - first \in Nat
  BY <1>1, <1>2, SMTT(30)
<1>18. PICK c \in Int : c = h.cur /\ pos = c + 1
  BY <1>1, <1>3
<1>19. PICK g \in Session :
          /\ g = Headed(h, Status(h.current)) /\ Same(h, g)
          /\ g.file = h.file /\ g.size = h.size /\ g.cur = h.cur /\ g.end = h.end
          /\ Begun(g.out, h.current, Total(h), h.cur + 1 - First(h.current), h.cur + 1)
          /\ Paid(g.flying, g.buffered, g.out)
  BY HeadedKeeps
<1>20. h.cur + 1 = pos /\ First(h.current) = first /\ h.cur + 1 - First(h.current) = pos - first
  <2>1. h.cur + 1 = pos /\ First(h.current) = first
    BY <1>2, <1>3
  <2>. QED
    BY <1>1, <2>1, SMTT(30)
<1>4. /\ g = Headed(h, Status(i)) /\ Same(h, g)
      /\ g.file = h.file /\ g.size = h.size /\ g.cur = h.cur /\ g.end = h.end
      /\ Begun(g.out, i, total, pos - first, pos)
      /\ Paid(g.flying, g.buffered, g.out)
  BY <1>2, <1>3, <1>19, <1>20
<1>5. PICK y \in Written : /\ y = Item(h, "data", Status(i), h.cur + 1, n)
                           /\ y.req = i /\ y.part = "data" /\ y.at = pos /\ y.n = n
  <2>1. Status(i) \in Nat
    BY DEF Status
  <2>2. h.current \in 1 .. MaxRequests /\ pos \in Int
    BY <1>2
  <2>3. PICK y \in Written : /\ y = Item(h, "data", Status(i), pos, n)
                             /\ y.req = h.current /\ y.part = "data" /\ y.at = pos /\ y.n = n
    BY <2>1, <2>2, ItemType
  <2>. QED
    BY <1>2, <1>20, <2>3
<1>6. PICK t \in Session :
          /\ t = ResponseWrite(g, y) /\ Same(g, t)
          /\ t.file = g.file /\ t.size = g.size /\ t.cur = g.cur /\ t.end = g.end
          /\ t.out = Append(g.out, y) /\ t.flying = g.flying + 1
          /\ t.buffered = g.buffered + Weight(y)
  BY WriteFields
<1>7. PICK s : s = [t EXCEPT !.cur = t.cur + n]
  OBVIOUS
<1>8. /\ s \in Session /\ Same(t, s) /\ s.cur = t.cur + n /\ s.end = t.end /\ s.size = t.size
      /\ s.file = t.file /\ s.out = t.out /\ s.flying = t.flying /\ s.buffered = t.buffered
  <2>1. t.cur + n \in Int
    BY <1>1, <1>4, <1>6, SMTT(30)
  <2>. QED
    BY <1>7, <2>1 DEF Session, Same
<1>9. /\ Same(h, s) /\ s.cur = h.cur + n /\ s.end = h.end /\ s.size = h.size /\ s.file = "read"
      /\ s.out = Append(g.out, y)
  BY <1>4, <1>6, <1>8 DEF Same
<1>10. Begun(s.out, i, total, (pos - first) + n, pos + n)
  <2>1. PICK sent \in Nat : sent = pos - first
    BY <1>3
  <2>2. Begun(g.out, i, total, sent, pos)
    BY <1>4, <2>1
  <2>3. Begun(Append(g.out, y), i, total, sent + y.n, y.at + y.n)
    BY <1>5, <2>2, DataFollows
  <2>. QED
    BY <1>5, <1>9, <2>1, <2>3
<1>11. Paid(s.flying, s.buffered, s.out)
  <2>1. g.out \in Seq(Written) /\ g.flying \in Nat /\ g.buffered \in Int
    BY <1>4 DEF Begun, Session
  <2>. QED
    BY <1>4, <1>6, <1>8, <2>1, PaidWrite, SMTT(30)
<1>12. Chunked(h, n) = IF AtEnd(s) THEN Settle[FinishRequest[[s EXCEPT !.file = "none"]]] ELSE s
  <2>. DEFINE headed == IF \E k \in DOMAIN h.out : h.out[k].req = h.current THEN h
                        ELSE ResponseWrite(h, Item(h, "header", Status(i), 0, h.size))
              sent == [ResponseWrite(headed, Item(h, "data", Status(i), h.cur + 1, n))
                           EXCEPT !.cur = @ + n]
  <2>1. Chunked(h, n) = IF AtEnd(sent) THEN Settle[FinishRequest[[sent EXCEPT !.file = "none"]]]
                        ELSE sent
    BY <1>2 DEF Chunked, Status
  <2>2. headed = g
    BY <1>2, <1>4 DEF Headed
  <2>3. sent = s
    <3>. HIDE DEF headed
    <3>. QED
      BY <1>5, <1>6, <1>7, <2>2
  <2>. HIDE DEF sent
  <2>. QED
    BY <2>1, <2>3
<1>13. /\ first <= pos /\ c < end /\ end < h.size /\ end = first + total - 1
       /\ pos = c + 1 /\ n <= end - c
  BY <1>2, <1>3, <1>18 DEF Sending
<1>21. s.cur = c + n
  BY <1>9, <1>18
<1>14. /\ s.parsing = i /\ s.current = i /\ Segment(s, arrived) /\ Passed(s, arrived)
       /\ s.life = "open" /\ ~ s.reading /\ ~ s.upgrade /\ s.pushed = <<>> /\ s.max <= Len(s.ref)
  BY <1>2, <1>9 DEF Same, InProgress, Segment, Passed
<1>15. InOrder(s.out)
  BY <1>10 DEF Begun
<1>16. CASE AtEnd(s)
  <2>1. (pos - first) + n = total
    <3>1. c + n = end
      BY <1>3, <1>9, <1>16, <1>21 DEF AtEnd
    <3>. QED
      BY <1>13, <3>1
  <2>2. Done(s.out, i)
    BY <1>10, <2>1, BegunEnds
  <2>3. PICK e \in Session :
            /\ e = [s EXCEPT !.file = "none"] /\ Same(s, e) /\ e.file = "none"
            /\ e.out = s.out /\ e.flying = s.flying /\ e.buffered = s.buffered
    BY <1>8, FileFields
  <2>4. Typed(e)
    BY <1>11, <1>14, <1>15, <2>3 DEF Same, Typed
  <2>5. Segment(e, arrived) /\ Passed(e, arrived)
    BY <1>14, <2>3 DEF Same, Segment, Passed
  <2>6. Finishing(e, arrived)
    BY <1>14, <2>2, <2>3, <2>4, <2>5 DEF Same, Finishing
  <2>7. Good(FinishRequest[e], arrived) /\ Quiet(FinishRequest[e])
    BY <2>6, FinishKeeps, FinishQuiet
  <2>8. Left(Settle[FinishRequest[e]], arrived, size, lost)
    BY <2>7, SettleLeaves
  <2>. QED
    BY <1>12, <1>16, <2>3, <2>8
<1>17. CASE ~ AtEnd(s)
  <2>1. s.cur < end
    <3>1. c + n # end
      BY <1>3, <1>9, <1>17, <1>21 DEF AtEnd
    <3>2. c + n < end
      BY <1>13, <3>1
    <3>. QED
      BY <1>21, <3>2
  <2>2. Total(s) = total
    BY <1>2, <1>3, <1>9, <1>14 DEF Total
  <2>3. s.cur + 1 = pos + n /\ s.cur + 1 - first = (pos - first) + n /\ s.cur \in Int
    <3>1. c + n + 1 = pos + n /\ c + n + 1 - first = (pos - first) + n /\ c + n \in Int
      BY <1>13
    <3>. QED
      BY <1>21, <3>1
  <2>4. Begun(s.out, i, Total(s), s.cur + 1 - first, s.cur + 1)
    BY <1>10, <2>2, <2>3
  <2>5. first <= s.cur + 1 /\ 0 <= s.cur + 1 /\ s.end = end /\ end < s.size
    <3>1. first <= pos + n /\ 0 <= pos + n
      BY <1>13
    <3>2. s.end = end /\ s.size = h.size
      BY <1>3, <1>9
    <3>. QED
      BY <1>13, <2>3, <3>1, <3>2
  <2>6. Sending(s)
    BY <1>3, <1>13, <1>14, <2>1, <2>2, <2>4, <2>5 DEF Sending
  <2>7. Typed(s) /\ Working(s, arrived) /\ ~ Waiting(s) /\ s.life = "open"
    BY <1>8, <1>9, <1>11, <1>15, <2>6, GoesOn
  <2>. QED
    BY <1>9, <1>12, <1>17, <2>7 DEF Left
<1>. QED
  BY <1>16, <1>17

LEMMA SmallerOfTwo ==
    ASSUME NEW m \in Nat, NEW k \in Int, k < 0
    PROVE  Min({m, k}) = k
<1>1. \E x \in {m, k} : \A y \in {m, k} : x <= y
  BY k \in {m, k}
<1>2. Min({m, k}) \in {m, k} /\ \A y \in {m, k} : Min({m, k}) <= y
  BY <1>1 DEF Min
<1>. QED
  BY <1>2

LEMMA GreaterThanNegative ==
    ASSUME NEW k \in Int, k < 0
    PROVE  Max({0, k}) = 0
<1>1. \E x \in {0, k} : \A y \in {0, k} : x >= y
  BY 0 \in {0, k}
<1>2. Max({0, k}) \in {0, k} /\ \A y \in {0, k} : Max({0, k}) >= y
  BY <1>1 DEF Max
<1>. QED
  BY <1>2

LEMMA FileReadKeeps ==
    ASSUME IInv, NEW ok \in BOOLEAN, FileRead(ok)
    PROVE  IInv'
<1>1. /\ ScriptOK /\ Typed(http) /\ http \in Session /\ arrived \in 0 .. Len(Wire)
      /\ arrived \in Nat /\ arrived <= Len(Wire) /\ disk \in Disk /\ disk.size \in 0 .. MaxSize
      /\ shrunk \in BOOLEAN
  BY IInvFacts
<1>2. Open /\ http.file = "read" /\ UNCHANGED <<script, arrived, disk, shrunk>>
  BY DEF FileRead, Answering
<1>3. faults' \in 0 .. MaxFaults
  BY MayFacts DEF FileRead
<1>4. Working(http, arrived)
  BY <1>2, IInvFacts
<1>5. InProgress(http, arrived) /\ Sending(http)
  BY <1>1, <1>2, <1>4 DEF Working, Between, Serving, InProgress, Typed, Open
<1>6. shrunk \/ http.size = disk.size
  BY <1>2 DEF IInv, Open
<1>7. PICK cur \in Int, end \in Int, size \in Nat, left \in Nat, chunk \in Nat :
          /\ cur = http.cur /\ end = http.end /\ size = http.size /\ left = disk.size
          /\ chunk = Chunk
  <2>1. http.cur \in Int /\ http.end \in Int /\ http.size \in Nat
    BY <1>1, <1>5, SendingFacts
  <2>2. disk.size \in Nat
    BY <1>1, HttpSessionAssumption
  <2>3. Chunk \in Nat
    BY HttpSessionAssumption
  <2>. QED
    BY <2>1, <2>2, <2>3
<1>8. cur < end /\ end < size /\ 0 <= cur + 1 /\ chunk > 0
  BY <1>5, <1>7, HttpSessionAssumption DEF Sending
<1>9. PICK wanted : wanted = Min({chunk, end - cur})
  OBVIOUS
<1>10. wanted \in {chunk, end - cur} /\ wanted <= end - cur
  <2>1. {chunk, end - cur} \subseteq Nat /\ {chunk, end - cur} # {}
    BY <1>8
  <2>. QED
    BY <1>9, <2>1, SmallestNat
<1>11. wanted \in Nat /\ wanted > 0
  BY <1>8, <1>10
<1>12. PICK given : given = Min({wanted, left - (cur + 1)})
  OBVIOUS
<1>13. PICK got : got = Max({0, given})
  OBVIOUS
<1>14. got \in Nat /\ got <= end - cur /\ (got = 0 => left < size)
  <2>1. CASE left - (cur + 1) >= 0
    <3>1. left - (cur + 1) \in Nat
      BY <2>1
    <3>2. /\ given \in {wanted, left - (cur + 1)} /\ given <= wanted
          /\ given \in Nat
      <4>1. {wanted, left - (cur + 1)} \subseteq Nat /\ {wanted, left - (cur + 1)} # {}
        BY <1>11, <3>1
      <4>. QED
        BY <1>12, <4>1, SmallestNat
    <3>3. got = given
      <4>1. {0, given} \subseteq 0 .. given /\ {0, given} # {} /\ given \in Nat
        BY <3>2
      <4>2. Max({0, given}) \in {0, given} /\ \A m \in {0, given} : m <= Max({0, given})
        BY <4>1, GreatestNat
      <4>. QED
        BY <1>13, <3>2, <4>2
    <3>4. given <= end - cur
      BY <1>10, <1>11, <3>2
    <3>5. given = 0 => left < size
      <4>1. given = 0 => left - (cur + 1) = 0
        BY <1>11, <3>2
      <4>. QED
        BY <1>8, <4>1
    <3>. QED
      BY <3>2, <3>3, <3>4, <3>5
  <2>2. CASE ~ (left - (cur + 1) >= 0)
    <3>1. left - (cur + 1) < 0 /\ left - (cur + 1) \in Int
      BY <2>2
    <3>2. given = left - (cur + 1)
      BY <1>11, <1>12, <3>1, SmallerOfTwo
    <3>3. got = 0
      BY <1>13, <3>1, <3>2, GreaterThanNegative
    <3>4. left < size
      BY <1>8, <3>1
    <3>. QED
      BY <1>8, <3>3, <3>4
  <2>. QED
    BY <2>1, <2>2
<1>15. http' = IF ~ ok THEN FinishSession(http)
               ELSE IF got = 0 THEN Abort(http) ELSE Chunked(http, got)
  BY <1>7, <1>9, <1>12, <1>13 DEF FileRead
<1>16. CASE http' = FinishSession(http)
  BY <1>1, <1>2, <1>3, <1>16, EndKeeps
<1>17. CASE got = 0 /\ http' = Abort(http)
  <2>1. shrunk
    BY <1>6, <1>7, <1>14, <1>17
  <2>2. PICK f \in Session :
            /\ f = FinishSession(http) /\ ~ f.whole
            /\ f.ref = <<>> /\ f.max = 0 /\ f.current = http.current /\ f.parsing = http.parsing
            /\ f.out = http.out /\ f.flying = 0 /\ f.buffered = http.buffered
    BY <1>1, FinishSessionType
  <2>3. PICK z : z = http'
    OBVIOUS
  <2>4. z = [f EXCEPT !.life = "aborted"]
    BY <1>17, <2>2, <2>3 DEF Abort
  <2>5. /\ z \in Session /\ z.life = "aborted" /\ z.flying = f.flying /\ z.whole = f.whole
        /\ z.ref = f.ref /\ z.max = f.max /\ z.current = f.current /\ z.parsing = f.parsing
        /\ z.out = f.out /\ z.buffered = f.buffered
    BY <2>2, <2>4 DEF Session
  <2>6. Typed(z)
    <3>1. Paid(0, http.buffered, http.out)
      BY <1>1, TypedFacts, PaidEnough DEF Typed
    <3>2. 0 <= Len(<<>>)
      OBVIOUS
    <3>. QED
      BY <1>1, <2>2, <2>5, <3>1, <3>2 DEF Typed
  <2>7. Left(z, arrived, disk.size, shrunk)
    BY <2>1, <2>5, <2>6 DEF Left
  <2>. QED
    BY <1>1, <1>2, <1>3, <2>3, <2>7, StepKeeps
<1>18. CASE http' = Chunked(http, got)
  <2>1. got \in Nat /\ got <= http.end - http.cur
    BY <1>7, <1>14
  <2>2. Left(Chunked(http, got), arrived, disk.size, shrunk)
    BY <1>1, <1>2, <1>5, <1>6, <2>1, ChunkedKeeps
  <2>. QED
    BY <1>1, <1>2, <1>3, <1>18, <2>2, StepKeeps
<1>. QED
  BY <1>15, <1>16, <1>17, <1>18

LEMMA IInvInductive ==
    ASSUME IInv, [Next]_vars
    PROVE  IInv'
<1>1. ASSUME NEW n \in 1 .. Len(Wire), Read(n) PROVE IInv'
  BY <1>1, ReadKeeps
<1>2. CASE ReadEnds
  BY <1>2, EndKeeps, IInvFacts DEF ReadEnds
<1>3. ASSUME NEW ok \in BOOLEAN, WriteDone(ok) PROVE IInv'
  BY <1>3, WriteDoneKeeps
<1>4. ASSUME NEW ok \in BOOLEAN, FileOpened(ok) PROVE IInv'
  BY <1>4, FileOpenedKeeps
<1>5. ASSUME NEW ok \in BOOLEAN, FileStat(ok) PROVE IInv'
  BY <1>5, FileStatKeeps
<1>6. ASSUME NEW ok \in BOOLEAN, FileRead(ok) PROVE IInv'
  BY <1>6, FileReadKeeps
<1>7. CASE Close
  BY <1>7, EndKeeps, IInvFacts DEF Close
<1>8. CASE Shrink
  BY <1>8, ShrinkKeeps
<1>9. CASE UNCHANGED vars
  <2>1. /\ arrived \in 0 .. Len(Wire) /\ disk \in Disk /\ shrunk \in BOOLEAN
        /\ faults \in 0 .. MaxFaults /\ Left(http, arrived, disk.size, shrunk)
    BY IInvFacts
  <2>2. /\ script' = script /\ arrived' = arrived /\ disk' = disk /\ http' = http
        /\ shrunk' = shrunk /\ faults' = faults
    BY <1>9 DEF vars
  <2>. QED
    BY <2>1, <2>2, StepKeeps
<1>. QED
  BY <1>1, <1>2, <1>3, <1>4, <1>5, <1>6, <1>7, <1>8, <1>9 DEF Next, FileStep

-----------------------------------------------------------------------------
(* Theorems                                                                    *)

\* The session, the place of its parser on the wire and what it has written fit together
\* (IInv): what FinishRequest keeps of a read always begins in front of the head of the next
\* request, and the response under way goes on where the last one written ends.
THEOREM InvariantHolds == Spec => []IInv
<1>1. Init => IInv
  BY InitKeeps
<1>2. IInv /\ [Next]_vars => IInv'
  BY IInvInductive
<1>. QED
  BY <1>1, <1>2, PTL DEF Spec

\* The state has its types; in particular the count of buffered bytes, a size_t, never
\* wraps: no write callback (response_write_callback) takes more from it than response_write
\* put in for what is not reported yet.
THEOREM HttpTypes == Spec => []TypeOK
<1>1. IInv => TypeOK
  <2>. SUFFICES ASSUME IInv PROVE TypeOK
    OBVIOUS
  <2>1. /\ arrived \in 0 .. Len(Wire) /\ faults \in 0 .. MaxFaults
        /\ disk \in [kind: {"none", "directory", "regular"}, size: 0 .. MaxSize]
    BY DEF IInv
  <2>2. Typed(http) /\ http \in Session /\ http.current \in {0, http.parsing}
    BY DEF IInv, Typed
  <2>3. http.out \in Seq(Written) /\ http.flying \in Nat /\ http.buffered \in Int
        /\ http.max \in Nat /\ Len(http.ref) \in Nat
    BY <2>2, TypedFacts
  <2>4. http.buffered >= 0 /\ http.flying <= Len(http.out) /\ Len(http.out) \in Nat
    BY <2>2, <2>3, PaidEnough, WeightsFacts DEF Typed
  <2>5. http.max \in 0 .. Len(http.ref)
    BY <2>2, <2>3 DEF Typed
  <2>6. http.flying \in 0 .. Len(http.out) /\ http.buffered \in Nat
    BY <2>3, <2>4
  <2>. QED
    BY <2>1, <2>2, <2>5, <2>6 DEF TypeOK
<1>. QED
  BY <1>1, InvariantHolds, PTL

\* However the requests are cut into reads, and whatever follows a request in the read that
\* ends it (Http::read_callback, FinishRequest), responses leave in the order of the
\* requests, one for each, header first and without a gap; before the next one begins, a
\* response has all the bytes that are due, which are its Content-Length, or of a range those
\* of its Content-Range (the code's Content-Length is the whole file's there,
\* http_file_server.cpp:251), and it is never longer than its Content-Length.
THEOREM ResponsesInOrderHolds == Spec => []ResponsesInOrder
<1>1. IInv => ResponsesInOrder
  BY DEF IInv, Typed, ResponsesInOrder
<1>. QED
  BY <1>1, InvariantHolds, PTL

\* start_request is never entered during another request, FinishRequest never while the
\* session reads nor with the parser behind the end of the read, and no chunk of
\* file_read_callback is empty, unless the file has lost bytes.
THEOREM AssertionsHoldUnlessShrunk == Spec => []AssertionsHold
<1>1. IInv => AssertionsHold
  BY DEF IInv, AssertionsHold
<1>. QED
  BY <1>1, InvariantHolds, PTL

=============================================================================
