------------------------ MODULE TunnelHandshake_proofs ------------------------
(***************************************************************************)
(* Proofs about TunnelHandshake and the codec of its packets, for every    *)
(* number of values of a byte, every configuration, every set of HTTP      *)
(* methods, every packet whose length fits its header, and however the     *)
(* kernel cuts the messages: first the handshake, then the packets.        *)
(***************************************************************************)
EXTENDS TunnelHandshake, DataLemmas

-----------------------------------------------------------------------------
(* Bytes held and bytes in flight.                                             *)

Bytes == Seq(Byte)

\* A read takes bytes from what is in flight and joins them to what is held: together they
\* stay the same message.
LEMMA ReadKeeps ==
    ASSUME NEW held \in Bytes, NEW s \in Bytes, NEW n \in 1 .. Len(s)
    PROVE  /\ held \o SubSeq(s, 1, n) \in Bytes
           /\ From(s, n) \in Bytes
           /\ (held \o SubSeq(s, 1, n)) \o From(s, n) = held \o s
           /\ Len(held \o SubSeq(s, 1, n)) = Len(held) + n
<1>1. SubSeq(s, 1, n) \in Bytes /\ Len(SubSeq(s, 1, n)) = n
  BY SubSeqProperties, LenProperties DEF Bytes
<1>2. From(s, n) \in Bytes
  BY SubSeqProperties, LenProperties DEF Bytes, From
<1>3. SubSeq(s, 1, n) \o From(s, n) = s
  BY ConcatAdjacentSubSeq, SubSeqFull, LenProperties DEF Bytes, From
<1>4. PICK t \in Bytes, f \in Bytes : t = SubSeq(s, 1, n) /\ f = From(s, n)
  BY <1>1, <1>2
<1>5. (held \o t) \o f = held \o (t \o f)
  <2>1. held \in Seq(Byte) /\ t \in Seq(Byte) /\ f \in Seq(Byte)
    BY DEF Bytes
  <2>. QED
    BY <2>1, ConcatAssociative, SMTT(30)
<1>6. held \o t \in Bytes /\ Len(held \o t) = Len(held) + Len(t)
  BY ConcatProperties DEF Bytes
<1>. QED
  BY <1>1, <1>2, <1>3, <1>4, <1>5, <1>6

\* Two parts of a message.
LEMMA Joined ==
    ASSUME NEW b \in Bytes, NEW r \in Bytes
    PROVE  /\ b \o r \in Bytes
           /\ Len(b) \in Nat /\ Len(r) \in Nat /\ Len(b \o r) = Len(b) + Len(r)
           /\ \A i \in 1 .. Len(b) : (b \o r)[i] = b[i]
           /\ \A i \in 1 .. Len(r) : (b \o r)[Len(b) + i] = r[i]
           /\ Len(r) = 0 => r = <<>>
<1>1. /\ b \o r \in Bytes
      /\ Len(b) \in Nat /\ Len(r) \in Nat /\ Len(b \o r) = Len(b) + Len(r)
      /\ Len(r) = 0 => r = <<>>
  BY ConcatProperties, LenProperties, EmptySeq DEF Bytes
<1>2. \A i \in 1 .. Len(b) + Len(r) : (b \o r)[i] = IF i <= Len(b) THEN b[i] ELSE r[i - Len(b)]
  BY ConcatProperties DEF Bytes
<1>3. \A i \in 1 .. Len(b) : (b \o r)[i] = b[i]
  BY <1>1, <1>2
<1>4. ASSUME NEW i \in 1 .. Len(r) PROVE (b \o r)[Len(b) + i] = r[i]
  <2>1. Len(b) + i \in 1 .. Len(b) + Len(r) /\ ~ (Len(b) + i <= Len(b)) /\ (Len(b) + i) - Len(b) = i
    BY <1>1
  <2>. QED
    BY <1>2, <2>1
<1>. QED
  BY <1>1, <1>3, <1>4

LEMMA PartEqual ==
    ASSUME NEW b \in Bytes, NEW t \in Bytes, NEW k \in Nat,
           k + Len(t) <= Len(b), \A i \in 1 .. Len(t) : b[i + k] = t[i]
    PROVE  SubSeq(b, k + 1, k + Len(t)) = t
<1>1. Len(t) \in Nat /\ Len(b) \in Nat /\ \A i \in 1 .. Len(b) : b[i] \in Byte
  BY LenProperties, ElementOfSeq DEF Bytes
<1>2. \A i \in k + 1 .. k + Len(t) : b[i] \in Byte
  BY <1>1
<1>3. /\ SubSeq(b, k + 1, k + Len(t)) \in Bytes
      /\ Len(SubSeq(b, k + 1, k + Len(t))) = Len(t)
      /\ \A i \in 1 .. Len(t) : SubSeq(b, k + 1, k + Len(t))[i] = b[i + k]
  <2>1. /\ SubSeq(b, k + 1, k + Len(t)) \in Bytes
        /\ Len(SubSeq(b, k + 1, k + Len(t)))
             = IF k + 1 <= k + Len(t) THEN (k + Len(t)) - (k + 1) + 1 ELSE 0
        /\ \A i \in 1 .. (k + Len(t)) - (k + 1) + 1 :
              SubSeq(b, k + 1, k + Len(t))[i] = b[(k + 1) + i - 1]
    BY <1>1, <1>2, SubSeqProperties DEF Bytes
  <2>. QED
    BY <1>1, <2>1
<1>. QED
  BY <1>3, SeqEqual DEF Bytes

LEMMA OneByte ==
    ASSUME NEW x \in Byte
    PROVE  <<x>> \in Bytes /\ Len(<<x>>) = 1 /\ <<x>>[1] = x
BY DEF Bytes

-----------------------------------------------------------------------------
(* The login.                                                                  *)

Fits(l) == l \in Pairs /\ Len(l.user) < Base /\ Len(l.pass) < Base

LEMMA LoginLayout ==
    ASSUME NEW l, Fits(l)
    PROVE  /\ LoginMessage(l) \in Bytes
           /\ l.user \in Bytes /\ l.pass \in Bytes
           /\ Len(l.user) \in Nat /\ Len(l.pass) \in Nat
           /\ Len(LoginMessage(l)) = Len(l.user) + Len(l.pass) + 2
           /\ LoginMessage(l)[1] = Len(l.user)
           /\ LoginMessage(l)[Len(l.user) + 2] = Len(l.pass)
           /\ \A i \in 1 .. Len(l.user) : LoginMessage(l)[i + 1] = l.user[i]
           /\ \A i \in 1 .. Len(l.pass) : LoginMessage(l)[i + Len(l.user) + 2] = l.pass[i]
<1>1. /\ l.user \in Bytes /\ l.pass \in Bytes
      /\ Len(l.user) \in Byte /\ Len(l.pass) \in Byte
      /\ Len(l.user) \in Nat /\ Len(l.pass) \in Nat
  BY LenProperties, BaseAssumption DEF Fits, Pairs, Bytes, Byte
<1>2. PICK u \in Bytes, p \in Bytes :
          u = l.user /\ p = l.pass /\ Len(u) \in Nat /\ Len(p) \in Nat
  BY <1>1
<1>3. PICK a \in Bytes : /\ a = <<Len(u)>> \o u /\ Len(a) = Len(u) + 1 /\ a[1] = Len(u)
                          /\ \A i \in 1 .. Len(u) : a[1 + i] = u[i]
  <2>1. PICK h \in Bytes : h = <<Len(u)>> /\ Len(h) = 1 /\ h[1] = Len(u)
    BY <1>1, <1>2, OneByte
  <2>2. /\ h \o u \in Bytes /\ Len(h \o u) = Len(h) + Len(u)
        /\ \A i \in 1 .. Len(h) : (h \o u)[i] = h[i]
        /\ \A i \in 1 .. Len(u) : (h \o u)[Len(h) + i] = u[i]
    BY Joined
  <2>3. Len(u) \in Nat /\ \A i \in 1 .. Len(u) : Len(h) + i = 1 + i
    BY <1>2, <2>1
  <2>4. Len(h \o u) = Len(u) + 1 /\ (h \o u)[1] = Len(u)
    BY <2>1, <2>2, <2>3
  <2>. QED
    BY <2>1, <2>2, <2>3, <2>4
<1>4. PICK b \in Bytes : /\ b = a \o <<Len(p)>> /\ Len(b) = Len(u) + 2 /\ b[1] = Len(u)
                          /\ b[Len(u) + 2] = Len(p)
                          /\ \A i \in 1 .. Len(u) : b[1 + i] = u[i]
  <2>1. <<Len(p)>> \in Bytes /\ Len(<<Len(p)>>) = 1 /\ <<Len(p)>>[1] = Len(p)
    BY <1>1, <1>2, OneByte
  <2>2. PICK c \in Bytes : c = <<Len(p)>> /\ Len(c) = 1 /\ c[1] = Len(p)
    BY <2>1
  <2>3. /\ a \o c \in Bytes /\ Len(a \o c) = Len(a) + 1
        /\ \A i \in 1 .. Len(a) : (a \o c)[i] = a[i]
        /\ (a \o c)[Len(a) + 1] = c[1]
    BY <2>2, Joined
  <2>4. Len(u) + 2 = Len(a) + 1 /\ 1 \in 1 .. Len(a) /\ \A i \in 1 .. Len(u) : 1 + i \in 1 .. Len(a)
    BY <1>1, <1>2, <1>3
  <2>5. (a \o c)[1] = Len(u) /\ \A i \in 1 .. Len(u) : (a \o c)[1 + i] = u[i]
    BY <1>3, <2>3, <2>4
  <2>6. (a \o c)[Len(u) + 2] = Len(p)
    BY <2>2, <2>3, <2>4
  <2>7. Len(a \o c) = Len(u) + 2
    BY <1>1, <1>2, <1>3, <2>3
  <2>. QED
    BY <2>2, <2>3, <2>5, <2>6, <2>7
<1>5. LoginMessage(l) = b \o p
  BY <1>2, <1>3, <1>4 DEF LoginMessage
<1>6. /\ b \o p \in Bytes /\ Len(b \o p) = Len(b) + Len(p)
      /\ \A i \in 1 .. Len(b) : (b \o p)[i] = b[i]
      /\ \A i \in 1 .. Len(p) : (b \o p)[Len(b) + i] = p[i]
  BY Joined
<1>7. ASSUME NEW i \in 1 .. Len(p) PROVE (b \o p)[i + Len(u) + 2] = p[i]
  <2>1. Len(u) \in Nat /\ Len(p) \in Nat /\ Len(b) = Len(u) + 2
    BY <1>2, <1>4
  <2>2. i + Len(u) + 2 = Len(b) + i
    BY <2>1
  <2>. QED
    BY <1>6, <2>2
<1>8. (b \o p)[1] = Len(u) /\ (b \o p)[Len(u) + 2] = Len(p)
  <2>1. 1 \in 1 .. Len(b) /\ Len(u) + 2 \in 1 .. Len(b)
    BY <1>1, <1>2, <1>4
  <2>. QED
    BY <1>4, <1>6, <2>1
<1>9. ASSUME NEW i \in 1 .. Len(u) PROVE (b \o p)[i + 1] = u[i]
  <2>1. i + 1 \in 1 .. Len(b) /\ i + 1 = 1 + i
    BY <1>1, <1>2, <1>4
  <2>. QED
    BY <1>4, <1>6, <2>1
<1>10. Len(b \o p) = Len(u) + Len(p) + 2
  <2>1. Len(u) \in Nat /\ Len(p) \in Nat /\ Len(b) = Len(u) + 2
    BY <1>2, <1>4
  <2>. QED
    BY <1>6, <2>1
<1>. QED
  BY <1>1, <1>2, <1>5, <1>6, <1>7, <1>8, <1>9, <1>10

\* The server takes the first part of a login for the whole only when it is the whole, and
\* reads from it the name and the password that the client wrote.
LEMMA LoginReadBack ==
    ASSUME NEW l, Fits(l),
           NEW buf \in Bytes, NEW rest \in Bytes,
           buf \o rest = LoginMessage(l), WholeLogin(buf)
    PROVE  rest = <<>> /\ From(buf, LoginSize(buf)) = <<>> /\ ReadLogin(buf) = l
<1>1. PICK u \in Nat, p \in Nat : /\ u = Len(l.user) /\ p = Len(l.pass)
                                  /\ l.user \in Bytes /\ l.pass \in Bytes
  BY LoginLayout
<1>2. /\ Len(buf) \in Nat /\ Len(rest) \in Nat /\ Len(buf) + Len(rest) = u + p + 2
      /\ \A i \in 1 .. Len(buf) : LoginMessage(l)[i] = buf[i]
      /\ Len(rest) = 0 => rest = <<>>
  <2>1. Len(LoginMessage(l)) = u + p + 2
    BY <1>1, LoginLayout
  <2>2. /\ Len(buf) \in Nat /\ Len(rest) \in Nat /\ Len(buf \o rest) = Len(buf) + Len(rest)
        /\ \A i \in 1 .. Len(buf) : (buf \o rest)[i] = buf[i]
        /\ Len(rest) = 0 => rest = <<>>
    BY Joined
  <2>. QED
    BY <2>1, <2>2
<1>3. /\ LoginMessage(l)[1] = u /\ LoginMessage(l)[u + 2] = p
      /\ \A i \in 1 .. u : LoginMessage(l)[i + 1] = l.user[i]
      /\ \A i \in 1 .. p : LoginMessage(l)[i + u + 2] = l.pass[i]
  BY <1>1, LoginLayout
<1>4. UserLen(buf) = u /\ Len(buf) >= u + 3
  BY <1>2, <1>3 DEF WholeLogin, UserLen
<1>5. PassLen(buf) = p
  BY <1>2, <1>3, <1>4 DEF PassLen
<1>6. LoginSize(buf) = u + p + 2 /\ Len(buf) >= u + p + 2
  BY <1>4, <1>5 DEF WholeLogin, LoginSize
<1>7. Len(rest) = 0 /\ rest = <<>> /\ Len(buf) = u + p + 2
  BY <1>2, <1>6
<1>8. From(buf, LoginSize(buf)) = <<>>
  BY <1>6, <1>7, SubSeqEmpty DEF From
<1>9. SubSeq(buf, 2, u + 1) = l.user
  <2>1. PICK t \in Bytes : t = l.user /\ Len(t) = u
    BY <1>1
  <2>2. 1 + Len(t) <= Len(buf) /\ \A i \in 1 .. Len(t) : buf[i + 1] = t[i]
    BY <1>2, <1>3, <1>7, <2>1
  <2>3. SubSeq(buf, 1 + 1, 1 + Len(t)) = t
    BY <2>2, PartEqual
  <2>4. 1 + 1 = 2 /\ 1 + Len(t) = u + 1
    BY <2>1
  <2>. QED
    BY <2>1, <2>3, <2>4
<1>10. SubSeq(buf, u + 3, u + p + 2) = l.pass
  <2>1. PICK t \in Bytes, k \in Nat : t = l.pass /\ Len(t) = p /\ k = u + 2
    BY <1>1
  <2>2. k + Len(t) <= Len(buf) /\ \A i \in 1 .. Len(t) : buf[i + k] = t[i]
    <3>1. \A i \in 1 .. p : i + u + 2 \in 1 .. Len(buf) /\ i + u + 2 = i + k
      BY <1>7, <2>1
    <3>. QED
      BY <1>2, <1>3, <1>7, <2>1, <3>1
  <2>3. SubSeq(buf, k + 1, k + Len(t)) = t
    BY <2>2, PartEqual
  <2>4. k + 1 = u + 3 /\ k + Len(t) = u + p + 2
    BY <2>1
  <2>. QED
    BY <2>1, <2>3, <2>4
<1>11. l = [user |-> l.user, pass |-> l.pass]
  BY DEF Fits, Pairs
<1>. QED
  BY <1>4, <1>5, <1>6, <1>7, <1>8, <1>9, <1>10, <1>11 DEF ReadLogin

\* The beginning of a browser's request which is long enough for a login has the whole method
\* in it.
LEMMA MethodComesFirst ==
    ASSUME NEW buf \in Bytes, NEW rest \in Bytes, buf \o rest = Request, WholeLogin(buf)
    PROVE  MatchHttpMethod(buf)
<1>1. PICK m \in Methods : Len(m) > 2 /\ m[1] + 3 > Len(m) /\ IsPrefix(m, Request)
  BY HandshakeAssumption
<1>2. m \in Bytes /\ Len(m) \in Nat
  BY HandshakeAssumption, LenProperties DEF Bytes
<1>3. /\ Len(buf) \in Nat /\ Request \in Bytes /\ Len(buf) <= Len(Request)
      /\ \A i \in 1 .. Len(buf) : Request[i] = buf[i]
  <2>1. /\ Len(buf) \in Nat /\ Len(rest) \in Nat /\ Len(buf \o rest) = Len(buf) + Len(rest)
        /\ buf \o rest \in Bytes
        /\ \A i \in 1 .. Len(buf) : (buf \o rest)[i] = buf[i]
    BY Joined
  <2>. QED
    BY <2>1
<1>4. SubSeq(m, 1, Len(m)) = SubSeq(Request, 1, Len(m)) /\ Len(m) <= Len(Request)
  BY <1>1 DEF IsPrefix
<1>5. m[1] = Request[1] /\ m[1] = buf[1]
  <2>1. SubSeq(m, 1, Len(m))[1] = m[1]
    BY <1>1, <1>2, SubSeqFull DEF Bytes
  <2>2. SubSeq(Request, 1, Len(m))[1] = Request[1]
    BY <1>1, <1>2, <1>3, <1>4, SubSeqRestrict DEF Bytes, Restrict
  <2>3. 1 \in 1 .. Len(buf)
    BY <1>3 DEF WholeLogin
  <2>. QED
    BY <1>3, <1>4, <2>1, <2>2, <2>3
<1>6. Len(m) <= Len(buf)
  <2>1. Len(buf) >= m[1] + 3
    BY <1>5 DEF WholeLogin, UserLen
  <2>2. m[1] \in Nat
    BY <1>1, <1>2, ElementOfSeq, BaseAssumption DEF Bytes, Byte
  <2>. QED
    BY <1>1, <1>2, <1>3, <2>1, <2>2
<1>7. SubSeq(Request, 1, Len(m)) = SubSeq(buf, 1, Len(m))
  <2>1. Request = buf \o rest
    OBVIOUS
  <2>2. Len(m) \in 1 .. Len(buf) /\ 1 \in 1 .. Len(buf)
    BY <1>1, <1>2, <1>3, <1>6
  <2>. QED
    BY <2>1, <2>2, SubSeqOfConcat1 DEF Bytes
<1>. QED
  BY <1>4, <1>6, <1>7 DEF MatchHttpMethod, IsPrefix

-----------------------------------------------------------------------------
(* The inductive invariant.  It follows the bytes of the handshake: the login  *)
(* is what the server holds and what is in flight to it, until the server has  *)
(* read it; then the answer is what the client holds and what is in flight to  *)
(* the client, and nothing else is.                                            *)

Asked == cstate \in {"AUTH", "WAIT_AUTH_REPLY"}

LoginUnderWay ==
    /\ sstate \in {"none", "auth"}
    /\ c2s \in Bytes /\ sheld \in Bytes /\ sheld \o c2s = LoginMessage(login)
    /\ cheld = <<>> /\ s2c = <<>>

Accepted ==
    /\ login \in Accounts
    /\ \/ sstate = "serving" /\ c2s = <<>> /\ sgot = <<>>
       \/ sstate = "closed"
    /\ cheld \in Bytes /\ s2c \in Bytes /\ cheld \o s2c = Accept

Rejected ==
    /\ sstate \in {"http", "closed"}
    /\ cheld \in Bytes /\ s2c \in Bytes /\ cheld \o s2c \in {<<>>, Refuse}

ClientInv ==
    /\ login \in Configured
    /\ cstate \in {"INITIAL", "CONNECTING"} =>
          sstate = "none" /\ c2s = <<>> /\ s2c = <<>> /\ cheld = <<>>
    /\ sstate = "none" => sheld = <<>> /\ sgot = <<>> /\ cstate # "BUILD"
    /\ sstate = "auth" => sgot = <<>>
    /\ Asked => Fits(login) /\ (LoginUnderWay \/ Accepted \/ Rejected)
    /\ cstate = "BUILD" => login \in Accounts /\ sstate \in {"serving", "closed"}

BrowserInv ==
    cstate = "browser" =>
        /\ s2c = <<>>
        /\ sstate \in {"none", "auth", "http", "closed"}
        /\ sstate # "closed" => c2s \in Bytes /\ sheld \in Bytes /\ sheld \o c2s = Request

Inv == ClientInv /\ BrowserInv

LEMMA Answers ==
    /\ Accept \in Bytes /\ Refuse \in Bytes /\ <<>> \in Bytes
    /\ Len(Accept) = 2 /\ Len(Refuse) = 2 /\ Accept[1] # Refuse[1]
    /\ Accept[1] = FF /\ Accept[2] = 0
    /\ \A s \in Bytes : <<>> \o s = s /\ s \o <<>> = s
BY BaseAssumption, ConcatEmptySeq DEF Accept, Refuse, Bytes, Byte, FF

LEMMA InitInv == Init => Inv
BY DEF Init, Inv, ClientInv, BrowserInv, Asked

LEMMA ClientStarts == Inv /\ (ConnectToServer \/ Connected \/ LoginWritten \/ BrowserAsks) => Inv'
<1>. SUFFICES ASSUME Inv, ConnectToServer \/ Connected \/ LoginWritten \/ BrowserAsks PROVE Inv'
  OBVIOUS
<1>1. CASE ConnectToServer
  BY <1>1 DEF ConnectToServer, Inv, ClientInv, BrowserInv, Asked, serverVars
<1>2. CASE Connected
  <2>1. CASE cstate' = "CLOSED"
    BY <1>2, <2>1 DEF Connected, CloseClient, Inv, ClientInv, BrowserInv, Asked, serverVars
  <2>2. CASE cstate' = "AUTH"
    <3>1. /\ Fits(login) /\ login' = login /\ c2s' = LoginMessage(login)
          /\ sstate' = "none" /\ sheld' = <<>> /\ sgot' = <<>> /\ cheld' = <<>> /\ s2c' = <<>>
      BY <1>2, <2>2, HandshakeAssumption
         DEF Connected, CloseClient, Inv, ClientInv, Fits, serverVars
    <3>2. LoginUnderWay'
      BY <3>1, LoginLayout, Answers DEF LoginUnderWay
    <3>. QED
      BY <2>2, <3>1, <3>2 DEF Inv, ClientInv, BrowserInv, Asked, Fits
  <2>. QED
    BY <1>2, <2>1, <2>2 DEF Connected, CloseClient
<1>3. CASE LoginWritten
  BY <1>3 DEF LoginWritten, Inv, ClientInv, BrowserInv, Asked, LoginUnderWay, Accepted,
              Rejected, Fits, serverVars
<1>4. CASE BrowserAsks
  <2>1. Request \in Bytes /\ <<>> \o Request = Request /\ <<>> \in Bytes
    BY HandshakeAssumption, Answers DEF Bytes
  <2>. QED
    BY <1>4, <2>1 DEF BrowserAsks, Inv, ClientInv, BrowserInv, Asked, serverVars
<1>. QED
  BY <1>1, <1>2, <1>3, <1>4

\* The client reads the answer: what it holds and what is in flight is Accept or Refuse.
LEMMA ClientReadsInv == Inv /\ ClientReads => Inv'
<1>. SUFFICES ASSUME Inv, NEW n \in 1 .. Len(s2c), ClientRead(n) PROVE Inv'
  BY DEF ClientReads
<1>. DEFINE buf == cheld \o SubSeq(s2c, 1, n)
            rest == From(s2c, n)
<1>1. /\ s2c' = rest
      /\ UNCHANGED <<login, sstate, sheld, sgot, ssent, c2s>>
      /\ cstate' \in {cstate, "BUILD", "CLOSED"}
      /\ cstate' = "BUILD" =>
            \/ cstate = "BUILD"
            \/ cstate = "WAIT_AUTH_REPLY" /\ IsPrefix(Accept, buf)
      /\ Asked' => cstate = "WAIT_AUTH_REPLY" /\ cheld' = buf
      /\ cstate \notin {"INITIAL", "CONNECTING", "browser", "CLOSED"}
  BY DEF ClientRead, Authenticate, ClientDispatch, CloseClient, Asked, serverVars
<1>2. CASE cstate' \notin {"AUTH", "WAIT_AUTH_REPLY", "BUILD"}
  BY <1>1, <1>2 DEF Inv, ClientInv, BrowserInv, Asked
<1>3. CASE cstate = "BUILD"
  BY <1>1, <1>3 DEF Inv, ClientInv, BrowserInv, Asked
<1>4. CASE cstate = "WAIT_AUTH_REPLY" /\ cstate' \in {"WAIT_AUTH_REPLY", "BUILD"}
  <2>1. s2c \in Bytes /\ cheld \in Bytes /\ Fits(login) /\ Len(s2c) # 0 /\ s2c # <<>>
    <3>1. s2c # <<>>
      BY EmptySeq
    <3>. QED
      BY <1>4, <3>1, EmptySeq DEF Inv, ClientInv, Asked, LoginUnderWay, Accepted, Rejected
  <2>2. /\ buf \in Bytes /\ rest \in Bytes /\ buf \o rest = cheld \o s2c /\ Len(buf) = Len(cheld) + n
    BY <2>1, ReadKeeps
  <2>3. Accepted \/ Rejected
    BY <1>4, <2>1 DEF Inv, ClientInv, Asked, LoginUnderWay
  <2>4. CASE cstate' = "WAIT_AUTH_REPLY"
    <3>1. cheld' = buf /\ cheld' \o s2c' = cheld \o s2c /\ cheld' \in Bytes /\ s2c' \in Bytes
      BY <1>1, <2>2, <2>4 DEF Asked
    <3>2. Accepted' \/ Rejected'
      BY <1>1, <2>3, <3>1 DEF Accepted, Rejected
    <3>. QED
      BY <1>1, <1>4, <2>1, <2>4, <3>2 DEF Inv, ClientInv, BrowserInv, Asked, Fits
  <2>5. CASE cstate' = "BUILD"
    <3>1. buf[1] = FF /\ Len(buf) \in Nat /\ Len(buf) >= 2
      <4>1. IsPrefix(Accept, buf)
        BY <1>1, <1>4, <2>5
      <4>2. SubSeq(Accept, 1, 2) = SubSeq(buf, 1, 2) /\ Len(buf) >= 2
        BY <4>1, Answers DEF IsPrefix
      <4>3. Len(buf) \in Nat
        BY <2>2, LenProperties DEF Bytes
      <4>4. SubSeq(buf, 1, 2)[1] = buf[1]
        BY <2>2, <4>2, <4>3, SubSeqRestrict DEF Bytes, Restrict
      <4>5. SubSeq(Accept, 1, 2)[1] = Accept[1]
        BY Answers, SubSeqFull DEF Bytes
      <4>. QED
        BY <4>2, <4>3, <4>4, <4>5, Answers
    <3>2. (buf \o rest)[1] = buf[1] /\ Len(buf \o rest) >= 2
      <4>1. PICK b \in Bytes, r \in Bytes : b = buf /\ r = rest
        BY <2>2
      <4>2. /\ Len(b \o r) = Len(b) + Len(r) /\ Len(r) \in Nat
            /\ \A i \in 1 .. Len(b) : (b \o r)[i] = b[i]
        BY Joined
      <4>3. Len(b) \in Nat /\ Len(b) >= 2
        BY <3>1, <4>1
      <4>4. Len(b \o r) >= 2 /\ (b \o r)[1] = b[1]
        BY <4>2, <4>3
      <4>. QED
        BY <4>1, <4>4
    <3>3. ~ Rejected
      BY <2>2, <3>1, <3>2, Answers DEF Rejected
    <3>. QED
      BY <1>1, <2>3, <2>5, <3>3 DEF Accepted, Inv, ClientInv, BrowserInv, Asked
  <2>. QED
    BY <1>4, <2>4, <2>5
<1>. QED
  BY <1>1, <1>2, <1>3, <1>4 DEF Asked

\* The server reads the login, or a browser's request.
LEMMA ServerReadsInv == Inv /\ ServerReads => Inv'
<1>. SUFFICES ASSUME Inv, NEW n \in 1 .. Len(c2s), ServerRead(n) PROVE Inv'
  BY DEF ServerReads
<1>. DEFINE buf == sheld \o SubSeq(c2s, 1, n)
            rest == From(c2s, n)
<1>1. c2s' = rest /\ UNCHANGED clientVars /\ UNCHANGED <<login, cstate, cheld>> /\ c2s # <<>>
  BY EmptySeq DEF ServerRead, clientVars
<1>2. CASE sstate = "serving"
  <2>1. sstate' \in {"serving", "closed"} /\ s2c' = s2c
    BY <1>2 DEF ServerRead, ServerDispatch, CloseServer
  <2>2. ~ Asked \/ sstate # "serving" \/ Rejected \/ c2s = <<>>
    BY <1>2 DEF Inv, ClientInv, LoginUnderWay, Accepted
  <2>3. ~ Asked
    BY <1>1, <1>2, <2>2 DEF Rejected
  <2>. QED
    BY <1>1, <1>2, <2>1, <2>3 DEF Inv, ClientInv, BrowserInv, Asked
<1>3. CASE sstate = "auth" /\ cstate = "browser"
  <2>1. c2s \in Bytes /\ sheld \in Bytes /\ sheld \o c2s = Request /\ s2c = <<>>
    BY <1>3 DEF Inv, BrowserInv
  <2>2. buf \in Bytes /\ rest \in Bytes /\ buf \o rest = Request
    BY <2>1, ReadKeeps
  <2>3. HandToHttp(buf) \/ WaitForMore(buf)
    BY <1>3, <2>2, MethodComesFirst DEF ServerRead, CheckUser
  <2>4. sstate' \in {"auth", "http"} /\ sheld' = buf /\ s2c' = s2c /\ sgot' = sgot
    BY <1>3, <2>3 DEF HandToHttp, WaitForMore
  <2>. QED
    BY <1>1, <1>3, <2>1, <2>2, <2>4 DEF Inv, ClientInv, BrowserInv, Asked
<1>4. CASE sstate = "auth" /\ ~ Asked /\ cstate # "browser"
  <2>1. cstate \notin {"INITIAL", "CONNECTING", "BUILD", "browser"} /\ ~ Asked'
    BY <1>1, <1>4 DEF Inv, ClientInv, Asked
  <2>2. sstate' # "none" /\ (sstate' = "auth" => sgot' = sgot)
    BY <1>4 DEF ServerRead, HandToHttp, WaitForMore, CheckUser, CloseServer
  <2>. QED
    BY <1>1, <1>4, <2>1, <2>2 DEF Inv, ClientInv, BrowserInv
<1>5. CASE sstate = "auth" /\ Asked
  <2>1. LoginUnderWay /\ Fits(login)
    BY <1>5 DEF Inv, ClientInv, Accepted, Rejected
  <2>2. buf \in Bytes /\ rest \in Bytes /\ buf \o rest = LoginMessage(login)
    BY <2>1, ReadKeeps DEF LoginUnderWay
  <2>3. CASE HandToHttp(buf)
    <3>1. Rejected' /\ sstate' = "http"
      BY <1>1, <2>1, <2>3, Answers DEF HandToHttp, LoginUnderWay, Rejected
    <3>. QED
      BY <1>1, <1>5, <2>1, <3>1 DEF Inv, ClientInv, BrowserInv, Asked, Fits
  <2>4. CASE WaitForMore(buf)
    <3>1. LoginUnderWay' /\ sgot' = sgot /\ sstate' = "auth"
      BY <1>1, <1>5, <2>1, <2>2, <2>4 DEF WaitForMore, LoginUnderWay
    <3>. QED
      BY <1>1, <1>5, <2>1, <3>1 DEF Inv, ClientInv, BrowserInv, Asked, Fits
  <2>5. CASE CheckUser(buf) /\ sstate' = "serving"
    <3>1. rest = <<>> /\ ReadLogin(buf) = login
      BY <2>1, <2>2, <2>5, LoginReadBack DEF CheckUser
    <3>2. login \in Accounts /\ s2c' = s2c \o Accept /\ sgot' = sgot
      BY <2>5, <3>1 DEF CheckUser, CloseServer
    <3>3. sgot' = <<>> /\ cheld' = <<>> /\ s2c' = Accept
      BY <1>1, <1>5, <2>1, <3>2, Answers DEF Inv, ClientInv, LoginUnderWay
    <3>4. Accepted'
      BY <1>1, <2>5, <3>1, <3>2, <3>3, Answers DEF Accepted
    <3>. QED
      BY <1>1, <1>5, <2>1, <2>5, <3>4 DEF Inv, ClientInv, BrowserInv, Asked, Fits
  <2>6. CASE CheckUser(buf) /\ sstate' # "serving"
    <3>1. sstate' = "closed" /\ s2c' \in {s2c, s2c \o Refuse}
      BY <2>6 DEF CheckUser, CloseServer
    <3>2. Rejected'
      BY <1>1, <2>1, <3>1, Answers DEF Rejected, LoginUnderWay
    <3>. QED
      BY <1>1, <1>5, <2>1, <3>1, <3>2 DEF Inv, ClientInv, BrowserInv, Asked, Fits
  <2>. QED
    BY <1>5, <2>3, <2>4, <2>5, <2>6 DEF ServerRead
<1>. QED
  BY <1>2, <1>3, <1>4, <1>5 DEF ServerRead

\* Packets, and the ends of the connection.
LEMMA OtherSteps ==
    ASSUME Inv,
           \/ ClientFails \/ OnConnection \/ ServerFails
           \/ \E p \in Sendable : ClientSends(p) \/ ServerSends(p)
    PROVE  Inv'
<1>1. CASE ClientFails
  BY <1>1 DEF ClientFails, CloseClient, Inv, ClientInv, BrowserInv, Asked, serverVars
<1>2. CASE OnConnection
  <2>1. LoginUnderWay => LoginUnderWay'
    BY <1>2 DEF OnConnection, LoginUnderWay, clientVars
  <2>2. ~ Accepted /\ ~ Rejected
    BY <1>2 DEF OnConnection, Accepted, Rejected
  <2>. QED
    BY <1>2, <2>1, <2>2
       DEF OnConnection, Inv, ClientInv, BrowserInv, Asked, Fits, clientVars
<1>3. CASE ServerFails
  <2>1. Accepted => Accepted'
    BY <1>3 DEF ServerFails, CloseServer, Accepted, clientVars
  <2>2. LoginUnderWay \/ Rejected => Rejected'
    BY <1>3, Answers DEF ServerFails, CloseServer, LoginUnderWay, Rejected, clientVars
  <2>. QED
    BY <1>3, <2>1, <2>2
       DEF ServerFails, CloseServer, Inv, ClientInv, BrowserInv, Asked, Fits, clientVars
<1>4. ASSUME NEW p \in Sendable, ClientSends(p) PROVE Inv'
  BY <1>4 DEF ClientSends, Inv, ClientInv, BrowserInv, Asked, serverVars
<1>5. ASSUME NEW p \in Sendable, ServerSends(p) PROVE Inv'
  <2>1. sstate = "serving" /\ ~ Asked
    BY <1>5 DEF ServerSends, Inv, ClientInv, LoginUnderWay, Accepted, Rejected
  <2>2. cstate \notin {"INITIAL", "CONNECTING", "browser"}
    BY <2>1 DEF Inv, ClientInv, BrowserInv
  <2>. QED
    BY <1>5, <2>1, <2>2 DEF ServerSends, Inv, ClientInv, BrowserInv, Asked, clientVars
<1>. QED
  BY <1>1, <1>2, <1>3, <1>4, <1>5

LEMMA StepInv == Inv /\ [Next]_vars => Inv'
<1>1. CASE UNCHANGED vars
  BY <1>1 DEF vars, clientVars, serverVars, Inv, ClientInv, BrowserInv, Asked, LoginUnderWay,
              Accepted, Rejected, Fits
<1>. QED
  BY <1>1, ClientStarts, ClientReadsInv, ServerReadsInv, OtherSteps DEF Next

-----------------------------------------------------------------------------
\* A tunnel that the client takes for built was accepted by the server, for a user of its
\* configuration: authenticate() never takes another answer, however it is cut.
THEOREM BuiltHolds == Spec => []BuiltIsServed
<1>1. Inv => BuiltIsServed
  BY DEF Inv, ClientInv, BuiltIsServed
<1>. QED
  BY <1>1, InitInv, StepInv, PTL DEF Spec

\* dispatch_authentication_data never answers a browser, and hands all its bytes on: the method
\* is matched before the length of a user name is used.
THEOREM BrowserHolds == Spec => []BrowserServed
<1>1. Inv => BrowserServed
  BY DEF Inv, BrowserInv, BrowserServed
<1>. QED
  BY <1>1, InitInv, StepInv, PTL DEF Spec

-----------------------------------------------------------------------------
(* What follows the first bytes.                                               *)

LEMMA FromFacts ==
    ASSUME NEW S, NEW s \in Seq(S), NEW k \in 0 .. Len(s)
    PROVE  /\ From(s, k) \in Seq(S) /\ Len(From(s, k)) = Len(s) - k
           /\ \A i \in 1 .. Len(s) - k : From(s, k)[i] = s[k + i]
           /\ Len(s) \in Nat
<1>1. Len(s) \in Nat /\ \A i \in k + 1 .. Len(s) : s[i] \in S
  BY LenProperties, ElementOfSeq
<1>2. /\ SubSeq(s, k + 1, Len(s)) \in Seq(S)
      /\ Len(SubSeq(s, k + 1, Len(s))) = IF k + 1 <= Len(s) THEN Len(s) - (k + 1) + 1 ELSE 0
      /\ \A i \in 1 .. Len(s) - (k + 1) + 1 : SubSeq(s, k + 1, Len(s))[i] = s[(k + 1) + i - 1]
  BY <1>1, SubSeqProperties
<1>. QED
  BY <1>1, <1>2 DEF From

LEMMA FromStart ==
    ASSUME NEW S, NEW s \in Seq(S)
    PROVE  From(s, 0) = s
BY SubSeqFull DEF From

LEMMA FromConcat ==
    ASSUME NEW S, NEW s \in Seq(S), NEW t \in Seq(S), NEW k \in 0 .. Len(s)
    PROVE  From(s \o t, k) = From(s, k) \o t
<1>1. /\ s \o t \in Seq(S) /\ Len(s \o t) = Len(s) + Len(t)
      /\ \A i \in 1 .. Len(s) + Len(t) : (s \o t)[i] = IF i <= Len(s) THEN s[i] ELSE t[i - Len(s)]
      /\ Len(s) \in Nat /\ Len(t) \in Nat
  BY ConcatProperties, LenProperties
<1>2. PICK u \in Seq(S), m \in Nat, n \in Nat :
          /\ u = s \o t /\ m = Len(s) /\ n = Len(t) /\ Len(u) = m + n /\ k \in 0 .. m
          /\ \A i \in 1 .. m + n : u[i] = IF i <= m THEN s[i] ELSE t[i - m]
  BY <1>1
<1>3. PICK f \in Seq(S) : /\ f = From(s, k) /\ Len(f) = m - k
                          /\ \A i \in 1 .. m - k : f[i] = s[k + i]
  BY <1>2, FromFacts
<1>4. PICK g \in Seq(S) : /\ g = From(u, k) /\ Len(g) = m + n - k
                          /\ \A i \in 1 .. m + n - k : g[i] = u[k + i]
  <2>1. k \in 0 .. Len(u)
    BY <1>2
  <2>2. /\ From(u, k) \in Seq(S) /\ Len(From(u, k)) = Len(u) - k
        /\ \A i \in 1 .. Len(u) - k : From(u, k)[i] = u[k + i]
    BY <2>1, FromFacts
  <2>. QED
    BY <1>2, <2>2
<1>5. PICK h \in Seq(S) : /\ h = f \o t /\ Len(h) = m - k + n
                          /\ \A i \in 1 .. m - k + n : h[i] = IF i <= m - k THEN f[i] ELSE t[i - (m - k)]
  <2>1. /\ f \o t \in Seq(S) /\ Len(f \o t) = Len(f) + Len(t)
        /\ \A i \in 1 .. Len(f) + Len(t) : (f \o t)[i] = IF i <= Len(f) THEN f[i] ELSE t[i - Len(f)]
    BY ConcatProperties
  <2>2. Len(f) = m - k /\ Len(t) = n
    BY <1>2, <1>3
  <2>3. /\ f \o t \in Seq(S) /\ Len(f \o t) = m - k + n
        /\ \A i \in 1 .. m - k + n : (f \o t)[i] = IF i <= m - k THEN f[i] ELSE t[i - (m - k)]
    BY <2>1, <2>2, Zenon
  <2>. QED
    BY <2>3
<1>6. ASSUME NEW i \in 1 .. Len(g) PROVE g[i] = h[i]
  <2>1. i \in 1 .. m + n - k /\ k + i \in 1 .. m + n /\ i \in 1 .. m - k + n
    BY <1>2, <1>4
  <2>2. CASE i <= m - k
    BY <1>2, <1>3, <1>4, <1>5, <2>1, <2>2
  <2>3. CASE ~ (i <= m - k)
    <3>1. (k + i) - m = i - (m - k) /\ ~ (k + i <= m)
      BY <1>2, <2>1, <2>3
    <3>2. g[i] = u[k + i]
      BY <1>4, <2>1
    <3>3. u[k + i] = t[(k + i) - m]
      BY <1>2, <2>1, <3>1
    <3>4. h[i] = t[i - (m - k)]
      BY <1>5, <2>1, <2>3
    <3>. QED
      BY <3>1, <3>2, <3>3, <3>4
  <2>. QED
    BY <2>2, <2>3
<1>7. Len(g) = Len(h)
  BY <1>2, <1>4, <1>5
<1>. QED
  BY <1>2, <1>3, <1>4, <1>5, <1>6, <1>7, SeqEqual

LEMMA FromEnd ==
    ASSUME NEW S, NEW s \in Seq(S), NEW t \in Seq(S)
    PROVE  From(s \o t, Len(s)) = t /\ From(s, Len(s)) = <<>>
<1>1. Len(s) \in Nat
  BY LenProperties
<1>2. From(s, Len(s)) = <<>>
  BY <1>1, SubSeqEmpty DEF From
<1>. QED
  BY <1>1, <1>2, FromConcat, ConcatEmptySeq

LEMMA FromFrom ==
    ASSUME NEW S, NEW s \in Seq(S), NEW j \in 0 .. Len(s), NEW k \in 0 .. Len(s) - j
    PROVE  From(From(s, j), k) = From(s, j + k)
<1>1. /\ Len(s) \in Nat /\ j + k \in 0 .. Len(s)
      /\ From(s, j) \in Seq(S) /\ Len(From(s, j)) = Len(s) - j
      /\ \A i \in 1 .. Len(s) - j : From(s, j)[i] = s[j + i]
  <2>1. /\ From(s, j) \in Seq(S) /\ Len(From(s, j)) = Len(s) - j
        /\ \A i \in 1 .. Len(s) - j : From(s, j)[i] = s[j + i]
        /\ Len(s) \in Nat
    BY FromFacts
  <2>2. j + k \in 0 .. Len(s)
    BY <2>1
  <2>. QED
    BY <2>1, <2>2
<1>2. PICK f \in Seq(S), n \in Nat :
          /\ f = From(s, j) /\ n = Len(s) /\ Len(f) = n - j /\ k \in 0 .. n - j /\ j \in 0 .. n
          /\ k \in 0 .. Len(f)
          /\ \A i \in 1 .. n - j : f[i] = s[j + i]
  BY <1>1
<1>3. /\ From(f, k) \in Seq(S) /\ Len(From(f, k)) = Len(f) - k
      /\ \A i \in 1 .. Len(f) - k : From(f, k)[i] = f[k + i]
  BY <1>2, FromFacts
<1>4. /\ From(s, j + k) \in Seq(S) /\ Len(From(s, j + k)) = Len(s) - (j + k)
      /\ \A i \in 1 .. Len(s) - (j + k) : From(s, j + k)[i] = s[(j + k) + i]
  BY <1>1, FromFacts
<1>5. PICK g \in Seq(S), h \in Seq(S) :
          /\ g = From(f, k) /\ Len(g) = n - j - k /\ \A i \in 1 .. n - j - k : g[i] = f[k + i]
          /\ h = From(s, j + k) /\ Len(h) = n - j - k /\ \A i \in 1 .. n - j - k : h[i] = s[(j + k) + i]
  <2>1. Len(s) = n /\ Len(f) - k = n - j - k /\ n - (j + k) = n - j - k
    BY <1>2
  <2>. QED
    BY <1>3, <1>4, <2>1, ZenonT(30)
<1>6. ASSUME NEW i \in 1 .. Len(g) PROVE g[i] = h[i]
  <2>1. i \in 1 .. n - j - k /\ k + i \in 1 .. n - j /\ j + (k + i) = j + k + i
    BY <1>2, <1>5
  <2>. QED
    BY <1>2, <1>5, <2>1
<1>. QED
  BY <1>2, <1>5, <1>6, SeqEqual

-----------------------------------------------------------------------------
(* A length in the digits of a byte.                                           *)

LEMMA DivMod ==
    ASSUME NEW a \in Nat, NEW b \in Nat, b > 0
    PROVE  a \div b \in Nat /\ a % b \in 0 .. b - 1 /\ a = b * (a \div b) + (a % b)
OBVIOUS

LEMMA DivUnique ==
    ASSUME NEW b \in Nat, b > 0, NEW q \in Nat, NEW r \in 0 .. b - 1
    PROVE  (b * q + r) \div b = q
<1>1. PICK a \in Nat, m \in Nat, s \in 0 .. b - 1 :
          a = b * q + r /\ m = a \div b /\ s = a % b /\ a = b * m + s
  <2>1. b * q \in Nat
    OBVIOUS
  <2>2. b * q + r \in Nat
    BY <2>1
  <2>. QED
    BY <2>2, DivMod
<1>2. ASSUME NEW x \in Nat, NEW y \in Nat, x < y PROVE b * x + b <= b * y
  <2>1. PICK d \in Nat : y = x + 1 + d
    <3>1. y - x - 1 \in Nat /\ y = x + 1 + (y - x - 1)
      BY <1>2
    <3>. QED
      BY <3>1
  <2>2. b * y = b * x + b + b * d /\ b * d \in Nat
    BY <2>1
  <2>. QED
    BY <2>2
<1>3. ~ (m < q)
  <2>1. b * m \in Int /\ b * q \in Int
    OBVIOUS
  <2>. QED
    BY <1>1, <1>2, <2>1
<1>4. ~ (q < m)
  <2>1. b * m \in Int /\ b * q \in Int
    OBVIOUS
  <2>. QED
    BY <1>1, <1>2, <2>1
<1>. QED
  BY <1>1, <1>3, <1>4

LEMMA DivDiv ==
    ASSUME NEW a \in Nat, NEW b \in Nat, NEW c \in Nat, b > 0, c > 0
    PROVE  a \div (b * c) = (a \div b) \div c
<1>1. PICK q \in Nat, r \in 0 .. b - 1 : q = a \div b /\ a = b * q + r
  BY DivMod
<1>2. PICK p \in Nat, s \in 0 .. c - 1 : p = q \div c /\ q = c * p + s
  BY DivMod
<1>3. b * c \in Nat /\ b * c > 0
  OBVIOUS
<1>4. b * s + r \in 0 .. b * c - 1
  <2>1. b * s \in Nat /\ b * s + b <= b * c
    OBVIOUS
  <2>. QED
    BY <2>1, <1>3
<1>5. a = (b * c) * p + (b * s + r)
  <2>1. b * q = b * (c * p) + b * s /\ b * (c * p) = (b * c) * p
    BY <1>2
  <2>. QED
    BY <1>1, <2>1
<1>6. PICK d \in Nat : \E t \in 0 .. d - 1 : d = b * c /\ d > 0 /\ t = b * s + r
  BY <1>3, <1>4
<1>7. PICK t \in 0 .. d - 1 : d = b * c /\ d > 0 /\ t = b * s + r
  BY <1>6
<1>8. (d * p + t) \div d = p
  BY <1>7, DivUnique
<1>. QED
  BY <1>1, <1>2, <1>5, <1>7, <1>8

\* The digits of a length that fits 4 bytes.
LEMMA Digits ==
    ASSUME NEW len \in Nat, len < Wide * Wide
    PROVE  /\ len \div Base \in Nat /\ len % Base \in Byte
           /\ len = (len \div Base) * Base + (len % Base)
           /\ len < Wide => len \div Base \in Byte
           /\ len \div (Wide * Base) \in Byte /\ (len \div Wide) % Base \in Byte
           /\ (len \div Base) % Base \in Byte
           /\ len = (((len \div (Wide * Base)) * Base + ((len \div Wide) % Base)) * Base
                       + ((len \div Base) % Base)) * Base + (len % Base)
<1>1. PICK B \in Nat : B = Base /\ B > 2
  BY BaseAssumption
<1>2. PICK q1 \in Nat, r1 \in 0 .. B - 1 :
          q1 = len \div B /\ r1 = len % B /\ len = B * q1 + r1
  BY <1>1, DivMod
<1>3. PICK q2 \in Nat, r2 \in 0 .. B - 1 :
          q2 = q1 \div B /\ r2 = q1 % B /\ q1 = B * q2 + r2
  BY <1>1, DivMod
<1>4. PICK q3 \in Nat, r3 \in 0 .. B - 1 :
          q3 = q2 \div B /\ r3 = q2 % B /\ q2 = B * q3 + r3
  BY <1>1, DivMod
<1>5. len \div (B * B) = q2
  BY <1>1, <1>2, <1>3, DivDiv
<1>6. len \div ((B * B) * B) = q3
  <2>1. B * B \in Nat /\ B * B > 0
    BY <1>1
  <2>. QED
    BY <1>1, <1>4, <1>5, <2>1, DivDiv
<1>7. ASSUME len < B * B PROVE q1 < B
  <2>1. B * q1 \in Nat /\ B * B \in Nat
    OBVIOUS
  <2>2. ~ (q1 >= B)
    <3>1. q1 >= B => B * q1 >= B * B
      OBVIOUS
    <3>. QED
      BY <1>2, <1>7, <2>1, <3>1
  <2>. QED
    BY <2>2
<1>8. q3 < B
  <2>1. SUFFICES ASSUME q3 >= B PROVE FALSE
    OBVIOUS
  <2>2. B * q3 >= B * B /\ B * B \in Nat /\ B * q3 \in Nat
    BY <2>1
  <2>3. q2 >= B * B
    BY <1>4, <2>2
  <2>4. B * q2 >= B * (B * B) /\ B * (B * B) \in Nat /\ B * q2 \in Nat
    BY <2>2, <2>3
  <2>5. q1 >= B * (B * B)
    BY <1>3, <2>4
  <2>6. B * q1 >= B * (B * (B * B)) /\ B * (B * (B * B)) \in Nat /\ B * q1 \in Nat
    BY <2>4, <2>5
  <2>7. len >= B * (B * (B * B))
    BY <1>2, <2>6
  <2>8. Wide * Wide = B * (B * (B * B))
    BY <1>1 DEF Wide
  <2>. QED
    BY <2>6, <2>7, <2>8
<1>9. len = ((q3 * B + r3) * B + r2) * B + r1
  <2>1. q2 = q3 * B + r3 /\ q1 = q2 * B + r2 /\ len = q1 * B + r1
    BY <1>2, <1>3, <1>4
  <2>. QED
    BY <2>1
<1>10. len = q1 * B + r1
  BY <1>2
<1>11. q1 < B => q1 \in 0 .. B - 1
  OBVIOUS
<1>12. q3 \in 0 .. B - 1
  BY <1>8
<1>13. (len \div (B * B)) % B = r3 /\ (len \div B) % B = r2 /\ len % B = r1 /\ len \div B = q1
  BY <1>2, <1>3, <1>4, <1>5
<1>14. /\ len \div B \in Nat /\ len % B \in 0 .. B - 1
       /\ len = (len \div B) * B + (len % B)
       /\ len < B * B => len \div B \in 0 .. B - 1
       /\ len \div ((B * B) * B) \in 0 .. B - 1 /\ (len \div (B * B)) % B \in 0 .. B - 1
       /\ (len \div B) % B \in 0 .. B - 1
       /\ len = (((len \div ((B * B) * B)) * B + ((len \div (B * B)) % B)) * B
                    + ((len \div B) % B)) * B + (len % B)
  <2>1. len \div B \in Nat /\ len % B \in 0 .. B - 1 /\ len = (len \div B) * B + (len % B)
    <3>. DEFINE V(a, d) == a * B + d
    <3>1. len = V(q1, r1)
      BY <1>10
    <3>. HIDE DEF V
    <3>2. len = V(len \div B, len % B)
      BY <1>13, <3>1
    <3>. QED
      BY <1>13, <3>2 DEF V
  <2>2. len < B * B => len \div B \in 0 .. B - 1
    BY <1>7, <1>11, <1>13
  <2>3. /\ len \div ((B * B) * B) \in 0 .. B - 1 /\ (len \div (B * B)) % B \in 0 .. B - 1
        /\ (len \div B) % B \in 0 .. B - 1
    BY <1>6, <1>12, <1>13, Zenon
  <2>4. len = (((len \div ((B * B) * B)) * B + ((len \div (B * B)) % B)) * B
                  + ((len \div B) % B)) * B + (len % B)
    <3>. DEFINE V(a, b, c, d) == ((a * B + b) * B + c) * B + d
    <3>1. len = V(q3, r3, r2, r1)
      BY <1>9
    <3>. HIDE DEF V
    <3>2. len = V(len \div ((B * B) * B), (len \div (B * B)) % B, (len \div B) % B, len % B)
      BY <1>6, <1>13, <3>1
    <3>. QED
      BY <3>2 DEF V
  <2>. QED
    BY <2>1, <2>2, <2>3, <2>4
<1>. QED
  BY <1>1, <1>14, Zenon DEF Wide, Byte

-----------------------------------------------------------------------------
(* The codec.                                                                  *)

Writable == {p \in Packets : Len(p.body) < Wide * Wide}

\* The header of the length len begins the bytes e from the third on: its size is n.
Announces(e, n, len) ==
    \/ n = 3 /\ len < FE /\ e[3] = len
    \/ n = 5 /\ len >= FE /\ e[3] = FE /\ e[4] * Base + e[5] = len
    \/ n = 7 /\ len >= Wide /\ e[3] = FF
       /\ ((e[4] * Base + e[5]) * Base + e[6]) * Base + e[7] = len

LEMMA HeaderLayout ==
    ASSUME NEW len \in Nat, len < Wide * Wide
    PROVE  \E n \in {3, 5, 7} :
              /\ HeaderOfLength(len) \in Bytes /\ Len(HeaderOfLength(len)) = n - 2
              /\ \A e : (\A i \in 1 .. n - 2 : e[i + 2] = HeaderOfLength(len)[i])
                           => Announces(e, n, len)
<1>1. Base \in Nat /\ Base > 2 /\ FE \in Byte /\ FF \in Byte /\ FE \in Nat
  BY BaseAssumption DEF FE, FF, Byte
<1>2. CASE len < FE
  <2>1. HeaderOfLength(len) = <<len>> /\ len \in Byte
    BY <1>1, <1>2 DEF HeaderOfLength, FE, Byte
  <2>2. <<len>> \in Bytes /\ Len(<<len>>) = 3 - 2 /\ <<len>>[1] = len
    BY <2>1 DEF Bytes
  <2>3. ASSUME NEW e, \A i \in 1 .. 3 - 2 : e[i + 2] = <<len>>[i] PROVE Announces(e, 3, len)
    <3>1. e[1 + 2] = <<len>>[1]
      BY <2>3
    <3>. QED
      BY <1>2, <3>1 DEF Announces
  <2>. QED
    BY <2>1, <2>2, <2>3
<1>3. CASE ~ (len < FE) /\ len < Wide
  <2>1. PICK a \in Byte, b \in Byte : a = len \div Base /\ b = len % Base /\ len = a * Base + b
    BY <1>3, Digits
  <2>2. HeaderOfLength(len) = <<FE, a, b>>
    BY <1>3, <2>1 DEF HeaderOfLength
  <2>3. <<FE, a, b>> \in Bytes /\ Len(<<FE, a, b>>) = 5 - 2
    BY <1>1 DEF Bytes
  <2>4. ASSUME NEW e, \A i \in 1 .. 5 - 2 : e[i + 2] = <<FE, a, b>>[i] PROVE Announces(e, 5, len)
    <3>1. e[1 + 2] = <<FE, a, b>>[1] /\ e[2 + 2] = <<FE, a, b>>[2] /\ e[3 + 2] = <<FE, a, b>>[3]
      BY <2>4
    <3>2. e[3] = FE /\ e[4] = a /\ e[5] = b /\ len >= FE
      BY <1>1, <1>3, <3>1
    <3>. QED
      BY <2>1, <3>2 DEF Announces
  <2>. QED
    BY <2>2, <2>3, <2>4
<1>4. CASE ~ (len < FE) /\ ~ (len < Wide)
  <2>1. PICK a \in Byte, b \in Byte, c \in Byte, d \in Byte :
            /\ a = len \div (Wide * Base) /\ b = (len \div Wide) % Base
            /\ c = (len \div Base) % Base /\ d = len % Base
            /\ len = ((a * Base + b) * Base + c) * Base + d
    BY Digits
  <2>2. HeaderOfLength(len) = <<FF, a, b, c, d>>
    BY <1>4, <2>1 DEF HeaderOfLength
  <2>3. <<FF, a, b, c, d>> \in Bytes /\ Len(<<FF, a, b, c, d>>) = 7 - 2
    BY <1>1 DEF Bytes
  <2>4. ASSUME NEW e, \A i \in 1 .. 7 - 2 : e[i + 2] = <<FF, a, b, c, d>>[i]
        PROVE  Announces(e, 7, len)
    <3>1. /\ e[1 + 2] = <<FF, a, b, c, d>>[1] /\ e[2 + 2] = <<FF, a, b, c, d>>[2]
          /\ e[3 + 2] = <<FF, a, b, c, d>>[3] /\ e[4 + 2] = <<FF, a, b, c, d>>[4]
          /\ e[5 + 2] = <<FF, a, b, c, d>>[5]
      BY <2>4
    <3>2. e[3] = FF /\ e[4] = a /\ e[5] = b /\ e[6] = c /\ e[7] = d
      BY <3>1
    <3>3. len >= Wide
      <4>1. Wide \in Nat
        BY <1>1 DEF Wide
      <4>. QED
        BY <1>4, <4>1
    <3>. QED
      BY <2>1, <3>2, <3>3 DEF Announces
  <2>. QED
    BY <2>2, <2>3, <2>4
<1>. QED
  BY <1>2, <1>3, <1>4

LEMMA EncodeLayout ==
    ASSUME NEW p \in Writable
    PROVE  \E n \in {3, 5, 7} :
              /\ Encode(p) \in Bytes /\ Len(p.body) \in Nat
              /\ Len(Encode(p)) = n + Len(p.body)
              /\ Announces(Encode(p), n, Len(p.body))
              /\ Encode(p)[1] = p.op /\ Encode(p)[2] = p.id
              /\ SubSeq(Encode(p), n + 1, n + Len(p.body)) = p.body
<1>1. PICK body \in Bytes, len \in Nat :
          body = p.body /\ len = Len(body) /\ len < Wide * Wide /\ p.op \in Byte /\ p.id \in Byte
  BY LenProperties DEF Writable, Packets, Bytes
<1>2. PICK n \in {3, 5, 7} :
          /\ HeaderOfLength(len) \in Bytes /\ Len(HeaderOfLength(len)) = n - 2
          /\ \A e : (\A i \in 1 .. n - 2 : e[i + 2] = HeaderOfLength(len)[i])
                       => Announces(e, n, len)
  BY <1>1, HeaderLayout
<1>. DEFINE h == HeaderOfLength(len)
<1>. HIDE DEF h
<1>3. PICK a \in Bytes : a = <<p.op, p.id>> /\ Len(a) = 2 /\ a[1] = p.op /\ a[2] = p.id
  <2>1. <<p.op, p.id>> \in Bytes
    BY <1>1 DEF Bytes
  <2>. QED
    BY <2>1
<1>4. PICK b \in Bytes : /\ b = a \o h /\ Len(b) = n
                         /\ (\A i \in 1 .. 2 : b[i] = a[i]) /\ (\A i \in 1 .. n - 2 : b[2 + i] = h[i])
  <2>1. /\ a \o h \in Bytes /\ Len(a \o h) = Len(a) + Len(h)
        /\ \A i \in 1 .. Len(a) : (a \o h)[i] = a[i]
        /\ \A i \in 1 .. Len(h) : (a \o h)[Len(a) + i] = h[i]
    BY <1>2, Joined DEF h
  <2>2. Len(a) = 2 /\ Len(h) = n - 2 /\ 2 + (n - 2) = n
    BY <1>2, <1>3 DEF h
  <2>3. Len(a \o h) = n
    BY <2>1, <2>2
  <2>4. /\ \A i \in 1 .. 2 : (a \o h)[i] = a[i]
        /\ \A i \in 1 .. n - 2 : (a \o h)[2 + i] = h[i]
    BY <2>1, <2>2, Zenon
  <2>. QED
    BY <2>1, <2>3, <2>4
<1>5. PICK e \in Bytes : /\ e = b \o body /\ Len(e) = n + len
                         /\ (\A i \in 1 .. n : e[i] = b[i]) /\ (\A i \in 1 .. len : e[n + i] = body[i])
  <2>1. /\ b \o body \in Bytes /\ Len(b \o body) = Len(b) + Len(body)
        /\ \A i \in 1 .. Len(b) : (b \o body)[i] = b[i]
        /\ \A i \in 1 .. Len(body) : (b \o body)[Len(b) + i] = body[i]
    BY Joined
  <2>. QED
    BY <1>1, <1>4, <2>1, ZenonT(30)
<1>6. Encode(p) = e
  BY <1>1, <1>2, <1>3, <1>4, <1>5 DEF Encode, h
<1>7. Announces(e, n, len)
  <2>1. ASSUME NEW i \in 1 .. n - 2 PROVE e[i + 2] = h[i]
    <3>1. i + 2 \in 1 .. n /\ i + 2 = 2 + i
      BY <1>2
    <3>. QED
      BY <1>4, <1>5, <3>1
  <2>. QED
    BY <1>2, <2>1 DEF h
<1>8. e[1] = p.op /\ e[2] = p.id
  BY <1>2, <1>3, <1>4, <1>5
<1>9. SubSeq(e, n + 1, n + len) = body
  <2>1. n \in Nat /\ n + Len(body) <= Len(e) /\ \A i \in 1 .. Len(body) : e[i + n] = body[i]
    <3>1. \A i \in 1 .. len : e[i + n] = e[n + i]
      BY <1>2
    <3>. QED
      BY <1>1, <1>2, <1>5, <3>1
  <2>2. SubSeq(e, n + 1, n + Len(body)) = body
    BY <2>1, PartEqual
  <2>. QED
    BY <1>1, <2>2
<1>. QED
  BY <1>1, <1>5, <1>6, <1>7, <1>8, <1>9

Agree(buf, e, n) == \A i \in 1 .. n : buf[i] = e[i]

\* What the header of a packet tells of it, once it is there: the size, and never an error.
LEMMA HeaderRead ==
    ASSUME NEW n \in {3, 5, 7}, NEW len \in Nat, NEW buf \in Bytes, NEW e,
           Announces(e, n, len), Len(buf) >= 3, buf[3] = e[3],
           Len(buf) >= n => Agree(buf, e, n)
    PROVE  /\ HeaderSize(buf) = n
           /\ Len(buf) >= n => BodySize(buf) = len
           /\ ~ BadHeader(buf)
<1>1. Base \in Nat /\ Base > 2 /\ FE # FF /\ FE \in Nat /\ FF \in Nat /\ Len(buf) \in Nat
  BY BaseAssumption, LenProperties DEF FE, FF, Bytes
<1>2. CASE n = 3
  <2>1. buf[3] = len /\ len < FE
    BY <1>2 DEF Announces
  <2>2. buf[3] # FE /\ buf[3] # FF
    BY <1>1, <2>1 DEF FE, FF
  <2>3. HeaderSize(buf) = 3 /\ BodySize(buf) = len
    BY <2>1, <2>2 DEF HeaderSize, BodySize
  <2>. QED
    BY <1>2, <2>2, <2>3 DEF BadHeader
<1>3. CASE n = 5
  <2>1. buf[3] = FE /\ len >= FE /\ e[4] * Base + e[5] = len
    BY <1>3 DEF Announces
  <2>2. HeaderSize(buf) = 5 /\ BodySize(buf) = buf[4] * Base + buf[5]
    BY <1>1, <2>1 DEF HeaderSize, BodySize
  <2>3. ASSUME Len(buf) >= 5 PROVE BodySize(buf) = len
    BY <1>3, <2>1, <2>2, <2>3 DEF Agree
  <2>4. ~ BadHeader(buf)
    BY <1>1, <2>1, <2>2, <2>3 DEF BadHeader, HasHeader
  <2>. QED
    BY <1>3, <2>2, <2>3, <2>4
<1>4. CASE n = 7
  <2>1. /\ buf[3] = FF /\ len >= Wide
        /\ ((e[4] * Base + e[5]) * Base + e[6]) * Base + e[7] = len
    BY <1>4 DEF Announces
  <2>2. /\ HeaderSize(buf) = 7
        /\ BodySize(buf) = ((buf[4] * Base + buf[5]) * Base + buf[6]) * Base + buf[7]
    BY <1>1, <2>1 DEF HeaderSize, BodySize
  <2>3. ASSUME Len(buf) >= 7 PROVE BodySize(buf) = len
    BY <1>4, <2>1, <2>2, <2>3 DEF Agree
  <2>4. ~ BadHeader(buf)
    <3>1. Wide \in Nat
      BY <1>1 DEF Wide
    <3>. QED
      BY <1>1, <2>1, <2>2, <2>3, <3>1 DEF BadHeader, HasHeader
  <2>. QED
    BY <1>4, <2>2, <2>3, <2>4
<1>. QED
  BY <1>2, <1>3, <1>4

\* The bytes buf, before rest comes, begin with the packet p, or are a part of it.
BeginsWith(p, buf, rest, more) == buf \o rest = Encode(p) \o more

\* decode_packet of bytes that begin with a packet, or with a part of one: it is finished when
\* all of it is there, and is the packet that was written.
LEMMA FirstWritten ==
    ASSUME NEW p \in Writable, NEW buf \in Bytes, NEW rest \in Bytes, NEW more \in Bytes,
           BeginsWith(p, buf, rest, more)
    PROVE  /\ ~ BadHeader(buf)
           /\ Finished(buf) <=> Len(buf) >= Len(Encode(p))
           /\ Finished(buf) => /\ PacketSize(buf) = Len(Encode(p)) /\ FirstPacket(buf) = p
                               /\ From(buf, Len(Encode(p))) \o rest = more
<1>. USE DEF BeginsWith
<1>1. PICK n \in {3, 5, 7}, e \in Bytes, len \in Nat :
          /\ e = Encode(p) /\ len = Len(p.body) /\ Len(e) = n + len
          /\ Announces(e, n, len) /\ e[1] = p.op /\ e[2] = p.id
          /\ SubSeq(e, n + 1, n + len) = p.body
  <2>1. PICK n \in {3, 5, 7} :
              /\ Encode(p) \in Bytes /\ Len(p.body) \in Nat
              /\ Len(Encode(p)) = n + Len(p.body)
              /\ Announces(Encode(p), n, Len(p.body))
              /\ Encode(p)[1] = p.op /\ Encode(p)[2] = p.id
              /\ SubSeq(Encode(p), n + 1, n + Len(p.body)) = p.body
    BY EncodeLayout
  <2>. QED
    BY <2>1
<1>2. PICK k \in Nat : k = Len(buf) /\ \A i \in 1 .. k : i <= n + len => buf[i] = e[i]
  <2>1. /\ Len(buf) \in Nat /\ Len(rest) \in Nat /\ Len(buf \o rest) = Len(buf) + Len(rest)
        /\ \A i \in 1 .. Len(buf) : (buf \o rest)[i] = buf[i]
    BY Joined
  <2>2. \A i \in 1 .. Len(e) : (e \o more)[i] = e[i]
    BY Joined
  <2>3. ASSUME NEW i \in 1 .. Len(buf), i <= n + len PROVE buf[i] = e[i]
    <3>1. i \in 1 .. Len(e)
      BY <1>1, <2>1, <2>3
    <3>. QED
      BY <1>1, <2>1, <2>2, <3>1
  <2>. QED
    BY <2>1, <2>3
<1>3. CASE k < 3
  <2>1. ~ HasHeader(buf)
    BY <1>2, <1>3 DEF HasHeader
  <2>. QED
    BY <1>1, <1>2, <1>3, <2>1 DEF BadHeader, Finished
<1>4. CASE k >= 3
  <2>1. buf[3] = e[3] /\ (k >= n => \A i \in 1 .. n : buf[i] = e[i])
    <3>1. 3 \in 1 .. k /\ 3 <= n + len
      BY <1>1, <1>4
    <3>2. ASSUME k >= n, NEW i \in 1 .. n PROVE buf[i] = e[i]
      <4>1. i \in 1 .. k /\ i <= n + len
        BY <1>1, <3>2
      <4>. QED
        BY <1>2, <4>1
    <3>. QED
      BY <1>2, <3>1, <3>2
  <2>2. HeaderSize(buf) = n /\ (k >= n => BodySize(buf) = len) /\ ~ BadHeader(buf)
    <3>1. Announces(e, n, len) /\ Len(buf) >= 3 /\ buf[3] = e[3] /\ (Len(buf) >= n => Agree(buf, e, n))
      BY <1>1, <1>2, <1>4, <2>1 DEF Agree
    <3>2. /\ HeaderSize(buf) = n
          /\ Len(buf) >= n => BodySize(buf) = len
          /\ ~ BadHeader(buf)
      BY <3>1, HeaderRead
    <3>. QED
      BY <1>2, <3>2
  <2>3. HasHeader(buf) <=> k >= n
    BY <1>1, <1>2, <1>4, <2>2 DEF HasHeader
  <2>4. k >= n => PacketSize(buf) = n + len
    BY <2>2 DEF PacketSize
  <2>5. Finished(buf) <=> k >= n + len
    BY <1>1, <1>2, <2>2, <2>3, <2>4 DEF Finished
  <2>6. ASSUME k >= n + len
        PROVE  /\ PacketSize(buf) = n + len /\ FirstPacket(buf) = p
               /\ From(buf, n + len) \o rest = more
    <3>1. k >= n
      BY <1>1, <2>6
    <3>2. From(buf, n + len) \o rest = more
      <4>1. n + len \in 0 .. Len(buf) /\ n + len \in 0 .. Len(e)
        BY <1>1, <1>2, <2>6
      <4>2. From(buf \o rest, n + len) = From(buf, n + len) \o rest
        BY <4>1, FromConcat DEF Bytes
      <4>3. From(e \o more, n + len) = more
        BY <1>1, FromEnd DEF Bytes
      <4>. QED
        BY <1>1, <4>2, <4>3
    <3>3. SubSeq(buf, n + 1, n + len) = p.body
      <4>1. PICK body \in Bytes : body = p.body /\ Len(body) = len
        BY <1>1 DEF Writable, Packets, Bytes
      <4>2. ASSUME NEW i \in 1 .. Len(body) PROVE buf[i + n] = body[i]
        <5>1. i + n \in 1 .. k /\ i + n <= n + len /\ i \in 1 .. (n + len) - (n + 1) + 1
              /\ (n + 1) + i - 1 = i + n
          BY <1>1, <1>2, <2>6, <4>1
        <5>2. SubSeq(e, n + 1, n + len)[i] = e[i + n]
          <6>1. \A j \in n + 1 .. n + len : e[j] \in Byte
            <7>1. \A j \in 1 .. Len(e) : e[j] \in Byte
              BY ElementOfSeq DEF Bytes
            <7>2. \A j \in n + 1 .. n + len : j \in 1 .. Len(e)
              BY <1>1
            <7>. QED
              BY <7>1, <7>2
          <6>2. \A j \in 1 .. (n + len) - (n + 1) + 1 :
                    SubSeq(e, n + 1, n + len)[j] = e[(n + 1) + j - 1]
            BY <1>1, <6>1, SubSeqProperties
          <6>. QED
            BY <5>1, <6>2
        <5>. QED
          BY <1>1, <1>2, <4>1, <5>1, <5>2
      <4>3. n \in Nat /\ n + Len(body) <= Len(buf)
        BY <1>1, <1>2, <2>6, <4>1, SMTT(30)
      <4>4. SubSeq(buf, n + 1, n + Len(body)) = body
        BY <4>2, <4>3, PartEqual
      <4>. QED
        BY <4>1, <4>4
    <3>4. buf[1] = p.op /\ buf[2] = p.id
      BY <1>1, <1>2, <1>4
    <3>5. p = [op |-> p.op, id |-> p.id, body |-> p.body]
      BY DEF Writable, Packets
    <3>. QED
      BY <2>2, <2>4, <3>1, <3>2, <3>3, <3>4, <3>5 DEF FirstPacket
  <2>. QED
    BY <1>1, <1>2, <2>2, <2>5, <2>6
<1>. QED
  BY <1>2, <1>3, <1>4

\* What decode_packet finishes is a packet, and part of the bytes.
LEMMA FinishedTaken ==
    ASSUME NEW buf \in Bytes, Finished(buf)
    PROVE  PacketSize(buf) \in 3 .. Len(buf) /\ FirstPacket(buf) \in Packets
<1>1. Len(buf) \in Nat /\ Len(buf) >= 3 /\ Len(buf) >= HeaderSize(buf) /\ HeaderSize(buf) \in {3, 5, 7}
  BY LenProperties DEF Finished, HasHeader, HeaderSize, Bytes
<1>2. \A i \in 1 .. Len(buf) : buf[i] \in Byte /\ buf[i] \in Nat
  BY <1>1, ElementOfSeq, BaseAssumption DEF Bytes, Byte
<1>3. BodySize(buf) \in Nat
  <2>1. Base \in Nat /\ FE # FF
    BY BaseAssumption DEF FE, FF
  <2>2. CASE buf[3] = FE
    <3>1. HeaderSize(buf) = 5 /\ BodySize(buf) = buf[4] * Base + buf[5]
      BY <2>1, <2>2 DEF HeaderSize, BodySize
    <3>. QED
      BY <1>1, <1>2, <2>1, <3>1
  <2>3. CASE buf[3] = FF
    <3>1. /\ HeaderSize(buf) = 7
          /\ BodySize(buf) = ((buf[4] * Base + buf[5]) * Base + buf[6]) * Base + buf[7]
      BY <2>1, <2>3 DEF HeaderSize, BodySize
    <3>2. buf[4] \in Nat /\ buf[5] \in Nat /\ buf[6] \in Nat /\ buf[7] \in Nat
      BY <1>1, <1>2, <3>1
    <3>. QED
      BY <2>1, <3>1, <3>2
  <2>4. CASE buf[3] # FE /\ buf[3] # FF
    <3>1. BodySize(buf) = buf[3]
      BY <2>4 DEF BodySize
    <3>. QED
      BY <1>1, <1>2, <3>1
  <2>. QED
    BY <2>2, <2>3, <2>4
<1>4. PacketSize(buf) \in 3 .. Len(buf) /\ PacketSize(buf) \in Nat
  BY <1>1, <1>3 DEF Finished, PacketSize
<1>5. SubSeq(buf, HeaderSize(buf) + 1, PacketSize(buf)) \in Seq(Byte)
  <2>1. \A i \in HeaderSize(buf) + 1 .. PacketSize(buf) : buf[i] \in Byte
    BY <1>1, <1>2, <1>4
  <2>. QED
    BY <1>1, <1>4, <2>1, SubSeqProperties
<1>6. buf[1] \in Byte /\ buf[2] \in Byte
  BY <1>1, <1>2
<1>. QED
  BY <1>4, <1>5, <1>6 DEF FirstPacket, Packets

-----------------------------------------------------------------------------
(* decode_all_packet.                                                          *)

\* One step of its loop: what it makes of the bytes from k on, when f is what it makes of the
\* bytes from any later place on.
DecodeStep(buf, f, k) ==
    LET rest == From(buf, k)
    IN  IF Finished(rest)
        THEN [f[k + PacketSize(rest)] EXCEPT !.packets = <<FirstPacket(rest)>> \o @]
        ELSE [noerror |-> ~ BadHeader(rest), packets |-> <<>>, remain |-> rest]

DecodesFrom(buf, f) == f = [k \in 0 .. Len(buf) |-> DecodeStep(buf, f, k)]

LEMMA DecodeChosen ==
    ASSUME NEW buf
    PROVE  DecodeAll(buf) = (CHOOSE f : DecodesFrom(buf, f))[0]
BY DEF DecodeAll, DecodesFrom, DecodeStep

\* The loop ends: every packet is at least its header.
LEMMA DecodeFunction ==
    ASSUME NEW buf \in Bytes
    PROVE  \E f : /\ DecodeAll(buf) = f[0]
                  /\ \A k \in 0 .. Len(buf) : f[k] = DecodeStep(buf, f, k)
<1>. DEFINE D == 0 .. Len(buf)
            R == [noerror : BOOLEAN, packets : Seq(Packets), remain : Bytes]
            size == [k \in D |-> PacketSize(From(buf, k))]
            first == [k \in D |-> FirstPacket(From(buf, k))]
            Stop == {k \in D : ~ Finished(From(buf, k))}
            out == [k \in D |-> [noerror |-> ~ BadHeader(From(buf, k)), packets |-> <<>>,
                                 remain |-> From(buf, k)]]
            next == [k \in D |-> IF k \in Stop THEN k ELSE k + size[k]]
            With(r, p) == [r EXCEPT !.packets = <<p>> \o @]
            step == [k \in D |-> [r \in R |-> IF k \in Stop THEN r ELSE With(r, first[k])]]
            measure == [k \in D |-> Len(buf) - k]
<1>1. Len(buf) \in Nat /\ \A k \in D : From(buf, k) \in Bytes /\ Len(From(buf, k)) = Len(buf) - k
  <2>1. \A k \in D : From(buf, k) \in Seq(Byte) /\ Len(From(buf, k)) = Len(buf) - k
    BY FromFacts DEF Bytes
  <2>. QED
    BY <2>1, LenProperties DEF Bytes
<1>2. \A k \in D \ Stop : size[k] \in 3 .. Len(buf) - k /\ first[k] \in Packets
  <2>1. ASSUME NEW k \in D \ Stop PROVE size[k] \in 3 .. Len(buf) - k /\ first[k] \in Packets
    <3>1. From(buf, k) \in Bytes /\ Finished(From(buf, k))
      BY <1>1
    <3>2. /\ PacketSize(From(buf, k)) \in 3 .. Len(From(buf, k))
          /\ FirstPacket(From(buf, k)) \in Packets
      BY <3>1, FinishedTaken
    <3>. QED
      BY <1>1, <3>2
  <2>. QED
    BY <2>1
<1>3. \A r \in R, p \in Packets : With(r, p) \in R
  <2>1. ASSUME NEW r \in R, NEW p \in Packets PROVE With(r, p) \in R
    <3>1. <<p>> \in Seq(Packets) /\ r.packets \in Seq(Packets)
      OBVIOUS
    <3>2. <<p>> \o r.packets \in Seq(Packets)
      BY <3>1, ConcatProperties
    <3>. QED
      BY <3>2
  <2>. QED
    BY <2>1
<1>4. Recursion(D, R, Len(buf), measure, Stop, out, next, step)
  <2>1. out \in [D -> R]
    <3>1. ASSUME NEW k \in D PROVE out[k] \in R
      <4>1. (~ BadHeader(From(buf, k))) \in BOOLEAN /\ <<>> \in Seq(Packets) /\ From(buf, k) \in Bytes
        BY <1>1 DEF BadHeader
      <4>. QED
        BY <4>1
    <3>. QED
      BY <3>1
  <2>2. step \in [D -> [R -> R]]
    <3>. HIDE DEF R, With, Stop, D
    <3>1. \A k \in D, r \in R : (IF k \in Stop THEN r ELSE With(r, first[k])) \in R
      BY <1>2, <1>3
    <3>. QED
      BY <3>1
  <2>3. next \in [D -> D] /\ \A k \in D \ Stop : measure[next[k]] < measure[k]
    <3>. HIDE DEF R, With, Stop, first, size
    <3>. QED
      BY <1>1, <1>2, SMTT(30)
  <2>4. measure \in [D -> 0 .. Len(buf)] /\ Stop \in SUBSET D
    BY <1>1
  <2>. QED
    BY <1>1, <2>1, <2>2, <2>3, <2>4 DEF Recursion
<1>5. PICK f \in [D -> R] : Solution(D, Stop, out, next, step, f)
  <2>. HIDE DEF out, next, step, measure, Stop, D, R
  <2>. QED
    BY <1>4, BoundedRecursion
<1>6. ASSUME NEW k \in D PROVE f[k] = DecodeStep(buf, f, k)
  <2>1. f[k] = IF k \in Stop THEN out[k] ELSE step[k][f[next[k]]]
    <3>. HIDE DEF out, next, step, Stop, D, R
    <3>. QED
      BY <1>5 DEF Solution
  <2>2. CASE k \in Stop
    BY <2>1, <2>2 DEF DecodeStep
  <2>3. CASE k \notin Stop
    <3>1. next[k] \in D /\ next[k] = k + PacketSize(From(buf, k)) /\ f[next[k]] \in R
      <4>. HIDE DEF Stop, R, step, out
      <4>. QED
        BY <1>1, <1>2, <2>3
    <3>2. f[k] = With(f[next[k]], FirstPacket(From(buf, k)))
      <4>. HIDE DEF With, R
      <4>. QED
        BY <2>1, <2>3, <3>1
    <3>. QED
      BY <2>3, <3>1, <3>2 DEF DecodeStep
  <2>. QED
    BY <2>2, <2>3
<1>7. DecodesFrom(buf, f)
  <2>. HIDE DEF R
  <2>. QED
    BY <1>6 DEF DecodesFrom
<1>8. PICK g : DecodesFrom(buf, g) /\ DecodeAll(buf) = g[0]
  BY <1>7, DecodeChosen
<1>. QED
  BY <1>8 DEF DecodesFrom

LEMMA WrittenEmpty == Written(<<>>) = <<>>
<1>1. [i \in DOMAIN <<>> |-> Encode(<<>>[i])] = <<>>
  OBVIOUS
<1>. QED
  BY <1>1, FlattenEmpty DEF Written

\* The bytes of a run of packets.
LEMMA WrittenAppend ==
    ASSUME NEW ps \in Seq(Writable), NEW p \in Writable
    PROVE  /\ Written(ps) \in Bytes
           /\ Written(Append(ps, p)) = Written(ps) \o Encode(p)
<1>. DEFINE encoded(qs) == [i \in DOMAIN qs |-> Encode(qs[i])]
<1>1. \A q \in Writable : Encode(q) \in Bytes
  BY EncodeLayout
<1>2. ASSUME NEW qs \in Seq(Writable)
      PROVE  encoded(qs) \in Seq(Bytes) /\ Len(encoded(qs)) = Len(qs)
  <2>1. Len(qs) \in Nat /\ DOMAIN qs = 1 .. Len(qs) /\ \A i \in 1 .. Len(qs) : qs[i] \in Writable
    BY LenProperties, ElementOfSeq
  <2>2. encoded(qs) \in [1 .. Len(qs) -> Bytes]
    BY <1>1, <2>1
  <2>. QED
    BY <2>1, <2>2
<1>3. encoded(Append(ps, p)) = Append(encoded(ps), Encode(p))
  <2>1. /\ Append(ps, p) \in Seq(Writable) /\ Len(Append(ps, p)) = Len(ps) + 1
        /\ (\A i \in 1 .. Len(ps) : Append(ps, p)[i] = ps[i]) /\ Append(ps, p)[Len(ps) + 1] = p
        /\ Len(ps) \in Nat /\ DOMAIN ps = 1 .. Len(ps)
        /\ DOMAIN Append(ps, p) = 1 .. Len(Append(ps, p))
    BY AppendProperties, LenProperties
  <2>2. /\ encoded(ps) \in Seq(Bytes) /\ Len(encoded(ps)) = Len(ps)
        /\ encoded(Append(ps, p)) \in Seq(Bytes) /\ Len(encoded(Append(ps, p))) = Len(ps) + 1
    BY <1>2, <2>1
  <2>3. /\ Append(encoded(ps), Encode(p)) \in Seq(Bytes)
        /\ Len(Append(encoded(ps), Encode(p))) = Len(ps) + 1
        /\ \A i \in 1 .. Len(ps) : Append(encoded(ps), Encode(p))[i] = encoded(ps)[i]
        /\ Append(encoded(ps), Encode(p))[Len(ps) + 1] = Encode(p)
    <3>. HIDE DEF encoded
    <3>. QED
      BY <1>1, <2>2, AppendProperties
  <2>4. ASSUME NEW i \in 1 .. Len(ps) + 1
        PROVE  encoded(Append(ps, p))[i] = Append(encoded(ps), Encode(p))[i]
    <3>1. encoded(Append(ps, p))[i] = Encode(Append(ps, p)[i])
      BY <2>1
    <3>2. CASE i = Len(ps) + 1
      BY <2>1, <2>3, <3>1, <3>2
    <3>3. CASE i \in 1 .. Len(ps)
      <4>1. encoded(ps)[i] = Encode(ps[i])
        BY <2>1, <3>3
      <4>. QED
        BY <2>1, <2>3, <3>1, <3>3, <4>1
    <3>. QED
      BY <2>1, <3>2, <3>3
  <2>. HIDE DEF encoded
  <2>. QED
    BY <2>1, <2>2, <2>3, <2>4, SeqEqual
<1>4. encoded(ps) \in Seq(Bytes) /\ Encode(p) \in Bytes
  BY <1>1, <1>2
<1>6. /\ FlattenSeq(encoded(ps)) \in Bytes
      /\ FlattenSeq(Append(encoded(ps), Encode(p))) = FlattenSeq(encoded(ps)) \o Encode(p)
  <2>. HIDE DEF encoded
  <2>. QED
    BY <1>4, FlattenAppend DEF Bytes
<1>. QED
  BY <1>3, <1>6 DEF Written

\* The first of them first.
LEMMA WrittenFirst ==
    ASSUME NEW ps \in Seq(Writable), ps # <<>>
    PROVE  /\ ps[1] \in Writable /\ From(ps, 1) \in Seq(Writable)
           /\ Written(ps) = Encode(ps[1]) \o Written(From(ps, 1))
<1>. DEFINE tail == From(ps, 1)
            part(k) == SubSeq(tail, 1, k)
            P == {k \in 0 .. Len(tail) :
                    Written(<<ps[1]>> \o part(k)) = Encode(ps[1]) \o Written(part(k))}
<1>1. Len(ps) \in Nat /\ Len(ps) >= 1 /\ ps[1] \in Writable
  BY EmptySeq, LenProperties, ElementOfSeq
<1>2. tail \in Seq(Writable) /\ Len(tail) \in Nat
  BY <1>1, FromFacts
<1>3. \A k \in 0 .. Len(tail) : part(k) \in Seq(Writable)
  <2>1. \A i \in 1 .. Len(tail) : tail[i] \in Writable
    BY <1>2, ElementOfSeq
  <2>. HIDE DEF tail
  <2>. QED
    BY <1>2, <2>1, SubSeqProperties
<1>4. 0 \in P
  <2>1. part(0) = <<>> /\ <<ps[1]>> = Append(<<>>, ps[1]) /\ <<>> \in Seq(Writable)
    BY SubSeqEmpty
  <2>2. <<ps[1]>> \o <<>> = <<ps[1]>>
    OBVIOUS
  <2>3. Written(<<ps[1]>>) = <<>> \o Encode(ps[1]) /\ Written(<<>>) = <<>>
    BY <1>1, <2>1, WrittenAppend, WrittenEmpty
  <2>4. Encode(ps[1]) \in Bytes
    BY <1>1, EncodeLayout
  <2>5. Written(<<ps[1]>> \o part(0)) = Encode(ps[1]) \o Written(part(0))
    <3>. HIDE DEF part
    <3>. QED
      BY <2>1, <2>2, <2>3, <2>4, ConcatEmptySeq DEF Bytes
  <2>. QED
    BY <1>2, <2>5
<1>5. ASSUME NEW k \in 0 .. Len(tail) - 1, k \in P PROVE k + 1 \in P
  <2>1. PICK a \in Seq(Writable), x \in Writable : a = part(k) /\ x = tail[k + 1]
    <3>1. k \in 0 .. Len(tail) /\ k + 1 \in 1 .. Len(tail)
      BY <1>2
    <3>2. tail[k + 1] \in Writable
      BY <1>2, <3>1, ElementOfSeq
    <3>. HIDE DEF part
    <3>. QED
      BY <1>3, <3>1, <3>2
  <2>2. part(k + 1) = Append(a, x)
    <3>1. k + 1 \in 1 .. Len(tail) /\ 1 \in 1 .. Len(tail) /\ (k + 1) - 1 = k
      BY <1>2
    <3>. HIDE DEF tail
    <3>2. SubSeq(tail, 1, k + 1) = SubSeq(tail, 1, k) \o <<tail[k + 1]>>
      BY <1>2, <3>1, SubSeqRecursiveSecond
    <3>. QED
      BY <2>1, <3>2, AppendIsConcat
  <2>3. PICK b \in Seq(Writable) : b = <<ps[1]>> \o a
    <3>1. <<ps[1]>> \in Seq(Writable)
      BY <1>1
    <3>. QED
      BY <3>1, ConcatProperties
  <2>4. <<ps[1]>> \o Append(a, x) = Append(b, x)
    <3>1. PICK u \in Seq(Writable), w \in Seq(Writable) : u = <<ps[1]>> /\ w = <<x>>
      <4>1. <<ps[1]>> \in Seq(Writable) /\ <<x>> \in Seq(Writable)
        BY <1>1
      <4>. QED
        BY <4>1
    <3>2. u \o (a \o w) = (u \o a) \o w
      BY ConcatAssociative, SMTT(60)
    <3>3. Append(a, x) = a \o w /\ Append(b, x) = b \o w
      BY <3>1, AppendIsConcat
    <3>. QED
      BY <2>3, <3>1, <3>2, <3>3
  <2>5. Written(b) = Encode(ps[1]) \o Written(a)
    <3>. HIDE DEF part
    <3>. QED
      BY <1>5, <2>1, <2>3
  <2>6. Written(Append(b, x)) = Written(b) \o Encode(x) /\ Written(Append(a, x)) = Written(a) \o Encode(x)
    BY WrittenAppend
  <2>7. (Encode(ps[1]) \o Written(a)) \o Encode(x) = Encode(ps[1]) \o (Written(a) \o Encode(x))
    <3>1. PICK u \in Seq(Byte), v \in Seq(Byte), w \in Seq(Byte) :
              u = Encode(ps[1]) /\ v = Written(a) /\ w = Encode(x)
      BY <1>1, EncodeLayout, WrittenAppend DEF Bytes
    <3>2. (u \o v) \o w = u \o (v \o w)
      BY ConcatAssociative, SMTT(60)
    <3>. QED
      BY <3>1, <3>2
  <2>8. k + 1 \in 0 .. Len(tail)
    BY <1>2
  <2>9. Written(<<ps[1]>> \o part(k + 1)) = Encode(ps[1]) \o Written(part(k + 1))
    <3>. HIDE DEF part
    <3>. QED
      BY <2>2, <2>4, <2>5, <2>6, <2>7
  <2>. QED
    BY <2>8, <2>9
<1>6. Len(tail) \in P
  <2>. HIDE DEF P, tail
  <2>. QED
    BY <1>2, <1>4, <1>5, InductionTo
<1>7. part(Len(tail)) = tail
  <2>. HIDE DEF tail
  <2>. QED
    BY <1>2, SubSeqFull
<1>8. <<ps[1]>> \o tail = ps
  <2>1. SubSeq(ps, 1, Len(ps)) = <<ps[1]>> \o SubSeq(ps, 1 + 1, Len(ps))
    BY <1>1, SubSeqRecursiveFirst
  <2>. QED
    BY <2>1, SubSeqFull DEF From
<1>. QED
  <2>. HIDE DEF tail, part
  <2>1. Written(<<ps[1]>> \o part(Len(tail))) = Encode(ps[1]) \o Written(part(Len(tail)))
    BY <1>6
  <2>. QED
    BY <1>1, <1>2, <1>7, <1>8, <2>1 DEF tail

\* d is what decode_all_packet may make of the packets ps from the j-th on, before rest comes:
\* the packets that are whole, in order, and the bytes of the others that are there.
Decoded(ps, rest, d, j) ==
    \E i \in j .. Len(ps), r \in Bytes :
        /\ d = [noerror |-> TRUE, packets |-> SubSeq(ps, j + 1, i), remain |-> r]
        /\ r \o rest = Written(From(ps, i))
        /\ ~ Finished(r)

\* No packet is finished.
LEMMA DecodeNone ==
    ASSUME NEW ps, NEW j \in 0 .. Len(ps), Len(ps) \in Nat,
           NEW buf, NEW k \in 0 .. Len(buf), NEW f, f[k] = DecodeStep(buf, f, k),
           NEW rest, From(buf, k) \in Bytes, From(buf, k) \o rest = Written(From(ps, j)),
           ~ Finished(From(buf, k)), ~ BadHeader(From(buf, k))
    PROVE  Decoded(ps, rest, f[k], j)
<1>1. f[k] = [noerror |-> TRUE, packets |-> <<>>, remain |-> From(buf, k)]
  BY DEF DecodeStep
<1>2. SubSeq(ps, j + 1, j) = <<>> /\ j \in j .. Len(ps)
  BY SubSeqEmpty
<1>. QED
  BY <1>1, <1>2 DEF Decoded

\* A packet is finished: it comes before those that the loop takes from k2 on.
LEMMA DecodeOne ==
    ASSUME NEW ps \in Seq(Writable), NEW j \in 0 .. Len(ps) - 1,
           NEW buf, NEW k, NEW f, f[k] = DecodeStep(buf, f, k),
           Finished(From(buf, k)), FirstPacket(From(buf, k)) = ps[j + 1],
           NEW rest, Decoded(ps, rest, f[k + PacketSize(From(buf, k))], j + 1)
    PROVE  Decoded(ps, rest, f[k], j)
<1>. DEFINE d == f[k + PacketSize(From(buf, k))]
<1>1. PICK i \in j + 1 .. Len(ps), r \in Bytes :
          /\ d = [noerror |-> TRUE, packets |-> SubSeq(ps, (j + 1) + 1, i), remain |-> r]
          /\ r \o rest = Written(From(ps, i)) /\ ~ Finished(r)
  BY DEF Decoded
<1>2. f[k] = [d EXCEPT !.packets = <<ps[j + 1]>> \o @]
  BY DEF DecodeStep
<1>3. Len(ps) \in Nat /\ j + 1 \in 1 .. Len(ps)
  BY LenProperties
<1>4. <<ps[j + 1]>> \o SubSeq(ps, (j + 1) + 1, i) = SubSeq(ps, j + 1, i)
  BY <1>3, SubSeqRecursiveFirst
<1>5. f[k] = [noerror |-> TRUE, packets |-> SubSeq(ps, j + 1, i), remain |-> r]
  <2>. HIDE DEF d
  <2>. QED
    BY <1>1, <1>2, <1>4
<1>6. i \in j .. Len(ps)
  BY <1>3
<1>. QED
  BY <1>1, <1>5, <1>6 DEF Decoded

\* decode_all_packet of the first bytes of a run of packets, cut anywhere; no header is bad.
LEMMA DecodePart ==
    ASSUME NEW ps \in Seq(Writable), NEW buf \in Bytes, NEW rest \in Bytes,
           buf \o rest = Written(ps)
    PROVE  Decoded(ps, rest, DecodeAll(buf), 0)
<1>1. PICK f : /\ DecodeAll(buf) = f[0]
               /\ \A k \in 0 .. Len(buf) : f[k] = DecodeStep(buf, f, k)
  BY DecodeFunction
<1>. DEFINE D == 0 .. Len(buf)
            n == Len(ps)
            Decodes(k, j) ==
                From(buf, k) \o rest = Written(From(ps, j)) => Decoded(ps, rest, f[k], j)
            P == {m \in 0 .. n : \A k \in D : Decodes(k, n - m)}
<1>2. n \in Nat /\ Len(buf) \in Nat
  BY LenProperties DEF Bytes
<1>3. \A k \in D : From(buf, k) \in Bytes /\ Len(From(buf, k)) = Len(buf) - k
  BY <1>2, FromFacts DEF Bytes
<1>4. 0 \in P
  <2>1. ASSUME NEW k \in D, From(buf, k) \o rest = Written(From(ps, n))
        PROVE  Decoded(ps, rest, f[k], n)
    <3>1. From(ps, n) = <<>> /\ Written(<<>>) = <<>>
      BY FromEnd, WrittenEmpty
    <3>2. PICK b \in Bytes : b = From(buf, k) /\ b \o rest = <<>>
      BY <1>3, <2>1, <3>1
    <3>3. Len(b) = 0
      <4>1. b = <<>>
        BY <3>2, ConcatEqualIffEmpty DEF Bytes
      <4>. QED
        BY <4>1
    <3>4. ~ Finished(From(buf, k)) /\ ~ BadHeader(From(buf, k))
      BY <3>2, <3>3 DEF Finished, BadHeader, HasHeader
    <3>5. n \in 0 .. n /\ f[k] = DecodeStep(buf, f, k) /\ From(buf, k) \in Bytes
      BY <1>1, <1>2, <1>3
    <3>. QED
      BY <1>2, <2>1, <3>4, <3>5, DecodeNone
  <2>2. n - 0 = n /\ 0 \in 0 .. n
    BY <1>2
  <2>. QED
    BY <2>1, <2>2
<1>5. ASSUME NEW m \in 0 .. n - 1, m \in P PROVE m + 1 \in P
  <2>1. PICK j \in 0 .. n - 1 : j = n - (m + 1) /\ j + 1 = n - m /\ j \in 0 .. n
    <3>1. /\ n - (m + 1) \in 0 .. n - 1 /\ (n - (m + 1)) + 1 = n - m
          /\ n - (m + 1) \in 0 .. n
      BY <1>2
    <3>. QED
      BY <3>1
  <2>2. PICK p \in Writable, qs \in Seq(Writable) :
            /\ p = ps[j + 1] /\ qs = From(ps, j + 1)
            /\ Written(From(ps, j)) = Encode(p) \o Written(qs)
    <3>1. /\ From(ps, j) \in Seq(Writable) /\ Len(From(ps, j)) = n - j
          /\ \A i \in 1 .. n - j : From(ps, j)[i] = ps[j + i]
          /\ From(From(ps, j), 1) = From(ps, j + 1)
      <4>1. j \in 0 .. Len(ps) /\ 1 \in 0 .. Len(ps) - j
        BY <1>2
      <4>. QED
        BY <1>2, <4>1, FromFacts, FromFrom
    <3>2. From(ps, j) # <<>> /\ From(ps, j)[1] = ps[j + 1]
      BY <3>1
    <3>3. /\ From(ps, j)[1] \in Writable /\ From(From(ps, j), 1) \in Seq(Writable)
          /\ Written(From(ps, j)) = Encode(From(ps, j)[1]) \o Written(From(From(ps, j), 1))
      BY <3>1, <3>2, WrittenFirst
    <3>. QED
      BY <3>1, <3>2, <3>3
  <2>3. ASSUME NEW k \in D, From(buf, k) \o rest = Written(From(ps, j))
        PROVE  Decoded(ps, rest, f[k], j)
    <3>1. PICK cur \in Bytes, w \in Bytes :
              cur = From(buf, k) /\ w = Written(qs) /\ cur \o rest = Encode(p) \o w
      BY <1>3, <2>2, <2>3, WrittenAppend
    <3>2. /\ ~ BadHeader(cur)
          /\ Finished(cur) => /\ PacketSize(cur) = Len(Encode(p)) /\ FirstPacket(cur) = p
                              /\ From(cur, Len(Encode(p))) \o rest = w
      <4>1. BeginsWith(p, cur, rest, w)
        BY <3>1 DEF BeginsWith
      <4>2. /\ ~ BadHeader(cur)
            /\ Finished(cur) <=> Len(cur) >= Len(Encode(p))
            /\ Finished(cur) => /\ PacketSize(cur) = Len(Encode(p)) /\ FirstPacket(cur) = p
                                /\ From(cur, Len(Encode(p))) \o rest = w
        BY <4>1, FirstWritten
      <4>. QED
        BY <4>2
    <3>3. f[k] = DecodeStep(buf, f, k) /\ From(buf, k) \in Bytes /\ k \in 0 .. Len(buf)
      BY <1>1, <1>3
    <3>4. CASE ~ Finished(cur)
      BY <1>2, <2>1, <2>3, <3>1, <3>2, <3>3, <3>4, DecodeNone
    <3>5. CASE Finished(cur)
      <4>1. PacketSize(cur) \in 0 .. Len(buf) - k /\ k + PacketSize(cur) \in D
        <5>1. PacketSize(cur) \in 3 .. Len(cur) /\ Len(cur) = Len(buf) - k
          BY <1>3, <3>1, <3>5, FinishedTaken
        <5>. QED
          BY <1>2, <5>1
      <4>2. From(cur, PacketSize(cur)) = From(buf, k + PacketSize(cur))
        BY <3>1, <3>3, <4>1, FromFrom DEF Bytes
      <4>3. From(buf, k + PacketSize(cur)) \o rest = Written(From(ps, j + 1))
        BY <2>2, <3>1, <3>2, <3>5, <4>2
      <4>4. Decoded(ps, rest, f[k + PacketSize(cur)], j + 1)
        <5>1. Decodes(k + PacketSize(cur), n - m)
          BY <1>5, <4>1
        <5>. QED
          BY <2>1, <4>3, <5>1
      <4>. QED
        BY <2>2, <3>1, <3>2, <3>3, <3>5, <4>4, DecodeOne
    <3>. QED
      BY <3>4, <3>5
  <2>4. m + 1 \in 0 .. n
    BY <1>2
  <2>. QED
    BY <2>1, <2>3, <2>4
<1>6. n \in P
  <2>. HIDE DEF P
  <2>. QED
    BY <1>2, <1>4, <1>5, InductionTo
<1>7. From(buf, 0) = buf /\ From(ps, 0) = ps
  BY FromStart DEF Bytes
<1>8. Decodes(0, 0)
  <2>1. n - n = 0 /\ 0 \in D
    BY <1>2
  <2>2. Decodes(0, n - n)
    BY <1>6, <2>1
  <2>. QED
    BY <2>1, <2>2
<1>. QED
  BY <1>1, <1>7, <1>8

-----------------------------------------------------------------------------
(* One direction of the connection, once both ends are past the handshake.     *)

\* An end has dispatched got of the packets sent to it: the bytes of the others are those it
\* holds and those in flight, and no whole packet is held.
Follows(got, sent, held, wire) ==
    /\ got = SubSeq(sent, 1, Len(got)) /\ Len(got) <= Len(sent)
    /\ Written(From(sent, Len(got))) = held \o wire
    /\ ~ Finished(held)

LEMMA FollowsPrefix ==
    ASSUME NEW sent \in Seq(Packets), NEW got \in Seq(Packets)
    PROVE  IsPrefix(got, sent) <=> got = SubSeq(sent, 1, Len(got)) /\ Len(got) <= Len(sent)
<1>1. SubSeq(got, 1, Len(got)) = got
  BY SubSeqFull
<1>. QED
  BY <1>1 DEF IsPrefix

LEMMA WritableIsPacket ==
    ASSUME NEW ps \in Seq(Writable)
    PROVE  ps \in Seq(Packets)
BY SeqMonotonic DEF Writable

\* Dispatching what a read brings.
LEMMA DispatchFollows ==
    ASSUME NEW sent \in Seq(Writable), NEW got \in Seq(Packets),
           NEW held \in Bytes, NEW wire \in Bytes, NEW n \in 1 .. Len(wire),
           Follows(got, sent, held, wire)
    PROVE  LET d == DecodeAll(held \o SubSeq(wire, 1, n))
           IN  /\ d.noerror /\ d.remain \in Bytes /\ got \o d.packets \in Seq(Packets)
               /\ Follows(got \o d.packets, sent, d.remain, From(wire, n))
<1>1. PICK buf \in Bytes, rest \in Bytes :
          buf = held \o SubSeq(wire, 1, n) /\ rest = From(wire, n) /\ buf \o rest = held \o wire
  BY ReadKeeps, ZenonT(30)
<1>2. PICK m \in Nat, len \in Nat : m = Len(got) /\ len = Len(sent) /\ m \in 0 .. len
  <2>1. Len(got) \in Nat /\ Len(sent) \in Nat
    BY LenProperties
  <2>2. Len(got) <= Len(sent)
    BY DEF Follows
  <2>. QED
    BY <2>1, <2>2
<1>3. PICK ps \in Seq(Writable) : /\ ps = From(sent, m) /\ Len(ps) = len - m
                                  /\ \A i \in 1 .. len - m : ps[i] = sent[m + i]
  <2>1. m \in 0 .. Len(sent)
    BY <1>2
  <2>2. /\ From(sent, m) \in Seq(Writable) /\ Len(From(sent, m)) = Len(sent) - m
        /\ \A i \in 1 .. Len(sent) - m : From(sent, m)[i] = sent[m + i]
    BY <2>1, FromFacts
  <2>. QED
    BY <1>2, <2>2
<1>4. Decoded(ps, rest, DecodeAll(buf), 0)
  BY <1>1, <1>2, <1>3, DecodePart DEF Follows
<1>5. PICK i \in 0 .. len - m, r \in Bytes :
          /\ DecodeAll(buf) = [noerror |-> TRUE, packets |-> SubSeq(ps, 1, i), remain |-> r]
          /\ r \o rest = Written(From(ps, i)) /\ ~ Finished(r)
  <2>1. PICK i \in 0 .. Len(ps), r \in Bytes :
            /\ DecodeAll(buf) = [noerror |-> TRUE, packets |-> SubSeq(ps, 0 + 1, i), remain |-> r]
            /\ r \o rest = Written(From(ps, i)) /\ ~ Finished(r)
    BY <1>4 DEF Decoded
  <2>2. 0 + 1 = 1 /\ i \in 0 .. len - m
    BY <1>3
  <2>. QED
    BY <2>1, <2>2
<1>6. From(ps, i) = From(sent, m + i)
  BY <1>2, <1>3, FromFrom, ZenonT(30)
<1>7. got \o SubSeq(ps, 1, i) = SubSeq(sent, 1, m + i)
  <2>1. SubSeq(ps, 1, i) = SubSeq(sent, m + 1, m + i)
    <3>1. /\ SubSeq(ps, 1, i) \in Seq(Writable) /\ Len(SubSeq(ps, 1, i)) = i
          /\ \A j \in 1 .. i : SubSeq(ps, 1, i)[j] = sent[m + j]
      <4>1. \A j \in 1 .. i : ps[j] \in Writable /\ ps[j] = sent[m + j] /\ 1 + j - 1 = j
        BY <1>2, <1>3, ElementOfSeq
      <4>2. /\ SubSeq(ps, 1, i) \in Seq(Writable)
            /\ Len(SubSeq(ps, 1, i)) = IF 1 <= i THEN i - 1 + 1 ELSE 0
            /\ \A j \in 1 .. i - 1 + 1 : SubSeq(ps, 1, i)[j] = ps[1 + j - 1]
        BY <1>2, <4>1, SubSeqProperties
      <4>. QED
        BY <4>1, <4>2
    <3>2. /\ SubSeq(sent, m + 1, m + i) \in Seq(Writable) /\ Len(SubSeq(sent, m + 1, m + i)) = i
          /\ \A j \in 1 .. i : SubSeq(sent, m + 1, m + i)[j] = sent[m + j]
      <4>1. \A j \in m + 1 .. m + i : sent[j] \in Writable
        BY <1>2, ElementOfSeq
      <4>2. /\ SubSeq(sent, m + 1, m + i) \in Seq(Writable)
            /\ Len(SubSeq(sent, m + 1, m + i)) = IF m + 1 <= m + i THEN (m + i) - (m + 1) + 1 ELSE 0
            /\ \A j \in 1 .. (m + i) - (m + 1) + 1 :
                  SubSeq(sent, m + 1, m + i)[j] = sent[(m + 1) + j - 1]
        BY <4>1, SubSeqProperties
      <4>3. \A j \in 1 .. i : j \in 1 .. (m + i) - (m + 1) + 1 /\ (m + 1) + j - 1 = m + j
        OBVIOUS
      <4>. QED
        BY <4>2, <4>3
    <3>. QED
      BY <3>1, <3>2, SeqEqual
  <2>2. SubSeq(sent, 1, m) \o SubSeq(sent, m + 1, m + i) = SubSeq(sent, 1, m + i)
    <3>1. 1 \in 1 .. Len(sent) + 1 /\ m \in 1 - 1 .. Len(sent) /\ m + i \in m .. Len(sent)
      BY <1>2
    <3>. QED
      BY <3>1, ConcatAdjacentSubSeq
  <2>. QED
    BY <1>2, <2>1, <2>2 DEF Follows
<1>8. SubSeq(sent, 1, m + i) \in Seq(Packets) /\ Len(SubSeq(sent, 1, m + i)) = m + i
  <2>1. \A j \in 1 .. m + i : sent[j] \in Packets
    <3>1. \A j \in 1 .. len : sent[j] \in Writable
      BY <1>2, ElementOfSeq
    <3>. QED
      BY <1>2, <3>1 DEF Writable
  <2>. QED
    BY <1>2, <2>1, SubSeqProperties
<1>9. /\ got \o DecodeAll(buf).packets = SubSeq(sent, 1, m + i)
      /\ DecodeAll(buf).noerror /\ DecodeAll(buf).remain = r
  BY <1>5, <1>7
<1>10. Follows(SubSeq(sent, 1, m + i), sent, r, rest)
  BY <1>2, <1>5, <1>6, <1>8 DEF Follows
<1>. QED
  BY <1>1, <1>8, <1>9, <1>10

\* Another packet is written.
LEMMA SendFollows ==
    ASSUME NEW sent \in Seq(Writable), NEW got \in Seq(Packets), NEW p \in Writable,
           NEW held \in Bytes, NEW wire \in Bytes, Follows(got, sent, held, wire)
    PROVE  Follows(got, Append(sent, p), held, wire \o Encode(p))
<1>1. PICK m \in Nat, len \in Nat : m = Len(got) /\ len = Len(sent) /\ m \in 0 .. len
  <2>1. Len(got) \in Nat /\ Len(sent) \in Nat
    BY LenProperties
  <2>2. Len(got) <= Len(sent)
    BY DEF Follows
  <2>. QED
    BY <2>1, <2>2
<1>2. /\ Append(sent, p) = sent \o <<p>> /\ <<p>> \in Seq(Writable)
      /\ Append(sent, p) \in Seq(Writable) /\ Len(Append(sent, p)) = len + 1
      /\ \A i \in 1 .. len : Append(sent, p)[i] = sent[i]
  BY <1>1, AppendIsConcat, AppendProperties
<1>3. PICK ps \in Seq(Writable) : ps = From(sent, m)
  BY <1>1, FromFacts
<1>4. From(Append(sent, p), m) = Append(ps, p)
  <2>1. From(sent \o <<p>>, m) = From(sent, m) \o <<p>>
    BY <1>1, <1>2, FromConcat
  <2>. QED
    BY <1>2, <1>3, <2>1, AppendIsConcat
<1>5. Written(Append(ps, p)) = Written(ps) \o Encode(p) /\ Written(ps) = held \o wire
  BY <1>1, <1>3, WrittenAppend DEF Follows
<1>6. (held \o wire) \o Encode(p) = held \o (wire \o Encode(p))
  <2>1. PICK u \in Seq(Byte), v \in Seq(Byte), w \in Seq(Byte) : u = held /\ v = wire /\ w = Encode(p)
    BY EncodeLayout DEF Bytes
  <2>2. (u \o v) \o w = u \o (v \o w)
    BY ConcatAssociative, SMTT(60)
  <2>. QED
    BY <2>1, <2>2
<1>7. SubSeq(Append(sent, p), 1, m) = SubSeq(sent, 1, m)
  <2>1. CASE m = 0
    BY <2>1, SubSeqEmpty
  <2>2. CASE m # 0
    <3>1. 1 \in 1 .. Len(sent) /\ m \in 1 .. Len(sent)
      BY <1>1, <2>2
    <3>. QED
      BY <1>2, <3>1, SubSeqOfConcat1
  <2>. QED
    BY <2>1, <2>2
<1>8. got = SubSeq(sent, 1, m) /\ m <= len + 1 /\ ~ Finished(held)
  BY <1>1 DEF Follows
<1>9. Written(From(Append(sent, p), m)) = held \o (wire \o Encode(p))
  BY <1>4, <1>5, <1>6
<1>. QED
  BY <1>1, <1>2, <1>7, <1>8, <1>9 DEF Follows

\* Nothing is sent yet, and nothing is held.
LEMMA FollowsStart == Follows(<<>>, <<>>, <<>>, <<>>)
<1>1. From(<<>>, 0) = <<>> /\ SubSeq(<<>>, 1, 0) = <<>> /\ Len(<<>>) = 0
  BY SubSeqEmpty DEF From
<1>2. <<>> \o <<>> = <<>>
  OBVIOUS
<1>3. ~ Finished(<<>>)
  BY <1>1 DEF Finished, HasHeader
<1>. QED
  BY <1>1, <1>2, <1>3, WrittenEmpty DEF Follows

\* The bytes held and in flight have no bad header.
LEMMA FollowsNoError ==
    ASSUME NEW sent \in Seq(Writable), NEW got \in Seq(Packets),
           NEW held \in Bytes, NEW wire \in Bytes, Follows(got, sent, held, wire)
    PROVE  DecodeAll(held \o wire).noerror
<1>1. PICK buf \in Bytes : buf = held \o wire /\ buf \o <<>> = buf /\ <<>> \in Bytes
  BY ConcatProperties, ConcatEmptySeq, EmptySeq DEF Bytes
<1>2. Len(got) \in 0 .. Len(sent)
  BY LenProperties DEF Follows
<1>3. PICK ps \in Seq(Writable) : ps = From(sent, Len(got))
  BY <1>2, FromFacts
<1>4. Decoded(ps, <<>>, DecodeAll(buf), 0)
  BY <1>1, <1>3, DecodePart DEF Follows
<1>. QED
  BY <1>1, <1>4 DEF Decoded

-----------------------------------------------------------------------------
(* The inductive invariant of the packets.  Nothing is sent before both ends   *)
(* are past the handshake, whose messages are then used up to the last byte;   *)
(* from then on each direction follows what was written.                       *)

PacketsInv ==
    /\ TypeOK
    /\ csent \in Seq(Sendable) /\ ssent \in Seq(Sendable)
    /\ cstate \notin {"BUILD", "CLOSED"} => csent = <<>> /\ ssent = <<>> /\ cgot = <<>>
    /\ sstate \in {"none", "auth", "http"} => csent = <<>> /\ ssent = <<>> /\ sgot = <<>>
    /\ sstate = "auth" /\ cstate # "browser" =>
          Fits(login) /\ sheld \o c2s = LoginMessage(login)
    /\ IsPrefix(sgot, csent) /\ IsPrefix(cgot, ssent)
    /\ sstate = "serving" => Follows(sgot, csent, sheld, c2s)
    /\ cstate = "BUILD" => Follows(cgot, ssent, cheld, s2c)

LEMMA SentWritable ==
    /\ Sendable \subseteq Writable
    /\ \A ps \in Seq(Sendable) : ps \in Seq(Writable) /\ ps \in Seq(Packets)
    /\ <<>> \in Seq(Sendable) /\ <<>> \in Seq(Packets) /\ IsPrefix(<<>>, <<>>)
<1>1. Sendable \subseteq Writable
  BY HandshakeAssumption DEF Writable
<1>2. \A ps \in Seq(Sendable) : ps \in Seq(Writable) /\ ps \in Seq(Packets)
  BY <1>1, SeqMonotonic, WritableIsPacket
<1>3. IsPrefix(<<>>, <<>>)
  BY DEF IsPrefix
<1>. QED
  BY <1>1, <1>2, <1>3

LEMMA PacketsStart == Init => PacketsInv
BY SentWritable, EmptySeq DEF Init, PacketsInv, TypeOK

\* The client, up to its login.
LEMMA ClientStartsPackets ==
    ASSUME Inv, PacketsInv, ConnectToServer \/ Connected \/ LoginWritten \/ BrowserAsks
    PROVE  PacketsInv'
<1>1. CASE ConnectToServer
  BY <1>1 DEF ConnectToServer, PacketsInv, TypeOK, serverVars
<1>2. CASE Connected
  <2>1. CASE cstate' = "AUTH"
    <3>1. /\ Fits(login) /\ c2s' = LoginMessage(login) /\ sstate = "none"
          /\ UNCHANGED <<login, cheld, cgot, csent, sstate, sheld, sgot, ssent, s2c>>
          /\ cstate = "CONNECTING"
      BY <1>2, <2>1, HandshakeAssumption
         DEF Connected, CloseClient, Inv, ClientInv, Fits, serverVars
    <3>2. c2s' \in Seq(Byte)
      BY <3>1, LoginLayout DEF Bytes
    <3>. QED
      BY <2>1, <3>1, <3>2 DEF PacketsInv, TypeOK
  <2>2. CASE cstate' = "CLOSED"
    <3>1. /\ sstate = "none" /\ cstate = "CONNECTING" /\ cheld' = <<>>
          /\ UNCHANGED <<login, cgot, csent, sstate, sheld, sgot, ssent, s2c, c2s>>
      BY <1>2, <2>2 DEF Connected, CloseClient, Inv, ClientInv, serverVars
    <3>2. cheld' \in Seq(Byte)
      BY <3>1
    <3>. QED
      BY <2>2, <3>1, <3>2 DEF PacketsInv, TypeOK
  <2>. QED
    BY <1>2, <2>1, <2>2 DEF Connected, CloseClient
<1>3. CASE LoginWritten
  BY <1>3 DEF LoginWritten, PacketsInv, TypeOK, serverVars
<1>4. CASE BrowserAsks
  <2>1. Request \in Seq(Byte) /\ sstate = "none"
    BY <1>4, HandshakeAssumption DEF BrowserAsks, Inv, ClientInv
  <2>. QED
    BY <1>4, <2>1 DEF BrowserAsks, PacketsInv, TypeOK, serverVars
<1>. QED
  BY <1>1, <1>2, <1>3, <1>4

\* The ends of the connection, and the packets that are written.
LEMMA OtherPackets ==
    ASSUME Inv, PacketsInv,
           \/ ClientFails \/ OnConnection \/ ServerFails
           \/ \E p \in Sendable : ClientSends(p) \/ ServerSends(p)
    PROVE  PacketsInv'
<1>1. CASE ClientFails
  <2>1. /\ cstate' = "CLOSED" /\ cheld' \in Seq(Byte)
        /\ UNCHANGED <<login, cgot, csent, sstate, sheld, sgot, ssent, s2c, c2s>>
        /\ cstate # "browser"
    BY <1>1 DEF ClientFails, CloseClient, serverVars
  <2>. QED
    BY <2>1 DEF PacketsInv, TypeOK
<1>2. CASE OnConnection
  <2>1. /\ sstate = "none" /\ sstate' = "auth" /\ cstate \in {"AUTH", "WAIT_AUTH_REPLY", "browser"}
        /\ UNCHANGED <<login, cstate, cheld, cgot, csent, sheld, sgot, ssent, s2c, c2s>>
    BY <1>2 DEF OnConnection, clientVars
  <2>2. cstate # "browser" => Fits(login) /\ sheld \o c2s = LoginMessage(login)
    BY <2>1 DEF Inv, ClientInv, Asked, LoginUnderWay, Accepted, Rejected
  <2>. QED
    BY <2>1, <2>2 DEF PacketsInv, TypeOK
<1>3. CASE ServerFails
  <2>1. /\ sstate' = "closed" /\ sheld' \in Seq(Byte)
        /\ UNCHANGED <<login, cstate, cheld, cgot, csent, sgot, ssent, s2c, c2s>>
    BY <1>3 DEF ServerFails, CloseServer, clientVars
  <2>. QED
    BY <2>1 DEF PacketsInv, TypeOK
<1>4. ASSUME NEW sent \in Seq(Sendable), NEW p \in Sendable, NEW got \in Seq(Packets),
             IsPrefix(got, sent), NEW flight \in Seq(Byte)
      PROVE  /\ Append(sent, p) \in Seq(Sendable) /\ Append(sent, p) \in Seq(Packets)
             /\ IsPrefix(got, Append(sent, p)) /\ flight \o Encode(p) \in Seq(Byte)
  <2>1. Append(sent, p) \in Seq(Sendable) /\ Append(sent, p) \in Seq(Packets)
    BY SentWritable, AppendProperties
  <2>2. flight \o Encode(p) \in Seq(Byte)
    BY SentWritable, EncodeLayout, ConcatProperties DEF Bytes
  <2>3. IsPrefix(got, Append(sent, p))
    <3>1. Len(got) \in Nat /\ Len(sent) \in Nat /\ Len(Append(sent, p)) = Len(sent) + 1
      BY LenProperties, AppendProperties
    <3>2. got = SubSeq(sent, 1, Len(got)) /\ Len(got) <= Len(sent)
      BY <1>4, SentWritable, FollowsPrefix
    <3>3. \A i \in 1 .. Len(sent) : sent[i] = Append(sent, p)[i] /\ sent[i] \in Sendable
      BY AppendProperties, ElementOfSeq
    <3>4. SubSeq(Append(sent, p), 1, Len(got)) = SubSeq(sent, 1, Len(got))
      <4>1. CASE Len(got) = 0
        BY <4>1, SubSeqEmpty
      <4>2. CASE Len(got) # 0
        <5>1. 1 \in 1 .. Len(sent) /\ Len(got) \in 1 .. Len(sent) /\ <<p>> \in Seq(Sendable)
          BY <3>1, <3>2, <4>2
        <5>. QED
          BY <5>1, SubSeqOfConcat1, AppendIsConcat
      <4>. QED
        BY <4>1, <4>2
    <3>5. Len(got) <= Len(Append(sent, p))
      BY <3>1, <3>2
    <3>6. got = SubSeq(Append(sent, p), 1, Len(got))
      BY <3>2, <3>4
    <3>7. PICK longer \in Seq(Packets) : longer = Append(sent, p)
      BY <2>1
    <3>8. IsPrefix(got, longer)
      BY <3>5, <3>6, <3>7, FollowsPrefix
    <3>. QED
      BY <3>7, <3>8
  <2>. QED
    BY <2>1, <2>2, <2>3
<1>5. ASSUME NEW p \in Sendable, ClientSends(p) PROVE PacketsInv'
  <2>1. /\ cstate = "BUILD" /\ csent' = Append(csent, p) /\ c2s' = c2s \o Encode(p)
        /\ UNCHANGED <<login, cstate, cheld, cgot, sstate, sheld, sgot, ssent, s2c>>
        /\ sstate \in {"serving", "closed"}
    BY <1>5 DEF ClientSends, serverVars, Inv, ClientInv
  <2>2. /\ csent' \in Seq(Sendable) /\ csent' \in Seq(Packets) /\ IsPrefix(sgot, csent')
        /\ c2s' \in Seq(Byte)
    BY <1>4, <2>1 DEF PacketsInv, TypeOK
  <2>3. sstate = "serving" => Follows(sgot, csent', sheld, c2s')
    BY <2>1, SentWritable, SendFollows DEF PacketsInv, TypeOK, Bytes
  <2>. QED
    BY <2>1, <2>2, <2>3 DEF PacketsInv, TypeOK
<1>6. ASSUME NEW p \in Sendable, ServerSends(p) PROVE PacketsInv'
  <2>1. /\ sstate = "serving" /\ sgot # <<>> /\ ssent' = Append(ssent, p) /\ s2c' = s2c \o Encode(p)
        /\ UNCHANGED <<login, cstate, cheld, cgot, csent, sstate, sheld, sgot, c2s>>
    BY <1>6 DEF ServerSends, clientVars
  <2>2. cstate \in {"BUILD", "CLOSED"}
    <3>1. csent # <<>>
      BY <2>1, EmptySeq DEF PacketsInv, TypeOK, IsPrefix
    <3>. QED
      BY <3>1 DEF PacketsInv
  <2>3. /\ ssent' \in Seq(Sendable) /\ ssent' \in Seq(Packets) /\ IsPrefix(cgot, ssent')
        /\ s2c' \in Seq(Byte)
    BY <1>4, <2>1 DEF PacketsInv, TypeOK
  <2>4. cstate = "BUILD" => Follows(cgot, ssent', cheld, s2c')
    BY <2>1, SentWritable, SendFollows DEF PacketsInv, TypeOK, Bytes
  <2>. QED
    BY <2>1, <2>2, <2>3, <2>4 DEF PacketsInv, TypeOK
<1>. QED
  BY <1>1, <1>2, <1>3, <1>5, <1>6

\* Dispatching the first n bytes in flight.
LEMMA DispatchRead ==
    ASSUME NEW sent \in Seq(Sendable), NEW got \in Seq(Packets),
           NEW held \in Bytes, NEW wire \in Bytes, NEW n \in 1 .. Len(wire),
           Follows(got, sent, held, wire),
           NEW d, d = DecodeAll(held \o SubSeq(wire, 1, n)),
           NEW later, later = got \o d.packets
    PROVE  /\ d.noerror /\ d.remain \in Bytes /\ From(wire, n) \in Bytes
           /\ later \in Seq(Packets) /\ IsPrefix(later, sent)
           /\ Follows(later, sent, d.remain, From(wire, n))
<1>1. /\ d.noerror /\ d.remain \in Bytes /\ later \in Seq(Packets)
      /\ Follows(later, sent, d.remain, From(wire, n))
  BY SentWritable, DispatchFollows
<1>2. From(wire, n) \in Bytes
  BY ReadKeeps
<1>3. IsPrefix(later, sent)
  BY <1>1, SentWritable, FollowsPrefix DEF Follows
<1>. QED
  BY <1>1, <1>2, <1>3

LEMMA ClientReadsPackets == Inv /\ PacketsInv /\ ClientReads => PacketsInv'
<1>. SUFFICES ASSUME Inv, PacketsInv, NEW n \in 1 .. Len(s2c), ClientRead(n) PROVE PacketsInv'
  BY DEF ClientReads
<1>1. PICK buf, rest : buf = cheld \o SubSeq(s2c, 1, n) /\ rest = From(s2c, n)
  OBVIOUS
<1>2. buf \in Bytes /\ rest \in Bytes /\ buf \o rest = cheld \o s2c /\ Len(buf) = Len(cheld) + n
  BY <1>1, ReadKeeps DEF PacketsInv, TypeOK, Bytes
<1>3. /\ s2c' = rest /\ s2c' \in Seq(Byte)
      /\ UNCHANGED <<sstate, sheld, sgot, ssent, c2s>> /\ UNCHANGED <<login, csent>>
      /\ cstate \in {"AUTH", "WAIT_AUTH_REPLY", "BUILD"}
  BY <1>1, <1>2
     DEF ClientRead, Authenticate, ClientDispatch, CloseClient, serverVars, Bytes
<1>4. CASE cstate' = "CLOSED" /\ cheld' = <<>> /\ cgot' = cgot
  BY <1>3, <1>4, EmptySeq DEF PacketsInv, TypeOK
<1>5. CASE cstate = "WAIT_AUTH_REPLY" /\ cstate' = cstate /\ cheld' = buf /\ cgot' = cgot
  BY <1>2, <1>3, <1>5 DEF PacketsInv, TypeOK, Bytes
<1>6. CASE /\ cstate = "WAIT_AUTH_REPLY" /\ IsPrefix(Accept, buf)
           /\ cstate' = "BUILD" /\ cheld' = From(buf, 2) /\ cgot' = cgot
  <2>1. csent = <<>> /\ ssent = <<>> /\ cgot = <<>>
    BY <1>6 DEF PacketsInv
  <2>2. Len(cheld) \in Nat /\ Len(s2c) \in Nat /\ Len(buf) \in Nat /\ Len(buf) >= 2
    <3>1. Len(cheld) \in Nat /\ Len(s2c) \in Nat
      BY LenProperties DEF PacketsInv, TypeOK
    <3>2. Len(buf) >= 2
      BY <1>6, Answers DEF IsPrefix
    <3>. QED
      BY <1>2, <3>1, <3>2
  <2>3. PICK whole \in Nat : whole = Len(buf \o rest) /\ whole = Len(buf) + Len(rest)
    BY <1>2, Joined, ZenonT(30)
  <2>4. Len(rest) \in Nat /\ (Len(rest) = 0 => rest = <<>>)
    BY <1>2, Joined
  <2>5. whole = 0 \/ whole = 2
    <3>1. s2c # <<>>
      BY <2>2, EmptySeq
    <3>2. Accepted \/ Rejected
      BY <1>6, <3>1 DEF Inv, ClientInv, Asked, LoginUnderWay
    <3>3. Len(Accept) = 2 /\ Len(Refuse) = 2
      BY Answers
    <3>4. Len(<<>>) = 0
      OBVIOUS
    <3>5. PICK answer : answer = buf \o rest
      OBVIOUS
    <3>6. answer \in {<<>>, Accept, Refuse}
      BY <1>2, <3>2, <3>5, Zenon DEF Accepted, Rejected
    <3>7. Len(answer) = 0 \/ Len(answer) = 2
      BY <3>3, <3>4, <3>6, Zenon
    <3>8. whole = Len(answer)
      BY <2>3, <3>5
    <3>. QED
      BY <3>7, <3>8
  <2>6. Len(buf) = 2 /\ rest = <<>>
    <3>1. whole = Len(buf) + Len(rest)
      BY <2>3, Zenon
    <3>2. PICK have \in Nat, left \in Nat : have = Len(buf) /\ left = Len(rest) /\ have >= 2
      BY <2>2, <2>4
    <3>3. whole = have + left
      BY <3>1, <3>2, Zenon
    <3>4. have = 2 /\ left = 0
      BY <2>5, <3>2, <3>3
    <3>. QED
      BY <2>4, <3>2, <3>4
  <2>7. cheld' = <<>>
    BY <1>6, <2>6, SubSeqEmpty DEF From
  <2>8. Follows(cgot', ssent', cheld', s2c')
    BY <1>3, <1>6, <2>1, <2>6, <2>7, FollowsStart
  <2>9. cheld' \in Seq(Byte)
    BY <2>7
  <2>. QED
    BY <1>3, <1>6, <2>8, <2>9 DEF PacketsInv, TypeOK
<1>7. CASE cstate = "BUILD" /\ ClientDispatch(buf)
  <2>1. PICK d : d = DecodeAll(buf)
    OBVIOUS
  <2>2. PICK later : later = cgot \o d.packets
    OBVIOUS
  <2>3. /\ d.noerror /\ d.remain \in Bytes /\ later \in Seq(Packets) /\ IsPrefix(later, ssent)
        /\ Follows(later, ssent, d.remain, rest)
    BY <1>1, <1>7, <2>1, <2>2, DispatchRead, ZenonT(30) DEF PacketsInv, TypeOK, Bytes
  <2>4. cstate' = "BUILD" /\ cheld' = d.remain /\ cgot' = later
    BY <1>7, <2>1, <2>2, <2>3 DEF ClientDispatch
  <2>. QED
    BY <1>3, <1>7, <2>3, <2>4 DEF PacketsInv, TypeOK, Bytes
<1>. QED
  BY <1>1, <1>4, <1>5, <1>6, <1>7 DEF ClientRead, Authenticate, CloseClient

LEMMA ServerReadsPackets == Inv /\ PacketsInv /\ ServerReads => PacketsInv'
<1>. SUFFICES ASSUME Inv, PacketsInv, NEW n \in 1 .. Len(c2s), ServerRead(n) PROVE PacketsInv'
  BY DEF ServerReads
<1>1. PICK buf, rest : buf = sheld \o SubSeq(c2s, 1, n) /\ rest = From(c2s, n)
  OBVIOUS
<1>2. buf \in Bytes /\ rest \in Bytes /\ buf \o rest = sheld \o c2s
  BY <1>1, ReadKeeps DEF PacketsInv, TypeOK, Bytes
<1>3. /\ c2s' = rest /\ c2s' \in Seq(Byte)
      /\ UNCHANGED <<login, cstate, cheld, cgot, csent>> /\ UNCHANGED ssent
      /\ sstate \in {"auth", "serving"}
  BY <1>1, <1>2
     DEF ServerRead, HandToHttp, WaitForMore, CheckUser, ServerDispatch, CloseServer,
         clientVars, Bytes
<1>4. sstate = "auth" => csent = <<>> /\ ssent = <<>> /\ sgot = <<>> /\ cstate # "BUILD"
  BY DEF PacketsInv, Inv, ClientInv
<1>5. CASE sstate = "auth" /\ HandToHttp(buf)
  BY <1>2, <1>3, <1>4, <1>5 DEF HandToHttp, PacketsInv, TypeOK, Bytes
<1>6. CASE sstate = "auth" /\ WaitForMore(buf)
  BY <1>2, <1>3, <1>4, <1>6 DEF WaitForMore, PacketsInv, TypeOK, Bytes
<1>7. CASE sstate = "auth" /\ CheckUser(buf) /\ sstate' = "serving"
  <2>1. cstate # "browser"
    BY <1>2, <1>7, MethodComesFirst DEF CheckUser, Inv, BrowserInv
  <2>2. Fits(login) /\ buf \o rest = LoginMessage(login) /\ WholeLogin(buf)
    BY <1>2, <1>7, <2>1 DEF PacketsInv, CheckUser
  <2>3. rest = <<>> /\ From(buf, LoginSize(buf)) = <<>>
    BY <1>2, <2>2, LoginReadBack
  <2>4. sheld' = <<>> /\ s2c' = s2c \o Accept /\ sgot' = sgot
    BY <1>7, <2>3 DEF CheckUser, CloseServer
  <2>5. s2c' \in Seq(Byte) /\ sheld' \in Seq(Byte)
    BY <2>4, Answers, ConcatProperties DEF PacketsInv, TypeOK, Bytes
  <2>6. Follows(sgot', csent', sheld', c2s')
    BY <1>3, <1>4, <1>7, <2>3, <2>4, FollowsStart
  <2>. QED
    BY <1>3, <1>4, <1>7, <2>4, <2>5, <2>6 DEF PacketsInv, TypeOK
<1>8. CASE sstate = "auth" /\ CheckUser(buf) /\ sstate' # "serving"
  <2>1. sstate' = "closed" /\ sheld' = <<>> /\ sgot' = sgot /\ s2c' \in {s2c, s2c \o Refuse}
    BY <1>8 DEF CheckUser, CloseServer
  <2>2. s2c \in Seq(Byte) /\ Refuse \in Seq(Byte) /\ <<>> \in Seq(Byte)
    BY Answers DEF PacketsInv, TypeOK, Bytes
  <2>3. s2c \o Refuse \in Seq(Byte)
    BY <2>2, ConcatProperties
  <2>4. s2c' \in Seq(Byte) /\ sheld' \in Seq(Byte)
    BY <2>1, <2>2, <2>3
  <2>. QED
    BY <1>3, <1>4, <1>8, <2>1, <2>4 DEF PacketsInv, TypeOK
<1>9. CASE sstate = "serving" /\ ServerDispatch(buf)
  <2>1. PICK d : d = DecodeAll(buf)
    OBVIOUS
  <2>2. PICK later : later = sgot \o d.packets
    OBVIOUS
  <2>3. /\ d.noerror /\ d.remain \in Bytes /\ later \in Seq(Packets) /\ IsPrefix(later, csent)
        /\ Follows(later, csent, d.remain, rest)
    BY <1>1, <1>9, <2>1, <2>2, DispatchRead, ZenonT(30) DEF PacketsInv, TypeOK, Bytes
  <2>4. sstate' = "serving" /\ sheld' = d.remain /\ sgot' = later /\ s2c' = s2c
    BY <1>9, <2>1, <2>2, <2>3 DEF ServerDispatch
  <2>. QED
    BY <1>3, <1>9, <2>3, <2>4 DEF PacketsInv, TypeOK, Bytes
<1>. QED
  BY <1>1, <1>5, <1>6, <1>7, <1>8, <1>9 DEF ServerRead

LEMMA StepPackets == Inv /\ PacketsInv /\ [Next]_vars => PacketsInv'
<1>1. CASE UNCHANGED vars
  BY <1>1 DEF vars, clientVars, serverVars, PacketsInv, TypeOK
<1>. QED
  BY <1>1, ClientStartsPackets, ClientReadsPackets, ServerReadsPackets, OtherPackets DEF Next

-----------------------------------------------------------------------------
\* Every state of the two ends is one of the states the program has names for, and what is
\* held and in flight are bytes.
THEOREM TunnelTypes == Spec => []TypeOK
<1>1. PacketsInv => TypeOK
  BY DEF PacketsInv
<1>. QED
  BY <1>1, InitInv, StepInv, PacketsStart, StepPackets, PTL DEF Spec

\* However the bytes are cut into reads, each end dispatches the packets that the other wrote,
\* in order, and finds no bad header: decode_all_packet undoes encode_packet for every body, and
\* neither the two m_remain nor the end of the handshake loses or repeats a byte.
THEOREM PacketsInOrderHolds == Spec => []PacketsInOrder
<1>1. PacketsInv => PacketsInOrder
  <2>. SUFFICES ASSUME PacketsInv PROVE PacketsInOrder
    OBVIOUS
  <2>1. cstate = "BUILD" => DecodeAll(cheld \o s2c).noerror
    BY SentWritable, FollowsNoError DEF PacketsInv, TypeOK, Bytes
  <2>2. sstate = "serving" => DecodeAll(sheld \o c2s).noerror
    BY SentWritable, FollowsNoError DEF PacketsInv, TypeOK, Bytes
  <2>. QED
    BY <2>1, <2>2 DEF PacketsInv, PacketsInOrder, Follows
<1>. QED
  BY <1>1, InitInv, StepInv, PacketsStart, StepPackets, PTL DEF Spec

\* No end keeps a whole packet for a read that may never come: nothing is written to it before
\* the handshake is over, and a dispatch leaves none.
THEOREM NothingHeldBackHolds == Spec => []NothingHeldBack
<1>1. PacketsInv => NothingHeldBack
  BY DEF PacketsInv, NothingHeldBack, Follows
<1>. QED
  BY <1>1, InitInv, StepInv, PacketsStart, StepPackets, PTL DEF Spec
=============================================================================
