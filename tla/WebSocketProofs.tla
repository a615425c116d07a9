--------------------------- MODULE WebSocketProofs ---------------------------
(***************************************************************************)
(* The connection of WebSocket keeps both of its streams, for every value  *)
(* of the constants: what goes out is what was queued, what the caller is  *)
(* handed is what the peer sent.                                           *)
(***************************************************************************)
EXTENDS WebSocket, SequenceTheorems, WellFoundedInduction, TLAPS

-----------------------------------------------------------------------------
(* Sequences *)

(* A sequence is what stands before any of its places and what follows. *)
LEMMA SplitAt ==
    ASSUME NEW S, NEW s \in Seq(S), NEW k \in 0 .. Len(s)
    PROVE  /\ SubSeq(s, 1, k) \in Seq(S) /\ Len(SubSeq(s, 1, k)) = k
           /\ SubSeq(s, k + 1, Len(s)) \in Seq(S)
           /\ Len(SubSeq(s, k + 1, Len(s))) = Len(s) - k
           /\ s = SubSeq(s, 1, k) \o SubSeq(s, k + 1, Len(s))
  <1>1. \A i \in 1 .. Len(s) : s[i] \in S
    BY ElementOfSeq
  <1>2. /\ SubSeq(s, 1, k) \in Seq(S) /\ Len(SubSeq(s, 1, k)) = k
    BY <1>1, SubSeqProperties, LenProperties
  <1>3. /\ SubSeq(s, k + 1, Len(s)) \in Seq(S)
        /\ Len(SubSeq(s, k + 1, Len(s))) = Len(s) - k
    <2>1. Len(s) \in Nat
      BY LenProperties
    <2>2. \A i \in k + 1 .. Len(s) : s[i] \in S
      BY <1>1, <2>1
    <2> QED BY <2>1, <2>2, SubSeqProperties
  <1>4. SubSeq(s, 1, k) \o SubSeq(s, k + 1, Len(s)) = SubSeq(s, 1, Len(s))
    <2>1. Len(s) \in Nat
      BY LenProperties
    <2>2. 1 \in 1 .. Len(s) + 1 /\ k \in 1 - 1 .. Len(s) /\ Len(s) \in k .. Len(s)
      BY <2>1
    <2> QED BY <2>2, ConcatAdjacentSubSeq
  <1> QED BY <1>2, <1>3, <1>4, SubSeqFull

(* What is cut off where the first part of a concatenation ends. *)
LEMMA CutOff ==
    ASSUME NEW S, NEW s \in Seq(S), NEW t \in Seq(S)
    PROVE  /\ SubSeq(s \o t, 1, Len(s)) = s
           /\ SubSeq(s \o t, Len(s) + 1, Len(s \o t)) = t
  <1> DEFINE st == s \o t
             a == SubSeq(st, 1, Len(s))
             b == SubSeq(st, Len(s) + 1, Len(st))
  <1>1. /\ st \in Seq(S) /\ Len(st) = Len(s) + Len(t)
        /\ Len(s) \in Nat /\ Len(t) \in Nat
        /\ \A i \in 1 .. Len(s) + Len(t) :
              st[i] = IF i <= Len(s) THEN s[i] ELSE t[i - Len(s)]
    BY ConcatProperties, LenProperties
  <1>2. /\ a \in Seq(S) /\ Len(a) = Len(s) /\ st = a \o b /\ b \in Seq(S)
    <2>1. Len(s) \in 0 .. Len(st)
      BY <1>1
    <2> HIDE DEF st
    <2> QED BY <1>1, <2>1, SplitAt
  <1>3. \A i \in 1 .. Len(s) : a[i] = s[i]
    <2> SUFFICES ASSUME NEW i \in 1 .. Len(s) PROVE a[i] = s[i]
      OBVIOUS
    <2>1. st[i] = s[i]
      BY <1>1
    <2>2. (a \o b)[i] = a[i]
      <3> HIDE DEF a, b
      <3> QED BY <1>1, <1>2, ConcatProperties, LenProperties
    <2> QED BY <1>2, <2>1, <2>2
  <1>4. a = s
    <2> HIDE DEF a
    <2> QED BY <1>2, <1>3, SeqEqual
  <1>5. s \o t = s \o b
    BY <1>2, <1>4
  <1>6. t = b
    <2> HIDE DEF b
    <2> QED BY <1>2, <1>5, ConcatSimplifications
  <1> QED BY <1>4, <1>6

(* A prefix is what something can follow. *)
LEMMA PrefixIsStart ==
    ASSUME NEW S, NEW s \in Seq(S), NEW t \in Seq(S)
    PROVE  StartsWith(t, s) <=> \E u \in Seq(S) : t = s \o u
  <1>1. ASSUME StartsWith(t, s) PROVE \E u \in Seq(S) : t = s \o u
    <2>1. /\ Len(s) \in 0 .. Len(t) /\ s = SubSeq(t, 1, Len(s))
      BY <1>1, SubSeqFull, LenProperties DEF StartsWith
    <2>2. /\ t = SubSeq(t, 1, Len(s)) \o SubSeq(t, Len(s) + 1, Len(t))
          /\ SubSeq(t, Len(s) + 1, Len(t)) \in Seq(S)
      BY <2>1, SplitAt
    <2>3. t = s \o SubSeq(t, Len(s) + 1, Len(t))
      BY <2>1, <2>2
    <2> QED BY <2>2, <2>3
  <1>2. ASSUME NEW u \in Seq(S), t = s \o u PROVE StartsWith(t, s)
    <2>1. Len(s) <= Len(t)
      BY <1>2, ConcatProperties, LenProperties
    <2> QED BY <1>2, <2>1, CutOff, SubSeqFull DEF StartsWith
  <1> QED BY <1>1, <1>2

(* Concatenation is associative, as one quantified fact. *)
LEMMA Assoc ==
    \A S : \A a, b, c \in Seq(S) : (a \o b) \o c = a \o (b \o c)
  BY ConcatAssociative

(* Every set of naturals that is not empty has a least element: what       *)
(* stands for induction in the lemmas below.                               *)
LEMMA LeastNat ==
    ASSUME NEW T, T \subseteq Nat, T # {}
    PROVE  \E m \in T : \A k \in T : m <= k
  <1> DEFINE R == {p \in Nat \X Nat : p[1] < p[2]}
  <1>1. IsWellFoundedOn(R, Nat)
    BY NatLessThanWellFounded DEF OpToRel
  <1>2. PICK m \in T : \A k \in T : ~(<<k, m>> \in R)
    <2> HIDE DEF R
    <2> QED BY <1>1, WFMin
  <1>3. ASSUME NEW k \in T PROVE m <= k
    <2>1. ~(k < m)
      BY <1>2
    <2> QED BY <2>1
  <1> QED BY <1>3

-----------------------------------------------------------------------------
(* Output *)

(* what the wire carries: units of frames *)
Atom == Nat \X Nat

(* Concatenation of what the wire carries is associative. *)
LEMMA AssocAtoms == \A a, b, c \in Seq(Atom) : (a \o b) \o c = a \o (b \o c)
  BY Assoc

(* WireInOrder and RetrySame are not inductive by themselves: a write is   *)
(* cut from the front of the queue only because the record that waits to   *)
(* be repeated stands there, and the response is never mixed with frames   *)
(* only because there are none before it is out.                           *)
OutputInv ==
    /\ handshake \in 0 .. HANDSHAKE
    /\ done => handshake = HANDSHAKE
    /\ decoding => done
    /\ wire \in Seq(Atom) /\ tx \in Seq(Atom)
    /\ record \in Seq(Atom) /\ queued \in Seq(Atom)
    /\ ~done => tx = <<>> /\ queued = <<>>
    /\ ~tls => record = <<>>
    /\ StartsWith(tx, record)
    /\ pending = record
    /\ WireInOrder

(* what flush() must not do to a queue q: lose, repeat or move a unit, or  *)
(* keep a record that is not at the front of what is left                  *)
FlushGood(q, r) ==
    /\ r.wrote \in Seq(Atom) /\ r.left \in Seq(Atom) /\ r.record \in Seq(Atom)
    /\ q = r.wrote \o r.left
    /\ r.pending = r.record
    /\ StartsWith(r.left, r.record)
    /\ ~tls => r.record = <<>>

(* The record that flush() offers next is at the front of the queue. *)
LEMMA NextRecordInFront ==
    ASSUME NEW q \in Seq(Atom), NEW rec \in Seq(Atom), StartsWith(q, rec)
    PROVE  /\ NextRecord(q, rec) \in Seq(Atom)
           /\ Len(NextRecord(q, rec)) \in 0 .. Len(q)
           /\ NextRecord(q, rec) = SubSeq(q, 1, Len(NextRecord(q, rec)))
  <1>1. CASE rec # <<>>
    <2>1. NextRecord(q, rec) = rec
      BY <1>1 DEF NextRecord
    <2>2. Len(rec) \in 0 .. Len(q) /\ rec = SubSeq(q, 1, Len(rec))
      BY LenProperties, SubSeqFull DEF StartsWith
    <2> QED BY <2>1, <2>2
  <1>2. CASE rec = <<>>
    <2> DEFINE n == Least(RECORD, Len(q))
    <2>1. NextRecord(q, rec) = SubSeq(q, 1, n)
      BY <1>2 DEF NextRecord
    <2>2. n \in 0 .. Len(q)
      BY LenProperties, WebSocketAssumption DEF Least
    <2> HIDE DEF n
    <2>3. SubSeq(q, 1, n) \in Seq(Atom) /\ Len(SubSeq(q, 1, n)) = n
      BY <2>2, SplitAt
    <2> QED BY <2>1, <2>2, <2>3
  <1> QED BY <1>1, <1>2

(* The start of what follows place k is a prefix of it. *)
LEMMA StartOfRest ==
    ASSUME NEW S, NEW q \in Seq(S), NEW k \in 0 .. Len(q), NEW n \in k .. Len(q)
    PROVE  /\ SubSeq(q, k + 1, n) \in Seq(S)
           /\ StartsWith(SubSeq(q, k + 1, Len(q)), SubSeq(q, k + 1, n))
  <1>1. Len(q) \in Nat /\ \A i \in 1 .. Len(q) : q[i] \in S
    BY LenProperties, ElementOfSeq
  <1>2. SubSeq(q, k + 1, n) \in Seq(S)
    <2>1. \A i \in k + 1 .. n : q[i] \in S
      BY <1>1
    <2> QED BY <1>1, <2>1, SubSeqProperties
  <1>3. n \in 0 .. Len(q)
    BY <1>1
  <1>4. SubSeq(q, n + 1, Len(q)) \in Seq(S) /\ SubSeq(q, k + 1, Len(q)) \in Seq(S)
    BY <1>3, SplitAt
  <1>5. SubSeq(q, k + 1, n) \o SubSeq(q, n + 1, Len(q)) = SubSeq(q, k + 1, Len(q))
    <2>1. /\ k + 1 \in 1 .. Len(q) + 1 /\ n \in (k + 1) - 1 .. Len(q)
          /\ Len(q) \in n .. Len(q)
      BY <1>1
    <2> QED BY <2>1, ConcatAdjacentSubSeq
  <1> QED BY <1>2, <1>4, <1>5, PrefixIsStart

(* Plain: whatever send() takes is the front of the queue. *)
LEMMA PlainFlushGood ==
    ASSUME NEW q \in Seq(Atom), NEW r \in PlainFlush(q)
    PROVE  FlushGood(q, r)
  <1>1. PICK k \in 0 .. Len(q) :
          r = [wrote |-> SubSeq(q, 1, k), left |-> SubSeq(q, k + 1, Len(q)),
               record |-> <<>>, pending |-> <<>>]
    BY DEF PlainFlush
  <1>2. /\ r.wrote = SubSeq(q, 1, k) /\ r.left = SubSeq(q, k + 1, Len(q))
        /\ r.record = <<>> /\ r.pending = <<>>
    BY <1>1
  <1>3. /\ r.wrote \in Seq(Atom) /\ r.left \in Seq(Atom) /\ q = r.wrote \o r.left
    <2>1. /\ SubSeq(q, 1, k) \in Seq(Atom) /\ SubSeq(q, k + 1, Len(q)) \in Seq(Atom)
          /\ q = SubSeq(q, 1, k) \o SubSeq(q, k + 1, Len(q))
      BY SplitAt
    <2> QED BY <1>2, <2>1
  <1>4. r.record \in Seq(Atom) /\ StartsWith(r.left, r.record)
    <2>1. <<>> \in Seq(Atom) /\ r.left = <<>> \o r.left
      BY <1>3, EmptySeq, ConcatEmptySeq
    <2> QED BY <1>2, <1>3, <2>1, PrefixIsStart
  <1> QED BY <1>2, <1>3, <1>4 DEF FlushGood

(* TLS: what SSL_write took is whole records from the front, and the one   *)
(* it did not take is at the front of what is left.                        *)
LEMMA TlsFlushGood ==
    ASSUME tls, NEW q \in Seq(Atom), NEW rec \in Seq(Atom), StartsWith(q, rec),
           NEW r \in TlsFlush(q, rec)
    PROVE  FlushGood(q, r)
  <1> DEFINE one == NextRecord(q, rec)
             Stops(k) == SubSeq(q, k + 1, Least(k + RECORD, Len(q)))
  <1>1. /\ one \in Seq(Atom) /\ Len(one) \in 0 .. Len(q)
        /\ one = SubSeq(q, 1, Len(one))
    BY NextRecordInFront
  <1>2. \/ r = [wrote |-> <<>>, left |-> q, record |-> one, pending |-> one]
        \/ \E k \in Len(one) .. Len(q) :
              r = [wrote |-> one \o SubSeq(q, Len(one) + 1, k),
                   left |-> SubSeq(q, k + 1, Len(q)),
                   record |-> Stops(k), pending |-> Stops(k)]
    BY DEF TlsFlush
  <1> HIDE DEF one, Stops
  <1>3. CASE r = [wrote |-> <<>>, left |-> q, record |-> one, pending |-> one]
    <2>1. r.wrote = <<>> /\ r.left = q /\ r.record = one /\ r.pending = one
      BY <1>3
    <2>2. <<>> \in Seq(Atom) /\ q = <<>> \o q
      BY EmptySeq, ConcatEmptySeq
    <2>3. StartsWith(q, one)
      <3>1. SubSeq(one, 1, Len(one)) = one
        BY <1>1, SubSeqFull
      <3> QED BY <1>1, <3>1 DEF StartsWith
    <2> QED BY <1>1, <2>1, <2>2, <2>3 DEF FlushGood
  <1>4. ASSUME NEW k \in Len(one) .. Len(q),
               r = [wrote |-> one \o SubSeq(q, Len(one) + 1, k),
                    left |-> SubSeq(q, k + 1, Len(q)),
                    record |-> Stops(k), pending |-> Stops(k)]
        PROVE  FlushGood(q, r)
    <2>1. /\ r.wrote = one \o SubSeq(q, Len(one) + 1, k)
          /\ r.left = SubSeq(q, k + 1, Len(q))
          /\ r.record = Stops(k) /\ r.pending = Stops(k)
      BY <1>4
    <2>2. Len(q) \in Nat /\ k \in 0 .. Len(q)
      BY <1>1, LenProperties
    <2>3. r.wrote = SubSeq(q, 1, k)
      <3>1. /\ 1 \in 1 .. Len(q) + 1 /\ Len(one) \in 1 - 1 .. Len(q)
            /\ k \in Len(one) .. Len(q)
        BY <1>1, <2>2
      <3>2. SubSeq(q, 1, Len(one)) \o SubSeq(q, Len(one) + 1, k) = SubSeq(q, 1, k)
        BY <3>1, ConcatAdjacentSubSeq
      <3> QED BY <1>1, <2>1, <3>2
    <2>4. /\ r.wrote \in Seq(Atom) /\ r.left \in Seq(Atom) /\ q = r.wrote \o r.left
      <3>1. /\ SubSeq(q, 1, k) \in Seq(Atom) /\ SubSeq(q, k + 1, Len(q)) \in Seq(Atom)
            /\ q = SubSeq(q, 1, k) \o SubSeq(q, k + 1, Len(q))
        BY <2>2, SplitAt
      <3> QED BY <2>1, <2>3, <3>1
    <2>5. r.record \in Seq(Atom) /\ StartsWith(r.left, r.record)
      <3>1. Least(k + RECORD, Len(q)) \in k .. Len(q)
        BY <2>2, WebSocketAssumption DEF Least
      <3> QED BY <2>1, <2>2, <3>1, StartOfRest DEF Stops
    <2> QED BY <2>1, <2>4, <2>5 DEF FlushGood
  <1> QED BY <1>2, <1>3, <1>4

(* flush() of the queue with a frame put behind it.  OpenSSL never sees a  *)
(* write that does not repeat the one it left pending.                     *)
LEMMA FlushesGood ==
    ASSUME OutputInv, NEW f \in Seq(Atom), NEW r \in Flushes(tx \o f)
    PROVE  tx \o f \in Seq(Atom) /\ ~BadRetry(tx \o f) /\ FlushGood(tx \o f, r)
  <1> DEFINE q == tx \o f
  <1>1. tx \in Seq(Atom) /\ record \in Seq(Atom) /\ q \in Seq(Atom)
    BY ConcatProperties DEF OutputInv
  <1>2. StartsWith(q, record)
    <2>1. PICK u \in Seq(Atom) : tx = record \o u
      BY <1>1, PrefixIsStart DEF OutputInv
    <2>2. q = record \o (u \o f) /\ u \o f \in Seq(Atom)
      BY <1>1, <2>1, ConcatAssociative, ConcatProperties
    <2> QED BY <1>1, <2>2, PrefixIsStart
  <1>3. ~BadRetry(q)
    BY DEF OutputInv, BadRetry, NextRecord
  <1>4. r \in IF tls THEN TlsFlush(q, record) ELSE PlainFlush(q)
    BY <1>3 DEF Flushes
  <1> HIDE DEF q
  <1>5. FlushGood(q, r)
    BY <1>1, <1>2, <1>4, TlsFlushGood, PlainFlushGood
  <1> QED BY <1>1, <1>3, <1>5 DEF q

(* A function on 1 .. n is a sequence of length n. *)
LEMMA FunctionIsSeq ==
    ASSUME NEW S, NEW n \in Nat, NEW f \in [1 .. n -> S]
    PROVE  f \in Seq(S) /\ Len(f) = n
  <1>1. f \in Seq(S)
    BY SeqDef
  <1>2. DOMAIN f = 1 .. n /\ DOMAIN f = 1 .. Len(f) /\ Len(f) \in Nat
    BY <1>1, LenProperties
  <1> QED BY <1>1, <1>2

(* The response is put together from what each write sends of it. *)
LEMMA ResponsePart ==
    ASSUME NEW a \in 0 .. HANDSHAKE, NEW b \in a .. HANDSHAKE
    PROVE  LET part == [i \in 1 .. b - a |-> <<0, a + i>>]
           IN  /\ part \in Seq(Atom)
               /\ SubSeq(Response, 1, a) \in Seq(Atom)
               /\ SubSeq(Response, 1, a) \o part = SubSeq(Response, 1, b)
  <1> DEFINE part == [i \in 1 .. b - a |-> <<0, a + i>>]
             cut == SubSeq(Response, a + 1, b)
  <1> USE WebSocketAssumption
  <1>1. Response \in Seq(Atom) /\ Len(Response) = HANDSHAKE
    <2>1. Response \in [1 .. HANDSHAKE -> Atom]
      BY DEF Response, Atom
    <2> QED BY <2>1, FunctionIsSeq
  <1>2. part \in Seq(Atom) /\ Len(part) = b - a
    <2>1. part \in [1 .. b - a -> Atom] /\ b - a \in Nat
      BY DEF Atom
    <2> HIDE DEF part
    <2> QED BY <2>1, FunctionIsSeq
  <1>3. /\ cut \in Seq(Atom) /\ Len(cut) = b - a
        /\ \A i \in 1 .. b - a : cut[i] = Response[a + i]
    <2>1. \A i \in a + 1 .. b : Response[i] \in Atom
      BY <1>1, ElementOfSeq
    <2>2. /\ SubSeq(Response, a + 1, b) \in Seq(Atom)
          /\ Len(SubSeq(Response, a + 1, b)) =
               IF a + 1 <= b THEN b - (a + 1) + 1 ELSE 0
          /\ \A i \in 1 .. b - (a + 1) + 1 :
                SubSeq(Response, a + 1, b)[i] = Response[a + 1 + i - 1]
      BY <2>1, SubSeqProperties
    <2>3. (IF a + 1 <= b THEN b - (a + 1) + 1 ELSE 0) = b - a /\ b - (a + 1) + 1 = b - a
      BY <1>1
    <2>4. \A i \in 1 .. b - a : a + 1 + i - 1 = a + i
      BY <1>1
    <2> QED BY <2>2, <2>3, <2>4
  <1>4. \A i \in 1 .. b - a : cut[i] = part[i]
    <2> SUFFICES ASSUME NEW i \in 1 .. b - a PROVE cut[i] = part[i]
      OBVIOUS
    <2>1. Response[a + i] = <<0, a + i>>
      <3>1. a + i \in 1 .. HANDSHAKE
        BY WebSocketAssumption
      <3> QED BY <3>1 DEF Response
    <2>2. part[i] = <<0, a + i>>
      OBVIOUS
    <2> HIDE DEF cut, part
    <2> QED BY <1>3, <2>1, <2>2
  <1>5. cut = part
    <2> HIDE DEF cut, part
    <2> QED BY <1>2, <1>3, <1>4, SeqEqual
  <1>6. SubSeq(Response, 1, a) \o cut = SubSeq(Response, 1, b)
    <2>1. /\ 1 \in 1 .. Len(Response) + 1 /\ a \in 1 - 1 .. Len(Response)
          /\ b \in a .. Len(Response)
      BY <1>1
    <2> QED BY <1>1, <2>1, ConcatAdjacentSubSeq
  <1>7. SubSeq(Response, 1, a) \in Seq(Atom)
    BY <1>1, SplitAt
  <1> QED BY <1>2, <1>5, <1>6, <1>7

(* The frames of this end are units, numbered from 1. *)
LEMMA OutFrameIsSeq ==
    ASSUME queued \in Seq(Atom)
    PROVE  OutFrame(NextId) \in Seq(Atom)
  <1>1. NextId \in Nat
    BY LenProperties DEF NextId
  <1> QED BY <1>1 DEF OutFrame, Atom

(* A frame is queued and the queue flushed. *)
LEMMA QueueStep ==
    ASSUME OutputInv, done, NEW f \in Seq(Atom), queued' = queued \o f,
           NEW r \in Flushes(tx \o f), Flushed(r),
           UNCHANGED <<tls, handshake, done>>
    PROVE  OutputInv'
  <1> DEFINE R == SubSeq(Response, 1, handshake)
  <1>1. /\ wire \in Seq(Atom) /\ tx \in Seq(Atom) /\ queued \in Seq(Atom)
        /\ handshake \in 0 .. HANDSHAKE /\ handshake = HANDSHAKE
        /\ wire \o tx = R \o queued
    BY DEF OutputInv, WireInOrder
  <1>2. FlushGood(tx \o f, r)
    BY FlushesGood
  <1>3. /\ r.wrote \in Seq(Atom) /\ r.left \in Seq(Atom) /\ r.record \in Seq(Atom)
        /\ tx \o f = r.wrote \o r.left /\ r.pending = r.record
        /\ StartsWith(r.left, r.record) /\ (~tls => r.record = <<>>)
    BY <1>2 DEF FlushGood
  <1>4. /\ tx' = r.left /\ record' = r.record /\ wire' = wire \o r.wrote
        /\ pending' = r.pending
    BY DEF Flushed
  <1>5. R \in Seq(Atom)
    BY <1>1, ResponsePart, WebSocketAssumption
  <1>6. wire' \in Seq(Atom) /\ queued' \in Seq(Atom)
    BY <1>1, <1>3, <1>4, ConcatProperties
  <1>7. wire' \o tx' = R \o queued'
    <2> HIDE DEF R
    <2>1. wire' \o tx' = wire \o (tx \o f)
      <3>1. wire \in Seq(Atom) /\ r.wrote \in Seq(Atom) /\ r.left \in Seq(Atom)
        BY <1>1, <1>3
      <3>2. (wire \o r.wrote) \o r.left = wire \o (r.wrote \o r.left)
        BY ONLY <3>1, AssocAtoms
      <3> QED BY <1>3, <1>4, <3>2
    <2>2. wire \o (tx \o f) = (R \o queued) \o f
      <3>1. wire \in Seq(Atom) /\ tx \in Seq(Atom) /\ f \in Seq(Atom)
        BY <1>1
      <3>2. (wire \o tx) \o f = wire \o (tx \o f)
        BY ONLY <3>1, AssocAtoms
      <3> QED BY <1>1, <3>2
    <2>3. (R \o queued) \o f = R \o (queued \o f)
      <3>1. R \in Seq(Atom) /\ queued \in Seq(Atom) /\ f \in Seq(Atom)
        BY <1>1, <1>5
      <3> QED BY ONLY <3>1, AssocAtoms
    <2> QED BY <2>1, <2>2, <2>3
  <1>8. WireInOrder'
    BY <1>7 DEF WireInOrder, Response
  <1>9. tls' = tls /\ handshake' = handshake /\ done' = done
    OBVIOUS
  <1> QED BY <1>1, <1>3, <1>4, <1>6, <1>8, <1>9 DEF OutputInv

(* The response goes out before there is any frame. *)
LEMMA HandshakeStep ==
    ASSUME OutputInv, NEW u, CheckHeaders(u),
           decoding' => done', UNCHANGED <<tls, tx, record, pending, queued>>
    PROVE  OutputInv'
  <1>1. CASE UNCHANGED <<handshake, done, wire>>
    BY <1>1 DEF OutputInv, WireInOrder, Response
  <1>2. ASSUME ~done, NEW h \in handshake .. HANDSHAKE, handshake' = h,
               wire' = wire \o [i \in 1 .. h - handshake |-> <<0, handshake + i>>],
               done' = (h = HANDSHAKE)
        PROVE  OutputInv'
    <2> DEFINE part == [i \in 1 .. h - handshake |-> <<0, handshake + i>>]
               R(n) == SubSeq(Response, 1, n)
    <2>1. /\ wire \in Seq(Atom) /\ tx = <<>> /\ queued = <<>>
          /\ handshake \in 0 .. HANDSHAKE
          /\ wire \o tx = R(handshake) \o queued
      BY <1>2 DEF OutputInv, WireInOrder
    <2>2. /\ part \in Seq(Atom) /\ R(handshake) \in Seq(Atom)
          /\ R(handshake) \o part = R(h)
      BY <2>1, ResponsePart
    <2> HIDE DEF part, R
    <2>3. wire = R(handshake)
      <3>1. wire \o <<>> = wire /\ R(handshake) \o <<>> = R(handshake)
        BY <2>1, <2>2, ConcatEmptySeq
      <3> QED BY <2>1, <3>1
    <2>4. wire' = R(h) /\ wire' \in Seq(Atom)
      <3>1. wire' = wire \o part
        BY <1>2 DEF part
      <3>2. R(handshake) \o part \in Seq(Atom)
        BY <2>2, ConcatProperties
      <3> QED BY <2>2, <2>3, <3>1, <3>2
    <2>5. wire' \o tx' = R(handshake') \o queued'
      BY <1>2, <2>1, <2>4
    <2>6. WireInOrder'
      BY <2>5 DEF WireInOrder, R, Response
    <2>7. handshake' \in 0 .. HANDSHAKE /\ (done' => handshake' = HANDSHAKE)
      <3>1. handshake \in 0 .. HANDSHAKE
        BY <2>1
      <3>2. h \in 0 .. HANDSHAKE
        BY <3>1, WebSocketAssumption
      <3>3. done' => h = HANDSHAKE
        BY <1>2
      <3> QED BY <1>2, <3>2, <3>3
    <2> QED BY <2>1, <2>4, <2>6, <2>7 DEF OutputInv
  <1> QED BY <1>1, <1>2 DEF CheckHeaders

-----------------------------------------------------------------------------
(* Nothing is queued or out at the start. *)
LEMMA OutputInit == Init => OutputInv
  <1> SUFFICES ASSUME Init PROVE OutputInv
    OBVIOUS
  <1>1. /\ handshake = 0 /\ done = FALSE /\ decoding = FALSE /\ tx = <<>>
        /\ record = <<>> /\ pending = <<>> /\ wire = <<>> /\ queued = <<>>
    BY DEF Init
  <1>2. <<>> \in Seq(Atom)
    BY EmptySeq
  <1>3. StartsWith(tx, record)
    BY <1>1 DEF StartsWith
  <1>4. WireInOrder
    <2>1. SubSeq(Response, 1, 0) = <<>>
      BY SubSeqEmpty
    <2> QED BY <1>1, <2>1 DEF WireInOrder
  <1> QED BY <1>1, <1>2, <1>3, <1>4, WebSocketAssumption DEF OutputInv

(* Every action keeps what is said of the output. *)
LEMMA OutputNext == OutputInv /\ [Next]_vars => OutputInv'
  <1> SUFFICES ASSUME OutputInv, [Next]_vars PROVE OutputInv'
    OBVIOUS
  <1>1. ASSUME UNCHANGED <<tls, handshake, done, outVars>>, decoding' => done'
        PROVE  OutputInv'
    BY <1>1 DEF OutputInv, WireInOrder, Response, outVars
  <1>2. ASSUME done, UNCHANGED <<tls, handshake, done>>, QueueAndFlush(NextId)
        PROVE  OutputInv'
    <2>1. OutFrame(NextId) \in Seq(Atom)
      BY OutFrameIsSeq DEF OutputInv
    <2>2. PICK r \in Flushes(tx \o OutFrame(NextId)) : Flushed(r)
      BY <1>2 DEF QueueAndFlush, flush
    <2> QED BY <1>2, <2>1, <2>2, QueueStep DEF QueueAndFlush
  <1>3. decoding => done
    BY DEF OutputInv
  <1>4. CASE Send
    BY <1>1, <1>2, <1>3, <1>4 DEF Send, MaySend, inVars
  <1>5. CASE RecvBegin
    <2>1. UNCHANGED <<tls, tx, record, pending, queued>>
      BY <1>5 DEF RecvBegin
    <2>2. CASE UNCHANGED <<handshake, done, wire, decoding>>
      BY <1>1, <1>3, <2>1, <2>2 DEF outVars
    <2>3. ASSUME NEW u, CheckHeaders(u), decoding' = (up' /\ done')
          PROVE  OutputInv'
      BY <2>1, <2>3, HandshakeStep
    <2> QED BY <1>5, <2>2, <2>3 DEF RecvBegin
  <1>6. CASE RecvFails
    BY <1>1, <1>3, <1>6 DEF RecvFails, inVars
  <1>7. CASE RecvRest
    BY <1>1, <1>3, <1>7 DEF RecvRest
  <1>8. CASE RecvEnd
    BY <1>1, <1>8 DEF RecvEnd
  <1>9. CASE DecodeData
    BY <1>1, <1>3, <1>9 DEF DecodeData
  <1>10. CASE DecodePing
    BY <1>2, <1>3, <1>10 DEF DecodePing
  <1>11. CASE DecodeEnds
    <2>1. UNCHANGED <<tls, handshake, done>> /\ decoding /\ ~decoding'
      BY <1>11 DEF DecodeEnds
    <2>2. CASE UNCHANGED outVars
      BY <1>1, <2>1, <2>2
    <2>3. ASSUME queued' = queued \o OutFrame(NextId),
                 NEW r \in Flushes(tx \o OutFrame(NextId)), Flushed(r)
          PROVE  OutputInv'
      <3>1. OutFrame(NextId) \in Seq(Atom)
        BY OutFrameIsSeq DEF OutputInv
      <3> QED BY <1>3, <2>1, <2>3, <3>1, QueueStep
    <2> QED BY <1>11, <2>2, <2>3 DEF DecodeEnds
  <1>12. CASE PeerNext
    BY <1>1, <1>3, <1>12 DEF PeerNext, inVars
  <1>13. CASE UNCHANGED vars
    BY <1>1, <1>3, <1>13 DEF vars, inVars
  <1> QED BY <1>4, <1>5, <1>6, <1>7, <1>8, <1>9, <1>10, <1>11, <1>12, <1>13 DEF Next

(* The output invariant holds in every state of the connection. *)
LEMMA OutputAlways == Spec => []OutputInv
  BY OutputInit, OutputNext, PTL DEF Spec

(* What goes out is the 101 response and then every frame queued, whole,   *)
(* once and in the order of the calls: queue_frame, flush and              *)
(* send_handshake for every length of the response, of a TLS record and of *)
(* the queue.                                                              *)
THEOREM WireAlwaysInOrder == Spec => []WireInOrder
  <1>1. OutputInv => WireInOrder
    BY DEF OutputInv
  <1> QED BY <1>1, OutputAlways, PTL

(* A TLS write that OpenSSL could not finish is repeated with the same     *)
(* units (tls_tx in flush), however the queue behind it grows.             *)
THEOREM RetryAlwaysSame == Spec => []RetrySame
  <1>1. OutputInv => RetrySame
    BY DEF OutputInv, RetrySame
  <1> QED BY <1>1, OutputAlways, PTL

-----------------------------------------------------------------------------
(* Input *)

(* what the peer sends: frames, each as its two units *)
InFrame ==
    [op : {"request", "bin", "cont", "ping", "close", "bad"}, fin : BOOLEAN,
     payload : Seq(Nat)]
InUnit == [frame : InFrame, last : BOOLEAN]
Pair(f) == <<Opening(f), Closing(f)>>

WholeFrames(units) ==
    /\ units \in Seq(InUnit)
    /\ \E n \in Nat :
          /\ Len(units) = 2 * n
          /\ \A j \in 1 .. n : \E f \in InFrame :
                units[2 * j - 1] = Opening(f) /\ units[2 * j] = Closing(f)

(* the payload bytes up to the nth of the peer *)
Counted(n) == [i \in 1 .. n |-> i]

(* BytesInOrder is not inductive by itself: rx must begin where a frame    *)
(* begins, and with the request as long as the response is not out.  The   *)
(* equation holds of a connection that is down, too: recv() goes on        *)
(* decoding what it has read when the answer to a ping could not be sent.  *)
InputInv ==
    /\ rx \in Seq(InUnit) /\ sock \in Seq(InUnit)
    /\ msg \in Seq(Nat) /\ delivered \in Seq(Nat)
    /\ peer \in [bytes : Nat, pings : Nat, open : BOOLEAN, eof : BOOLEAN]
    /\ WholeFrames(rx \o sock)
    /\ ~done => Len(rx \o sock) >= 2 /\ (rx \o sock)[1].frame = Request
    /\ (delivered \o msg) \o DataIn(rx \o sock) = Counted(peer.bytes)

(* A unit adds payload bytes. *)
LEMMA PieceIsSeq ==
    ASSUME NEW u \in InUnit
    PROVE  Piece(u) \in Seq(Nat)
  <1>1. <<>> \in Seq(Nat)
    BY EmptySeq
  <1>2. u.frame.payload \in Seq(Nat)
    BY DEF InUnit, InFrame
  <1> QED BY <1>1, <1>2 DEF Piece

(* g[i] is what the first i units add, for i up to n *)
Collects(units, n, g) ==
    /\ g \in [0 .. n -> Seq(Nat)]
    /\ \A i \in 0 .. n : g[i] = IF i = 0 THEN <<>> ELSE g[i - 1] \o Piece(units[i])

(* The recursion of DataIn has a solution. *)
LEMMA CollectsExists ==
    ASSUME NEW units \in Seq(InUnit), NEW n \in 0 .. Len(units)
    PROVE  \E g : Collects(units, n, g)
  <1> DEFINE T == {k \in 0 .. Len(units) : ~ \E g : Collects(units, k, g)}
  <1>1. Len(units) \in Nat
    BY LenProperties
  <1> SUFFICES ASSUME T # {} PROVE FALSE
    OBVIOUS
  <1>2. PICK m \in T : \A k \in T : m <= k
    <2>1. T \subseteq Nat
      BY <1>1
    <2> HIDE DEF T
    <2> QED BY <2>1, LeastNat
  <1>3. m \in 0 .. Len(units) /\ ~ \E g : Collects(units, m, g)
    OBVIOUS
  <1>4. m # 0
    <2>1. <<>> \in Seq(Nat)
      BY EmptySeq
    <2>2. Collects(units, 0, [i \in 0 .. 0 |-> <<>>])
      BY <2>1 DEF Collects
    <2> QED BY <1>3, <2>2
  <1>5. m - 1 \in 0 .. Len(units) /\ m - 1 \notin T
    <2> HIDE DEF T
    <2> QED BY <1>1, <1>2, <1>3, <1>4
  <1>6. PICK g : Collects(units, m - 1, g)
    BY <1>5
  <1> HIDE DEF T
  <1> DEFINE e == g[m - 1] \o Piece(units[m])
             h == [i \in 0 .. m |-> IF i = m THEN e ELSE g[i]]
  <1>7. m \in Nat /\ m - 1 \in 0 .. m - 1 /\ m \in 1 .. Len(units)
    BY <1>1, <1>3, <1>4
  <1>8. e \in Seq(Nat)
    <2>1. g[m - 1] \in Seq(Nat)
      BY <1>6, <1>7 DEF Collects
    <2>2. units[m] \in InUnit
      BY <1>7, ElementOfSeq
    <2>3. Piece(units[m]) \in Seq(Nat)
      BY <2>2, PieceIsSeq
    <2>4. g[m - 1] \o Piece(units[m]) \in Seq(Nat)
      BY ONLY <2>1, <2>3, ConcatProperties
    <2> QED BY <2>4
  <1> HIDE DEF e
  <1>9. h[m] = e /\ \A i \in 0 .. m - 1 : h[i] = g[i]
    <2>1. m \in 0 .. m /\ \A i \in 0 .. m - 1 : i \in 0 .. m /\ i # m
      BY <1>7
    <2> QED BY <2>1
  <1>10. h \in [0 .. m -> Seq(Nat)]
    BY <1>6, <1>7, <1>8 DEF Collects
  <1> HIDE DEF h
  <1>11. ASSUME NEW i \in 0 .. m
         PROVE  h[i] = IF i = 0 THEN <<>> ELSE h[i - 1] \o Piece(units[i])
    <2>1. CASE i = m
      <3>1. h[i - 1] = g[m - 1]
        BY <1>7, <1>9, <2>1
      <3> QED BY <1>4, <1>9, <2>1, <3>1 DEF e
    <2>2. CASE i # m
      <3>1. i \in 0 .. m - 1 /\ (i # 0 => i - 1 \in 0 .. m - 1)
        BY <1>7, <2>2
      <3>2. g[i] = IF i = 0 THEN <<>> ELSE g[i - 1] \o Piece(units[i])
        BY <1>6, <3>1 DEF Collects
      <3> QED BY <1>9, <3>1, <3>2
    <2> QED BY <2>1, <2>2
  <1>12. Collects(units, m, h)
    BY <1>10, <1>11 DEF Collects
  <1> QED BY <1>3, <1>12

(* It has but one, and DataIn is what it has for the last unit. *)
LEMMA DataInIs ==
    ASSUME NEW units \in Seq(InUnit), NEW g, Collects(units, Len(units), g)
    PROVE  DataIn(units) = g[Len(units)]
  <1> DEFINE n == Len(units)
             Solves(f) ==
               f = [i \in 0 .. n |->
                      IF i = 0 THEN <<>> ELSE f[i - 1] \o Piece(units[i])]
             f == CHOOSE x : Solves(x)
  <1>1. n \in Nat
    BY LenProperties
  <1>2. DataIn(units) = f[n]
    BY DEF DataIn
  <1> HIDE DEF n
  <1>3. Solves(g)
    BY DEF Collects, n
  <1>4. Solves(f)
    <2> HIDE DEF Solves
    <2> QED BY <1>3
  <1>5. \A i \in 0 .. n : f[i] = IF i = 0 THEN <<>> ELSE f[i - 1] \o Piece(units[i])
    <2> HIDE DEF f
    <2> QED BY <1>4
  <1>6. \A i \in 0 .. n : g[i] = IF i = 0 THEN <<>> ELSE g[i - 1] \o Piece(units[i])
    BY DEF Collects, n
  <1> HIDE DEF Solves, f
  <1> DEFINE T == {i \in 0 .. n : f[i] # g[i]}
  <1>7. T = {}
    <2> SUFFICES ASSUME T # {} PROVE FALSE
      OBVIOUS
    <2>1. PICK m \in T : \A k \in T : m <= k
      <3>1. T \subseteq Nat
        BY <1>1
      <3> HIDE DEF T
      <3> QED BY <3>1, LeastNat
    <2>2. m \in 0 .. n /\ f[m] # g[m]
      OBVIOUS
    <2>3. m # 0
      BY <1>5, <1>6, <2>2
    <2>4. m - 1 \in 0 .. n /\ m - 1 \notin T
      <3> HIDE DEF T
      <3> QED BY <1>1, <2>1, <2>2, <2>3
    <2>5. f[m - 1] = g[m - 1]
      BY <2>4
    <2> QED BY <1>5, <1>6, <2>2, <2>3, <2>5
  <1>8. n \in 0 .. n
    BY <1>1
  <1>9. f[n] = g[n]
    BY <1>7, <1>8
  <1> QED BY <1>2, <1>9 DEF n

(* A unit more is its piece more. *)
LEMMA DataInAppend ==
    ASSUME NEW units \in Seq(InUnit), NEW u \in InUnit
    PROVE  DataIn(Append(units, u)) = DataIn(units) \o Piece(u)
  <1> DEFINE t == Append(units, u)
             n == Len(units)
  <1>1. /\ t \in Seq(InUnit) /\ Len(t) = n + 1 /\ n \in Nat
        /\ \A i \in 1 .. n : t[i] = units[i]
        /\ t[n + 1] = u
    BY AppendProperties, LenProperties
  <1> HIDE DEF t
  <1>2. PICK g : Collects(t, n + 1, g)
    <2>1. n + 1 \in 0 .. Len(t)
      BY <1>1
    <2> QED BY <1>1, <2>1, CollectsExists
  <1>3. DataIn(t) = g[n + 1]
    BY <1>1, <1>2, DataInIs
  <1> DEFINE h == [i \in 0 .. n |-> g[i]]
  <1>4. Collects(units, n, h)
    <2>1. h \in [0 .. n -> Seq(Nat)]
      BY <1>1, <1>2 DEF Collects
    <2>2. ASSUME NEW i \in 0 .. n
          PROVE  h[i] = IF i = 0 THEN <<>> ELSE h[i - 1] \o Piece(units[i])
      <3>1. i \in 0 .. n + 1 /\ (i # 0 => i - 1 \in 0 .. n /\ i \in 1 .. n)
        BY <1>1
      <3>2. g[i] = IF i = 0 THEN <<>> ELSE g[i - 1] \o Piece(t[i])
        BY <1>2, <3>1 DEF Collects
      <3>3. h[i] = g[i] /\ (i # 0 => h[i - 1] = g[i - 1] /\ t[i] = units[i])
        BY <1>1, <3>1
      <3> HIDE DEF h
      <3> QED BY <3>2, <3>3
    <2> HIDE DEF h
    <2> QED BY <2>1, <2>2 DEF Collects
  <1>5. n \in 0 .. n /\ n + 1 \in 0 .. n + 1 /\ n + 1 # 0 /\ (n + 1) - 1 = n
    BY <1>1
  <1>6. h[n] = g[n]
    BY <1>5
  <1> HIDE DEF h
  <1>7. DataIn(units) = h[n]
    BY <1>4, DataInIs
  <1>8. g[n + 1] = g[n] \o Piece(u)
    BY <1>1, <1>2, <1>5 DEF Collects
  <1> QED BY <1>3, <1>6, <1>7, <1>8 DEF t

(* What units add is a sequence of payload bytes; no units add none. *)
LEMMA DataInIsSeq ==
    /\ DataIn(<<>>) = <<>>
    /\ \A units \in Seq(InUnit) : DataIn(units) \in Seq(Nat)
  <1>1. ASSUME NEW units \in Seq(InUnit)
        PROVE  /\ DataIn(units) \in Seq(Nat)
               /\ Len(units) = 0 => DataIn(units) = <<>>
    <2> DEFINE n == Len(units)
    <2>1. n \in Nat /\ n \in 0 .. n
      BY LenProperties
    <2>2. PICK g : Collects(units, n, g)
      BY <2>1, CollectsExists
    <2>3. DataIn(units) = g[n]
      BY <2>2, DataInIs
    <2> HIDE DEF n
    <2>4. g[n] \in Seq(Nat) /\ (n = 0 => g[n] = <<>>)
      BY <2>1, <2>2 DEF Collects
    <2> QED BY <2>3, <2>4 DEF n
  <1>2. <<>> \in Seq(InUnit) /\ Len(<<>>) = 0
    BY EmptySeq
  <1> QED BY <1>1, <1>2

(* Concatenation of bytes and of units is associative. *)
LEMMA AssocBytes == \A a, b, c \in Seq(Nat) : (a \o b) \o c = a \o (b \o c)
  BY Assoc
(* The same for the units of the peer's frames. *)
LEMMA AssocUnits == \A a, b, c \in Seq(InUnit) : (a \o b) \o c = a \o (b \o c)
  BY Assoc

(* One more unit behind two batches of units. *)
LEMMA DataInConcatAppend ==
    ASSUME NEW s \in Seq(InUnit), NEW v \in Seq(InUnit), NEW e \in InUnit,
           DataIn(s \o v) = DataIn(s) \o DataIn(v)
    PROVE  DataIn(s \o Append(v, e)) = DataIn(s) \o DataIn(Append(v, e))
  <1>1. s \o Append(v, e) = Append(s \o v, e) /\ s \o v \in Seq(InUnit)
    <2>1. /\ Append(v, e) = v \o <<e>> /\ s \o v \in Seq(InUnit)
          /\ <<e>> \in Seq(InUnit)
      BY AppendIsConcat, ConcatProperties
    <2>2. Append(s \o v, e) = (s \o v) \o <<e>>
      BY <2>1, AppendIsConcat
    <2>3. (s \o v) \o <<e>> = s \o (v \o <<e>>)
      BY <2>1, AssocUnits
    <2> QED BY <2>1, <2>2, <2>3
  <1>2. DataIn(s \o Append(v, e)) = DataIn(s \o v) \o Piece(e)
    BY <1>1, DataInAppend
  <1>3. /\ DataIn(Append(v, e)) = DataIn(v) \o Piece(e)
        /\ DataIn(v) \in Seq(Nat) /\ DataIn(s) \in Seq(Nat)
        /\ Piece(e) \in Seq(Nat)
    BY DataInAppend, DataInIsSeq, PieceIsSeq
  <1>4. (DataIn(s) \o DataIn(v)) \o Piece(e) = DataIn(s) \o (DataIn(v) \o Piece(e))
    BY <1>3, AssocBytes
  <1> QED BY <1>2, <1>3, <1>4

(* The bytes in two batches of units are those in one and in the other. *)
LEMMA DataInConcat ==
    ASSUME NEW s \in Seq(InUnit), NEW t \in Seq(InUnit)
    PROVE  DataIn(s \o t) = DataIn(s) \o DataIn(t)
  <1> DEFINE Good(u) == DataIn(s \o u) = DataIn(s) \o DataIn(u)
             T == {n \in Nat : \E u \in Seq(InUnit) : Len(u) = n /\ ~Good(u)}
  <1>1. Good(<<>>)
    <2>1. DataIn(s) \in Seq(Nat) /\ DataIn(<<>>) = <<>>
      BY DataInIsSeq
    <2>2. s \o <<>> = s /\ DataIn(s) \o <<>> = DataIn(s)
      BY <2>1, ConcatEmptySeq
    <2> QED BY <2>1, <2>2
  <1>2. \A v \in Seq(InUnit), e \in InUnit : Good(v) => Good(Append(v, e))
    BY DataInConcatAppend
  <1> HIDE DEF Good
  <1>3. T = {}
    <2> SUFFICES ASSUME T # {} PROVE FALSE
      OBVIOUS
    <2>1. PICK m \in T : \A k \in T : m <= k
      <3>1. T \subseteq Nat
        OBVIOUS
      <3> HIDE DEF T
      <3> QED BY <3>1, LeastNat
    <2>2. PICK u \in Seq(InUnit) : Len(u) = m /\ ~Good(u)
      OBVIOUS
    <2>3. PICK v \in Seq(InUnit), e \in InUnit : u = Append(v, e)
      BY <1>1, <2>2, SequenceEmptyOrAppend
    <2>4. Len(v) \in Nat /\ m = Len(v) + 1
      BY <2>2, <2>3, AppendProperties, LenProperties
    <2>5. Len(v) \notin T
      <3> HIDE DEF T
      <3> QED BY <2>1, <2>4
    <2>6. Good(v)
      BY <2>4, <2>5
    <2> QED BY <1>2, <2>2, <2>3, <2>6
  <1>4. Good(t)
    BY <1>3, LenProperties
  <1> QED BY <1>4 DEF Good

(* The bytes in one frame: its payload, if it carries data. *)
LEMMA DataInPair ==
    ASSUME NEW f \in InFrame
    PROVE  /\ Pair(f) \in Seq(InUnit) /\ Len(Pair(f)) = 2
           /\ DataIn(Pair(f)) =
                IF f.op \in {"bin", "cont"} THEN f.payload ELSE <<>>
  <1> DEFINE p == IF f.op \in {"bin", "cont"} THEN f.payload ELSE <<>>
             a == Opening(f)
             b == Closing(f)
  <1>1. a \in InUnit /\ b \in InUnit
    BY DEF Opening, Closing, InUnit
  <1>2. Pair(f) \in Seq(InUnit) /\ Len(Pair(f)) = 2
    BY <1>1 DEF Pair
  <1>3. Piece(a) = <<>> /\ Piece(b) = p
    BY DEF Piece, Opening, Closing
  <1>4. p \in Seq(Nat) /\ <<>> \in Seq(Nat) /\ <<>> \in Seq(InUnit)
    BY EmptySeq DEF InFrame
  <1> HIDE DEF p, a, b
  <1>5. Pair(f) = Append(Append(<<>>, a), b) /\ Append(<<>>, a) \in Seq(InUnit)
    <2>1. <<a, b>> = [i \in 1 .. 2 |-> IF i = 1 THEN a ELSE b]
      BY ONLY TRUE
    <2>2. Append(Append(<<>>, a), b) = [i \in 1 .. 2 |-> IF i = 1 THEN a ELSE b]
      BY ONLY TRUE
    <2>3. Append(<<>>, a) \in Seq(InUnit)
      BY <1>1, <1>4, AppendProperties
    <2>4. Pair(f) = <<a, b>>
      BY DEF Pair, a, b
    <2> QED BY <2>1, <2>2, <2>3, <2>4
  <1>6. /\ DataIn(Append(<<>>, a)) = DataIn(<<>>) \o <<>>
        /\ DataIn(Pair(f)) = DataIn(Append(<<>>, a)) \o p
    <2>1. DataIn(Append(<<>>, a)) = DataIn(<<>>) \o Piece(a)
      BY <1>1, <1>4, DataInAppend
    <2>2. DataIn(Append(Append(<<>>, a), b)) = DataIn(Append(<<>>, a)) \o Piece(b)
      BY <1>1, <1>5, DataInAppend
    <2> QED BY <1>3, <1>5, <2>1, <2>2
  <1>7. (<<>> \o <<>>) \o p = p
    BY <1>4, ConcatEmptySeq
  <1>8. DataIn(Pair(f)) = p
    BY <1>6, <1>7, DataInIsSeq
  <1> QED BY <1>2, <1>8 DEF p

(* One more frame behind whole frames. *)
LEMMA FrameAdded ==
    ASSUME NEW u, WholeFrames(u), NEW f \in InFrame
    PROVE  /\ WholeFrames(u \o Pair(f)) /\ Len(u \o Pair(f)) = Len(u) + 2
           /\ Len(u) >= 2 => (u \o Pair(f))[1] = u[1]
  <1> DEFINE w == u \o Pair(f)
  <1>1. u \in Seq(InUnit) /\ Pair(f) \in Seq(InUnit) /\ Len(Pair(f)) = 2
    BY DataInPair DEF WholeFrames
  <1>2. PICK n \in Nat :
          /\ Len(u) = 2 * n
          /\ \A j \in 1 .. n : \E g \in InFrame :
                u[2 * j - 1] = Opening(g) /\ u[2 * j] = Closing(g)
    BY DEF WholeFrames
  <1>3. /\ w \in Seq(InUnit) /\ Len(w) = 2 * n + 2
        /\ \A i \in 1 .. 2 * n + 2 :
              w[i] = IF i <= 2 * n THEN u[i] ELSE Pair(f)[i - 2 * n]
    <2>1. /\ w \in Seq(InUnit) /\ Len(w) = Len(u) + Len(Pair(f))
          /\ \A i \in 1 .. Len(u) + Len(Pair(f)) :
                w[i] = IF i <= Len(u) THEN u[i] ELSE Pair(f)[i - Len(u)]
      BY <1>1, ConcatProperties
    <2>2. Len(u) = 2 * n
      BY <1>2
    <2> HIDE DEF w
    <2> QED BY <1>1, <2>1, <2>2
  <1> HIDE DEF w
  <1>4. ASSUME NEW j \in 1 .. n + 1
        PROVE  \E g \in InFrame : w[2 * j - 1] = Opening(g) /\ w[2 * j] = Closing(g)
    <2>1. CASE j = n + 1
      <3>1. w[2 * n + 1] = Pair(f)[1] /\ w[2 * n + 2] = Pair(f)[2]
        BY <1>3
      <3>2. 2 * j - 1 = 2 * n + 1 /\ 2 * j = 2 * n + 2
        BY <2>1
      <3> QED BY <3>1, <3>2 DEF Pair
    <2>2. CASE j # n + 1
      <3>1. j \in 1 .. n /\ 2 * j \in 1 .. 2 * n /\ 2 * j - 1 \in 1 .. 2 * n
        BY <2>2
      <3>2. w[2 * j] = u[2 * j] /\ w[2 * j - 1] = u[2 * j - 1]
        BY <1>3, <3>1
      <3> QED BY <1>2, <3>1, <3>2
    <2> QED BY <2>1, <2>2
  <1>5. WholeFrames(w)
    <2>1. n + 1 \in Nat /\ Len(w) = 2 * (n + 1)
      BY <1>3
    <2> QED BY <1>3, <1>4, <2>1 DEF WholeFrames
  <1> QED BY <1>2, <1>3, <1>5 DEF w

(* Whole frames begin with one, and what follows it is whole frames. *)
LEMMA FirstFrame ==
    ASSUME NEW u, WholeFrames(u), Len(u) >= 2
    PROVE  \E f \in InFrame :
             /\ u[1] = Opening(f) /\ u[2] = Closing(f)
             /\ u = Pair(f) \o SubSeq(u, 3, Len(u))
             /\ WholeFrames(SubSeq(u, 3, Len(u)))
  <1>1. u \in Seq(InUnit)
    BY DEF WholeFrames
  <1>2. PICK n \in Nat :
          /\ Len(u) = 2 * n
          /\ \A j \in 1 .. n : \E g \in InFrame :
                u[2 * j - 1] = Opening(g) /\ u[2 * j] = Closing(g)
    BY DEF WholeFrames
  <1>3. n >= 1 /\ 2 \in 0 .. Len(u) /\ 2 + 1 = 3
    BY <1>2
  <1>4. PICK f \in InFrame : u[1] = Opening(f) /\ u[2] = Closing(f)
    <2>1. 1 \in 1 .. n /\ 2 * 1 - 1 = 1 /\ 2 * 1 = 2
      BY <1>3
    <2> QED BY <1>2, <2>1
  <1> DEFINE a == SubSeq(u, 1, 2)
             w == SubSeq(u, 3, Len(u))
  <1>5. /\ a \in Seq(InUnit) /\ Len(a) = 2 /\ w \in Seq(InUnit)
        /\ Len(w) = 2 * n - 2 /\ u = a \o w
    BY <1>1, <1>2, <1>3, SplitAt
  <1>6. \A i \in 1 .. 2 * n : u[i] = IF i <= 2 THEN a[i] ELSE w[i - 2]
    <2> HIDE DEF a, w
    <2>1. \A i \in 1 .. Len(a) + Len(w) :
            (a \o w)[i] = IF i <= Len(a) THEN a[i] ELSE w[i - Len(a)]
      BY <1>5, ConcatProperties
    <2>2. Len(a) + Len(w) = 2 * n
      BY <1>5
    <2> QED BY <1>5, <2>1, <2>2
  <1> HIDE DEF a, w
  <1>7. a = Pair(f)
    <2>1. Pair(f) \in Seq(InUnit) /\ Len(Pair(f)) = 2
      BY DataInPair
    <2>2. 1 \in 1 .. 2 * n /\ 2 \in 1 .. 2 * n
      BY <1>3
    <2>3. a[1] = Opening(f) /\ a[2] = Closing(f)
      BY <1>4, <1>6, <2>2
    <2>4. \A i \in 1 .. 2 : a[i] = Pair(f)[i]
      BY <2>3 DEF Pair
    <2> QED BY <1>5, <2>1, <2>4, SeqEqual
  <1>8. ASSUME NEW j \in 1 .. n - 1
        PROVE  \E g \in InFrame : w[2 * j - 1] = Opening(g) /\ w[2 * j] = Closing(g)
    <2>1. /\ j + 1 \in 1 .. n /\ 2 * (j + 1) \in 1 .. 2 * n
          /\ 2 * (j + 1) - 1 \in 1 .. 2 * n
          /\ ~(2 * (j + 1) <= 2) /\ ~(2 * (j + 1) - 1 <= 2)
          /\ 2 * (j + 1) - 2 = 2 * j /\ 2 * (j + 1) - 1 - 2 = 2 * j - 1
      OBVIOUS
    <2>2. u[2 * (j + 1)] = w[2 * j] /\ u[2 * (j + 1) - 1] = w[2 * j - 1]
      BY <1>6, <2>1
    <2> QED BY <1>2, <2>1, <2>2
  <1>9. WholeFrames(w)
    <2>1. n - 1 \in Nat /\ Len(w) = 2 * (n - 1)
      BY <1>3, <1>5
    <2> QED BY <1>5, <1>8, <2>1 DEF WholeFrames
  <1> QED BY <1>4, <1>5, <1>7, <1>9 DEF w

(* The first two units of a concatenation are dropped from its first part. *)
LEMMA DropTwo ==
    ASSUME NEW a \in Seq(InUnit), Len(a) >= 2, NEW b \in Seq(InUnit)
    PROVE  /\ SubSeq(a, 3, Len(a)) \in Seq(InUnit)
           /\ SubSeq(a, 3, Len(a)) \o b = SubSeq(a \o b, 3, Len(a \o b))
           /\ (a \o b)[1] = a[1] /\ (a \o b)[2] = a[2] /\ Len(a \o b) >= 2
  <1> DEFINE h == SubSeq(a, 1, 2)
             t == SubSeq(a, 3, Len(a))
  <1>1. Len(a) \in Nat /\ Len(b) \in Nat /\ 2 \in 0 .. Len(a) /\ 2 + 1 = 3
    BY LenProperties
  <1>2. h \in Seq(InUnit) /\ Len(h) = 2 /\ t \in Seq(InUnit) /\ a = h \o t
    BY <1>1, SplitAt
  <1> HIDE DEF h, t
  <1>3. a \o b = h \o (t \o b) /\ t \o b \in Seq(InUnit)
    <2>1. t \o b \in Seq(InUnit)
      BY <1>2, ConcatProperties
    <2>2. h \in Seq(InUnit) /\ t \in Seq(InUnit) /\ b \in Seq(InUnit)
      BY <1>2
    <2>3. (h \o t) \o b = h \o (t \o b)
      BY ONLY <2>2, AssocUnits
    <2> QED BY <1>2, <2>1, <2>3
  <1>4. SubSeq(h \o (t \o b), 2 + 1, Len(h \o (t \o b))) = t \o b
    <2>1. h \in Seq(InUnit) /\ t \o b \in Seq(InUnit)
      BY <1>2, <1>3
    <2>2. SubSeq(h \o (t \o b), Len(h) + 1, Len(h \o (t \o b))) = t \o b
      BY <2>1, CutOff
    <2> QED BY <1>2, <2>2
  <1>5. /\ Len(a \o b) = Len(a) + Len(b)
        /\ \A i \in 1 .. Len(a) + Len(b) :
              (a \o b)[i] = IF i <= Len(a) THEN a[i] ELSE b[i - Len(a)]
    BY ConcatProperties
  <1>6. (a \o b)[1] = a[1] /\ (a \o b)[2] = a[2] /\ Len(a \o b) >= 2
    BY <1>1, <1>5
  <1> QED BY <1>1, <1>2, <1>3, <1>4, <1>6 DEF t

(* The peer numbers its bytes on. *)
LEMMA CountOn ==
    ASSUME NEW b \in Nat, NEW n \in Nat
    PROVE  /\ [i \in 1 .. n |-> b + i] \in Seq(Nat)
           /\ Counted(b) \o [i \in 1 .. n |-> b + i] = Counted(b + n)
  <1> DEFINE p == [i \in 1 .. n |-> b + i]
             l == Counted(b) \o p
             r == Counted(b + n)
  <1>1. p \in Seq(Nat) /\ Len(p) = n
    <2>1. p \in [1 .. n -> Nat]
      OBVIOUS
    <2> HIDE DEF p
    <2> QED BY <2>1, FunctionIsSeq
  <1>2. ASSUME NEW k \in Nat PROVE Counted(k) \in Seq(Nat) /\ Len(Counted(k)) = k
    <2>1. Counted(k) \in [1 .. k -> Nat]
      BY DEF Counted
    <2> QED BY <2>1, FunctionIsSeq
  <1>3. /\ Counted(b) \in Seq(Nat) /\ Len(Counted(b)) = b
        /\ r \in Seq(Nat) /\ Len(r) = b + n
    BY <1>2
  <1>4. /\ l \in Seq(Nat) /\ Len(l) = b + n
        /\ \A i \in 1 .. b + n : l[i] = IF i <= b THEN Counted(b)[i] ELSE p[i - b]
    <2>1. /\ l \in Seq(Nat) /\ Len(l) = Len(Counted(b)) + Len(p)
          /\ \A i \in 1 .. Len(Counted(b)) + Len(p) :
                l[i] = IF i <= Len(Counted(b)) THEN Counted(b)[i]
                       ELSE p[i - Len(Counted(b))]
      <3> HIDE DEF p
      <3> QED BY <1>1, <1>3, ConcatProperties
    <2> HIDE DEF l, p
    <2> QED BY <1>1, <1>3, <2>1
  <1>5. ASSUME NEW i \in 1 .. b + n PROVE l[i] = r[i]
    <2>1. r[i] = i
      BY DEF Counted
    <2>2. CASE i <= b
      <3>1. Counted(b)[i] = i
        BY <2>2 DEF Counted
      <3> HIDE DEF l, r, p
      <3> QED BY <1>4, <2>1, <2>2, <3>1
    <2>3. CASE ~(i <= b)
      <3>1. p[i - b] = i
        BY <2>3
      <3> HIDE DEF l, r, p
      <3> QED BY <1>4, <2>1, <2>3, <3>1
    <2> QED BY <2>2, <2>3
  <1> HIDE DEF l, r
  <1>6. l = r
    BY <1>3, <1>4, <1>5, SeqEqual
  <1> QED BY <1>1, <1>6 DEF l, r

(* At the start the request is on its way, and no byte. *)
LEMMA InputInit == Init => InputInv
  <1> SUFFICES ASSUME Init PROVE InputInv
    OBVIOUS
  <1>1. /\ rx = <<>> /\ msg = <<>> /\ delivered = <<>> /\ sock = Pair(Request)
        /\ peer = [bytes |-> 0, pings |-> 0, open |-> FALSE, eof |-> FALSE]
    BY DEF Init, Pair
  <1>2. Request \in InFrame
    BY EmptySeq DEF Request, InFrame
  <1>3. Pair(Request) \in Seq(InUnit) /\ DataIn(Pair(Request)) = <<>>
    BY <1>2, DataInPair DEF Request
  <1>4. <<>> \in Seq(InUnit) /\ <<>> \in Seq(Nat) /\ <<>> \o Pair(Request) = Pair(Request)
    BY <1>3, EmptySeq, ConcatEmptySeq
  <1>5. WholeFrames(<<>> \o Pair(Request))
    <2>1. WholeFrames(<<>>)
      <3>1. 0 \in Nat /\ Len(<<>>) = 2 * 0 /\ 1 .. 0 = {}
        OBVIOUS
      <3> QED BY <1>4, <3>1 DEF WholeFrames
    <2> QED BY <1>2, <2>1, FrameAdded
  <1>6. Len(rx \o sock) >= 2 /\ (rx \o sock)[1].frame = Request
    <2>1. rx \o sock = Pair(Request)
      BY <1>1, <1>4
    <2> QED BY <2>1 DEF Pair, Opening
  <1>7. (delivered \o msg) \o DataIn(rx \o sock) = Counted(peer.bytes)
    <2>1. peer.bytes = 0 /\ Counted(0) = <<>>
      BY <1>1 DEF Counted
    <2>2. (<<>> \o <<>>) \o <<>> = <<>>
      BY <1>4, ConcatEmptySeq
    <2> QED BY <1>1, <1>3, <1>4, <2>1, <2>2
  <1> QED BY <1>1, <1>3, <1>4, <1>5, <1>6, <1>7 DEF InputInv

(* the peer puts f on its stream; the bytes in it are the next ones *)
Adds(f) ==
    /\ PeerFrame(f)
    /\ peer' \in [bytes : Nat, pings : Nat, open : BOOLEAN, eof : BOOLEAN]
    /\ Counted(peer.bytes) \o DataIn(Pair(f)) = Counted(peer'.bytes)
    /\ UNCHANGED <<done, rx, msg, delivered>>

(* What the peer adds comes behind all that is on its way. *)
LEMMA PeerStep ==
    ASSUME InputInv, NEW f \in InFrame, Adds(f)
    PROVE  InputInv'
  <1> DEFINE u == rx \o sock
  <1>1. /\ rx \in Seq(InUnit) /\ sock \in Seq(InUnit) /\ msg \in Seq(Nat)
        /\ delivered \in Seq(Nat) /\ WholeFrames(u)
    BY DEF InputInv
  <1>2. Pair(f) \in Seq(InUnit) /\ DataIn(Pair(f)) \in Seq(Nat)
    BY DataInPair, DataInIsSeq
  <1>3. sock' = sock \o Pair(f) /\ sock' \in Seq(InUnit)
    BY <1>1, <1>2, ConcatProperties DEF Adds, PeerFrame, Pair
  <1>4. rx' \o sock' = u \o Pair(f) /\ u \in Seq(InUnit)
    <2>1. (rx \o sock) \o Pair(f) = rx \o (sock \o Pair(f))
      BY <1>1, <1>2, AssocUnits
    <2> QED BY <1>1, <1>3, <2>1, ConcatProperties DEF Adds
  <1>5. (delivered \o msg) \o DataIn(u) = Counted(peer.bytes)
    BY DEF InputInv
  <1>6. ~done => Len(u) >= 2 /\ u[1].frame = Request
    BY DEF InputInv
  <1> HIDE DEF u
  <1>7. WholeFrames(rx' \o sock')
    BY <1>1, <1>4, FrameAdded
  <1>8. ~done' => Len(rx' \o sock') >= 2 /\ (rx' \o sock')[1].frame = Request
    <2>1. Len(u) \in Nat
      BY <1>4, LenProperties
    <2>2. done' = done
      BY DEF Adds
    <2> QED BY <1>1, <1>4, <1>6, <2>1, <2>2, FrameAdded
  <1>9. (delivered' \o msg') \o DataIn(rx' \o sock') = Counted(peer'.bytes)
    <2> DEFINE d == delivered \o msg
    <2>1. d \in Seq(Nat) /\ DataIn(u) \in Seq(Nat)
      BY <1>1, <1>4, ConcatProperties, DataInIsSeq
    <2>2. DataIn(u \o Pair(f)) = DataIn(u) \o DataIn(Pair(f))
      BY <1>2, <1>4, DataInConcat
    <2> HIDE DEF d
    <2>3. d \o (DataIn(u) \o DataIn(Pair(f))) = (d \o DataIn(u)) \o DataIn(Pair(f))
      BY <1>2, <2>1, AssocBytes
    <2>4. Counted(peer.bytes) \o DataIn(Pair(f)) = Counted(peer'.bytes)
      BY DEF Adds
    <2>5. delivered' \o msg' = d
      BY DEF Adds, d
    <2> QED BY <1>4, <1>5, <2>2, <2>3, <2>4, <2>5 DEF d
  <1>10. /\ rx' = rx /\ msg' = msg /\ delivered' = delivered
         /\ peer' \in [bytes : Nat, pings : Nat, open : BOOLEAN, eof : BOOLEAN]
    BY DEF Adds
  <1> QED BY <1>1, <1>3, <1>7, <1>8, <1>9, <1>10 DEF InputInv

(* the first frame of rx is taken off it *)
TakesFrame ==
    /\ Complete
    /\ rx' = SubSeq(rx, 3, Len(rx))
    /\ msg' = msg \o IF Frame.op \in {"bin", "cont"} THEN Frame.payload ELSE <<>>
    /\ UNCHANGED <<done, delivered, sock, peer>>

(* The bytes of a frame that is taken go to msg. *)
LEMMA FrameTaken ==
    ASSUME InputInv, done, TakesFrame
    PROVE  InputInv'
  <1> DEFINE u == rx \o sock
  <1>1. /\ rx \in Seq(InUnit) /\ sock \in Seq(InUnit) /\ msg \in Seq(Nat)
        /\ delivered \in Seq(Nat) /\ WholeFrames(u) /\ Len(rx) >= 2
    BY DEF InputInv, TakesFrame, Complete
  <1>2. /\ rx' \in Seq(InUnit) /\ rx' \o sock = SubSeq(u, 3, Len(u))
        /\ u[1] = rx[1] /\ Len(u) >= 2
    <2>1. rx \in Seq(InUnit) /\ sock \in Seq(InUnit) /\ Len(rx) >= 2
      BY <1>1
    <2>2. /\ SubSeq(rx, 3, Len(rx)) \in Seq(InUnit)
          /\ SubSeq(rx, 3, Len(rx)) \o sock = SubSeq(u, 3, Len(u))
          /\ u[1] = rx[1] /\ Len(u) >= 2
      BY <2>1, DropTwo
    <2>3. rx' = SubSeq(rx, 3, Len(rx))
      BY DEF TakesFrame
    <2> QED BY <2>2, <2>3
  <1>3. (delivered \o msg) \o DataIn(u) = Counted(peer.bytes)
    BY DEF InputInv
  <1> HIDE DEF u
  <1>4. PICK f \in InFrame :
          /\ u[1] = Opening(f)
          /\ u = Pair(f) \o SubSeq(u, 3, Len(u))
          /\ WholeFrames(SubSeq(u, 3, Len(u)))
    BY <1>1, <1>2, FirstFrame
  <1> DEFINE w == rx' \o sock
             p == IF f.op \in {"bin", "cont"} THEN f.payload ELSE <<>>
  <1>5. w \in Seq(InUnit) /\ WholeFrames(w) /\ u = Pair(f) \o w
    BY <1>2, <1>4 DEF WholeFrames
  <1>6. Frame = f /\ msg' = msg \o p
    <2>1. Frame = f
      BY <1>2, <1>4 DEF Frame, Opening
    <2> QED BY <2>1 DEF TakesFrame
  <1>7. p \in Seq(Nat) /\ DataIn(Pair(f)) = p /\ Pair(f) \in Seq(InUnit)
    BY DataInPair, EmptySeq DEF InFrame
  <1> HIDE DEF w, p
  <1>8. DataIn(u) = p \o DataIn(w) /\ DataIn(w) \in Seq(Nat)
    BY <1>5, <1>7, DataInConcat, DataInIsSeq
  <1>9. (delivered \o (msg \o p)) \o DataIn(w) = Counted(peer.bytes)
    <2> DEFINE D == DataIn(w)
    <2>1. D \in Seq(Nat)
      BY <1>8
    <2>2. (delivered \o msg) \o (p \o D) = Counted(peer.bytes)
      BY <1>3, <1>8
    <2> HIDE DEF D
    <2>3. delivered \o msg \in Seq(Nat)
      BY <1>1, ConcatProperties
    <2>4. (delivered \o msg) \o (p \o D) = ((delivered \o msg) \o p) \o D
      BY <1>7, <2>1, <2>3, AssocBytes
    <2>5. (delivered \o msg) \o p = delivered \o (msg \o p)
      BY <1>1, <1>7, AssocBytes
    <2> QED BY <2>2, <2>4, <2>5 DEF D
  <1>10. msg' \in Seq(Nat)
    BY <1>1, <1>6, <1>7, ConcatProperties
  <1>11. peer \in [bytes : Nat, pings : Nat, open : BOOLEAN, eof : BOOLEAN]
    BY DEF InputInv
  <1>12. /\ sock' = sock /\ done' = done /\ delivered' = delivered /\ peer' = peer
    BY DEF TakesFrame
  <1>13. (delivered' \o msg') \o DataIn(rx' \o sock') = Counted(peer'.bytes)
    BY <1>6, <1>9, <1>12 DEF w
  <1>14. WholeFrames(rx' \o sock')
    BY <1>5, <1>12 DEF w
  <1> QED BY <1>1, <1>2, <1>10, <1>11, <1>12, <1>13, <1>14 DEF InputInv

(* recv() moves units from the socket to rx, and drops the request when    *)
(* the response is out.                                                    *)
LEMMA ReadStep ==
    ASSUME InputInv, NEW k \in 1 .. Len(sock), sock' = SubSeq(sock, k + 1, Len(sock)),
           CheckHeaders(rx \o SubSeq(sock, 1, k)), UNCHANGED <<msg, delivered, peer>>
    PROVE  InputInv'
  <1> DEFINE a == SubSeq(sock, 1, k)
             b == SubSeq(sock, k + 1, Len(sock))
             u == rx \o sock
             c == rx \o a
  <1>1. /\ rx \in Seq(InUnit) /\ sock \in Seq(InUnit) /\ msg \in Seq(Nat)
        /\ delivered \in Seq(Nat) /\ WholeFrames(u)
        /\ peer \in [bytes : Nat, pings : Nat, open : BOOLEAN, eof : BOOLEAN]
    BY DEF InputInv
  <1>2. a \in Seq(InUnit) /\ b \in Seq(InUnit) /\ sock = a \o b
    <2>1. k \in 0 .. Len(sock)
      BY <1>1, LenProperties
    <2> QED BY <1>1, <2>1, SplitAt
  <1>3. CheckHeaders(c) /\ sock' = b
    OBVIOUS
  <1>4. /\ ~done => Len(u) >= 2 /\ u[1].frame = Request
        /\ (delivered \o msg) \o DataIn(u) = Counted(peer.bytes)
    BY DEF InputInv
  <1> HIDE DEF a, b
  <1>5. c \in Seq(InUnit) /\ u = c \o b
    <2>1. rx \o (a \o b) = (rx \o a) \o b
      BY <1>1, <1>2, AssocUnits
    <2> QED BY <1>1, <1>2, <2>1, ConcatProperties
  <1> HIDE DEF u, c
  <1>6. msg' = msg /\ delivered' = delivered /\ peer' = peer
    OBVIOUS
  <1>7. CASE rx' = c /\ done' = done
    <2>1. rx' \o sock' = u
      BY <1>3, <1>5, <1>7
    <2> QED BY <1>1, <1>2, <1>3, <1>4, <1>5, <1>6, <1>7, <2>1 DEF InputInv
  <1>8. ASSUME ~done, Len(c) >= 2, rx' = c PROVE InputInv'
    <2>1. rx' \o sock' = u
      BY <1>3, <1>5, <1>8
    <2> QED BY <1>1, <1>2, <1>3, <1>4, <1>5, <1>6, <1>8, <2>1 DEF InputInv
  <1>9. ASSUME ~done, Len(c) >= 2, rx' = AfterRequest(c), done' PROVE InputInv'
    <2> DEFINE w == SubSeq(u, 3, Len(u))
    <2>1. /\ rx' \in Seq(InUnit) /\ rx' \o sock' = w /\ Len(u) >= 2
      <3>1. /\ SubSeq(c, 3, Len(c)) \in Seq(InUnit)
            /\ SubSeq(c, 3, Len(c)) \o b = SubSeq(c \o b, 3, Len(c \o b))
            /\ Len(c \o b) >= 2
        BY <1>2, <1>5, <1>9, DropTwo
      <3>2. rx' = SubSeq(c, 3, Len(c))
        BY <1>9 DEF AfterRequest
      <3> QED BY <1>3, <1>5, <3>1, <3>2
    <2>2. PICK f \in InFrame : u[1] = Opening(f) /\ u = Pair(f) \o w /\ WholeFrames(w)
      BY <1>1, <2>1, FirstFrame
    <2>3. f = Request
      BY <1>4, <1>9, <2>2 DEF Opening
    <2> HIDE DEF w
    <2>4. w \in Seq(InUnit) /\ Pair(f) \in Seq(InUnit) /\ DataIn(Pair(f)) = <<>>
      BY <2>2, <2>3, DataInPair DEF WholeFrames, Request
    <2>5. DataIn(u) = DataIn(w)
      <3>1. DataIn(u) = DataIn(Pair(f)) \o DataIn(w) /\ DataIn(w) \in Seq(Nat)
        BY <2>2, <2>4, DataInConcat, DataInIsSeq
      <3>2. <<>> \o DataIn(w) = DataIn(w)
        BY <3>1, ConcatEmptySeq
      <3> QED BY <2>4, <3>1, <3>2
    <2>6. (delivered' \o msg') \o DataIn(rx' \o sock') = Counted(peer'.bytes)
      BY <1>4, <1>6, <2>1, <2>5
    <2> QED BY <1>1, <1>2, <1>3, <1>6, <1>9, <2>1, <2>2, <2>6 DEF InputInv
  <1>10. \/ rx' = c /\ done' = done
         \/ ~done /\ Len(c) >= 2 /\ rx' = c
         \/ ~done /\ Len(c) >= 2 /\ rx' = AfterRequest(c) /\ done'
    <2>1. Len(c) \in Nat
      BY <1>5, LenProperties
    <2>2. CASE done \/ Len(c) < 2
      BY <1>3, <2>2 DEF CheckHeaders
    <2>3. CASE ~(done \/ Len(c) < 2)
      <3>1. Len(c) >= 2 /\ ~done
        BY <2>1, <2>3
      <3>2. \/ rx' = c
            \/ \E h \in handshake .. HANDSHAKE :
                  /\ done' = (h = HANDSHAKE)
                  /\ rx' = IF h = HANDSHAKE THEN AfterRequest(c) ELSE c
        BY <1>3, <2>3 DEF CheckHeaders
      <3> QED BY <3>1, <3>2
    <2> QED BY <2>2, <2>3
  <1> QED BY <1>7, <1>8, <1>9, <1>10

(* Handing out the first bytes of msg moves none. *)
LEMMA TakeStep ==
    ASSUME InputInv, Take, UNCHANGED <<done, rx, sock, peer>>
    PROVE  InputInv'
  <1> DEFINE k == Least(BUFFER, Len(msg))
             a == SubSeq(msg, 1, k)
             b == SubSeq(msg, k + 1, Len(msg))
  <1>1. msg \in Seq(Nat) /\ delivered \in Seq(Nat)
    BY DEF InputInv
  <1>2. delivered' = delivered \o a /\ msg' = b
    BY DEF Take
  <1>3. a \in Seq(Nat) /\ b \in Seq(Nat) /\ msg = a \o b
    <2>1. k \in 0 .. Len(msg)
      BY <1>1, LenProperties, WebSocketAssumption DEF Least
    <2> HIDE DEF k
    <2> QED BY <1>1, <2>1, SplitAt
  <1> HIDE DEF a, b, k
  <1>4. delivered' \in Seq(Nat) /\ msg' \in Seq(Nat)
    BY <1>1, <1>2, <1>3, ConcatProperties
  <1>5. delivered' \o msg' = delivered \o msg
    <2>1. (delivered \o a) \o b = delivered \o (a \o b)
      BY <1>1, <1>3, AssocBytes
    <2> QED BY <1>2, <1>3, <2>1
  <1>6. done' = done /\ rx' = rx /\ sock' = sock /\ peer' = peer
    OBVIOUS
  <1>7. (delivered \o msg) \o DataIn(rx \o sock) = Counted(peer.bytes)
    BY DEF InputInv
  <1>8. (delivered' \o msg') \o DataIn(rx' \o sock') = Counted(peer'.bytes)
    BY <1>5, <1>6, <1>7
  <1>9. /\ rx' \in Seq(InUnit) /\ sock' \in Seq(InUnit)
        /\ peer' \in [bytes : Nat, pings : Nat, open : BOOLEAN, eof : BOOLEAN]
        /\ WholeFrames(rx' \o sock')
        /\ ~done' => Len(rx' \o sock') >= 2 /\ (rx' \o sock')[1].frame = Request
    BY <1>6 DEF InputInv
  <1> QED BY <1>4, <1>8, <1>9 DEF InputInv

(* Every action keeps what is said of the input; that a frame is decoded   *)
(* only after the upgrade is known from the output.                        *)
LEMMA InputNext == OutputInv /\ InputInv /\ [Next]_vars => InputInv'
  <1> SUFFICES ASSUME OutputInv, InputInv, [Next]_vars PROVE InputInv'
    OBVIOUS
  <1>1. ASSUME UNCHANGED <<done, rx, msg, delivered, sock, peer>> PROVE InputInv'
    BY <1>1 DEF InputInv
  <1>2. decoding => done
    BY DEF OutputInv
  <1>3. CASE Send
    BY <1>1, <1>3 DEF Send, inVars, peerVars
  <1>4. CASE RecvBegin
    <2>1. UNCHANGED <<msg, delivered, peer>>
      BY <1>4 DEF RecvBegin
    <2>2. CASE UNCHANGED <<done, rx, sock>>
      BY <1>1, <2>1, <2>2
    <2>3. ASSUME NEW k \in 1 .. Len(sock), sock' = SubSeq(sock, k + 1, Len(sock)),
                 CheckHeaders(rx \o SubSeq(sock, 1, k))
          PROVE  InputInv'
      BY <2>1, <2>3, ReadStep
    <2> QED BY <1>4, <2>2, <2>3 DEF RecvBegin
  <1>5. CASE RecvFails
    BY <1>1, <1>5 DEF RecvFails, inVars, peerVars
  <1>6. CASE RecvRest
    BY <1>6, TakeStep DEF RecvRest, peerVars
  <1>7. CASE RecvEnd
    BY <1>1, <1>7, TakeStep DEF RecvEnd, peerVars
  <1>8. CASE DecodeData
    <2>1. TakesFrame
      BY <1>8 DEF DecodeData, TakesFrame, peerVars
    <2>2. done
      BY <1>2, <1>8 DEF DecodeData
    <2> QED BY <2>1, <2>2, FrameTaken
  <1>9. CASE DecodePing
    <2>1. msg \o <<>> = msg
      BY ConcatEmptySeq DEF InputInv
    <2>2. TakesFrame
      BY <1>9, <2>1 DEF DecodePing, TakesFrame, peerVars
    <2>3. done
      BY <1>2, <1>9 DEF DecodePing
    <2> QED BY <2>2, <2>3, FrameTaken
  <1>10. CASE DecodeEnds
    BY <1>1, <1>10 DEF DecodeEnds, peerVars
  <1>11. CASE PeerNext
    <2>1. UNCHANGED <<done, rx, msg, delivered>>
      BY <1>11 DEF PeerNext, inVars
    <2>2. peer \in [bytes : Nat, pings : Nat, open : BOOLEAN, eof : BOOLEAN]
      BY DEF InputInv
    <2>3. ASSUME NEW k \in Nat PROVE Counted(k) \o <<>> = Counted(k)
      <3>1. Counted(k) \in [1 .. k -> Nat]
        BY DEF Counted
      <3> QED BY <3>1, FunctionIsSeq, ConcatEmptySeq
    <2>4. CASE PeerData
      <3>1. PICK n \in Payloads, fin \in BOOLEAN :
              /\ PeerFrame([op |-> IF peer.open THEN "cont" ELSE "bin", fin |-> fin,
                            payload |-> [i \in 1 .. n |-> peer.bytes + i]])
              /\ peer' = [peer EXCEPT !.bytes = @ + n, !.open = ~fin]
        BY <2>4 DEF PeerData
      <3> DEFINE q == [i \in 1 .. n |-> peer.bytes + i]
                 f == [op |-> IF peer.open THEN "cont" ELSE "bin", fin |-> fin,
                       payload |-> q]
      <3>2. n \in Nat /\ peer.bytes \in Nat
        BY <2>2, WebSocketAssumption
      <3>3. q \in Seq(Nat) /\ Counted(peer.bytes) \o q = Counted(peer.bytes + n)
        BY <3>2, CountOn
      <3>4. PeerFrame(f)
        BY <3>1
      <3> HIDE DEF q
      <3>5. f \in InFrame /\ f.op \in {"bin", "cont"} /\ f.payload = q
        BY <3>3 DEF InFrame
      <3>6. /\ peer' \in [bytes : Nat, pings : Nat, open : BOOLEAN, eof : BOOLEAN]
            /\ peer'.bytes = peer.bytes + n
        <4>1. peer' = [bytes |-> peer.bytes + n, pings |-> peer.pings,
                       open |-> ~fin, eof |-> peer.eof]
          BY <2>2, <3>1
        <4>2. peer.pings \in Nat /\ peer.eof \in BOOLEAN /\ peer.bytes + n \in Nat
          BY <2>2, <3>2
        <4> QED BY <4>1, <4>2
      <3> HIDE DEF f
      <3>7. DataIn(Pair(f)) = q
        BY <3>5, DataInPair
      <3>8. Adds(f)
        BY <2>1, <3>3, <3>4, <3>6, <3>7 DEF Adds
      <3> QED BY <3>5, <3>8, PeerStep
    <2>5. CASE PeerPing
      <3> DEFINE f == [op |-> "ping", fin |-> TRUE, payload |-> <<peer.pings>>]
      <3>1. PeerFrame(f) /\ peer' = [peer EXCEPT !.pings = @ + 1]
        BY <2>5 DEF PeerPing
      <3>2. f \in InFrame /\ f.op = "ping"
        BY <2>2 DEF InFrame
      <3>3. /\ peer' \in [bytes : Nat, pings : Nat, open : BOOLEAN, eof : BOOLEAN]
            /\ peer'.bytes = peer.bytes /\ peer.bytes \in Nat
        BY <2>2, <3>1
      <3> HIDE DEF f
      <3>4. DataIn(Pair(f)) = <<>>
        BY <3>2, DataInPair
      <3>5. Adds(f)
        BY <2>1, <2>3, <3>1, <3>3, <3>4 DEF Adds
      <3> QED BY <3>2, <3>5, PeerStep
    <2>6. CASE PeerCloses
      <3>1. peer' = [peer EXCEPT !.eof = TRUE]
        BY <2>6 DEF PeerCloses
      <3>2. /\ peer' \in [bytes : Nat, pings : Nat, open : BOOLEAN, eof : BOOLEAN]
            /\ peer'.bytes = peer.bytes /\ peer.bytes \in Nat
        BY <2>2, <3>1
      <3>3. CASE UNCHANGED sock
        BY <2>1, <3>2, <3>3 DEF InputInv
      <3>4. ASSUME NEW op \in {"close", "bad"},
                   PeerFrame([op |-> op, fin |-> TRUE, payload |-> <<>>])
            PROVE  InputInv'
        <4> DEFINE f == [op |-> op, fin |-> TRUE, payload |-> <<>>]
        <4>1. f \in InFrame /\ f.op = op
          BY EmptySeq DEF InFrame
        <4>2. PeerFrame(f)
          BY <3>4
        <4> HIDE DEF f
        <4>3. DataIn(Pair(f)) = <<>>
          BY <4>1, DataInPair
        <4>4. Adds(f)
          BY <2>1, <2>3, <3>2, <4>2, <4>3 DEF Adds
        <4> QED BY <4>1, <4>4, PeerStep
      <3> QED BY <2>6, <3>3, <3>4 DEF PeerCloses
    <2> QED BY <1>11, <2>4, <2>5, <2>6 DEF PeerNext
  <1>12. CASE UNCHANGED vars
    BY <1>1, <1>12 DEF vars, inVars, peerVars
  <1> QED BY <1>3, <1>4, <1>5, <1>6, <1>7, <1>8, <1>9, <1>10, <1>11, <1>12 DEF Next

(* What the invariant says is what the caller can rely on. *)
LEMMA InputMeans == InputInv => BytesInOrder
  <1> SUFFICES ASSUME InputInv PROVE BytesInOrder
    OBVIOUS
  <1> DEFINE d == delivered \o msg
             x == DataIn(rx)
             y == DataIn(sock)
  <1>1. /\ rx \in Seq(InUnit) /\ sock \in Seq(InUnit) /\ msg \in Seq(Nat)
        /\ delivered \in Seq(Nat) /\ peer.bytes \in Nat
        /\ d \o DataIn(rx \o sock) = Counted(peer.bytes)
    BY DEF InputInv
  <1>2. d \in Seq(Nat) /\ x \in Seq(Nat) /\ y \in Seq(Nat)
    BY <1>1, ConcatProperties, DataInIsSeq
  <1>3. DataIn(rx \o sock) = x \o y
    BY <1>1, DataInConcat
  <1>4. Counted(peer.bytes) \in Seq(Nat)
    <2>1. Counted(peer.bytes) \in [1 .. peer.bytes -> Nat]
      BY <1>1 DEF Counted
    <2> QED BY <1>1, <2>1, FunctionIsSeq
  <1>5. d \o (x \o y) = Counted(peer.bytes)
    BY <1>1, <1>3
  <1> HIDE DEF d, x, y
  <1>6. StartsWith(Counted(peer.bytes), d)
    BY <1>2, <1>4, <1>5, ConcatProperties, PrefixIsStart
  <1>7. (d \o x) \o y = Counted(peer.bytes)
    BY <1>2, <1>5, AssocBytes
  <1> QED BY <1>6, <1>7 DEF BytesInOrder, Counted, d, x, y

(* No payload byte of the peer is lost, repeated or moved on its way       *)
(* through recv, check_headers and decode_frames, for every cap on a       *)
(* message, every size of the caller's buffer and every cut of the reads.  *)
THEOREM BytesAlwaysInOrder == Spec => []BytesInOrder
  <1>1. Init => InputInv
    BY InputInit
  <1>2. OutputInv /\ InputInv /\ [Next]_vars => InputInv'
    BY InputNext
  <1>3. InputInv => BytesInOrder
    BY InputMeans
  <1> QED BY <1>1, <1>2, <1>3, OutputAlways, PTL DEF Spec

-----------------------------------------------------------------------------
(* Bounds *)

(* What flush() keeps for a retry is one TLS record. *)
LEMMA RecordBound ==
    ASSUME OutputInv, Len(record) <= RECORD, NEW f \in Seq(Atom),
           NEW r \in Flushes(tx \o f)
    PROVE  Len(r.record) <= RECORD
  <1> DEFINE q == tx \o f
             one == NextRecord(q, record)
             Stops(k) == SubSeq(q, k + 1, Least(k + RECORD, Len(q)))
  <1>1. q \in Seq(Atom) /\ ~BadRetry(q) /\ FlushGood(q, r)
    BY FlushesGood
  <1>2. Len(q) \in Nat /\ RECORD \in Nat
    BY <1>1, LenProperties, WebSocketAssumption
  <1>3. r \in IF tls THEN TlsFlush(q, record) ELSE PlainFlush(q)
    BY <1>1 DEF Flushes
  <1>4. CASE ~tls
    <2>1. r.record = <<>>
      BY <1>1, <1>4 DEF FlushGood
    <2> QED BY <1>2, <2>1
  <1>5. CASE tls
    <2>1. \/ r.record = one
          \/ \E k \in Len(one) .. Len(q) : r.record = Stops(k)
      <3>1. r \in TlsFlush(q, record)
        BY <1>3, <1>5
      <3> HIDE DEF q
      <3>2. \/ r = [wrote |-> <<>>, left |-> q, record |-> one, pending |-> one]
            \/ \E k \in Len(one) .. Len(q) :
                  r = [wrote |-> one \o SubSeq(q, Len(one) + 1, k),
                       left |-> SubSeq(q, k + 1, Len(q)),
                       record |-> Stops(k), pending |-> Stops(k)]
        BY <3>1 DEF TlsFlush
      <3> HIDE DEF one, Stops
      <3> QED BY <3>2
    <2>2. Len(one) <= RECORD /\ Len(one) \in Nat
      <3> HIDE DEF q
      <3>1. CASE record # <<>>
        BY <3>1, LenProperties DEF NextRecord, OutputInv
      <3>2. CASE record = <<>>
        <4>1. Least(RECORD, Len(q)) \in 0 .. Len(q) /\ Least(RECORD, Len(q)) <= RECORD
          BY <1>2 DEF Least
        <4>2. Len(SubSeq(q, 1, Least(RECORD, Len(q)))) = Least(RECORD, Len(q))
          BY <1>1, <4>1, SplitAt
        <4> QED BY <3>2, <4>1, <4>2 DEF NextRecord
      <3> QED BY <3>1, <3>2
    <2>3. ASSUME NEW k \in Len(one) .. Len(q) PROVE Len(Stops(k)) <= RECORD
      <3> HIDE DEF q, one
      <3> DEFINE n == Least(k + RECORD, Len(q))
      <3>1. k \in 0 .. Len(q) /\ n \in k .. Len(q) /\ n <= k + RECORD
        BY <1>2, <2>2 DEF Least
      <3> HIDE DEF n
      <3>2. \A i \in k + 1 .. n : q[i] \in Atom
        BY <1>1, <1>2, <3>1, ElementOfSeq
      <3>3. Len(SubSeq(q, k + 1, n)) = IF k + 1 <= n THEN n - (k + 1) + 1 ELSE 0
        <4>1. q \in Seq(Atom) /\ k + 1 \in Int /\ n \in Int
          BY <1>1, <1>2, <3>1
        <4> QED BY ONLY <3>2, <4>1, SubSeqProperties
      <3>4. Len(SubSeq(q, k + 1, n)) <= RECORD
        BY <1>2, <3>1, <3>3
      <3> QED BY <3>4 DEF n
    <2> HIDE DEF q, one, Stops
    <2> QED BY <2>1, <2>2, <2>3
  <1> QED BY <1>4, <1>5

(* handing bytes out makes the message shorter *)
LEMMA TakeShortens ==
    ASSUME msg \in Seq(Nat), Take
    PROVE  Len(msg') <= Len(msg) /\ Len(msg') \in Nat
  <1> DEFINE n == Least(BUFFER, Len(msg))
  <1>1. Len(msg) \in Nat /\ n \in 0 .. Len(msg)
    BY LenProperties, WebSocketAssumption DEF Least
  <1>2. msg' = SubSeq(msg, n + 1, Len(msg))
    BY DEF Take
  <1> HIDE DEF n
  <1>3. SubSeq(msg, n + 1, Len(msg)) \in Seq(Nat)
    BY <1>1, SplitAt
  <1>4. Len(SubSeq(msg, n + 1, Len(msg))) =
          IF n + 1 <= Len(msg) THEN Len(msg) - (n + 1) + 1 ELSE 0
    <2>1. \A i \in n + 1 .. Len(msg) : msg[i] \in Nat
      BY <1>1, ElementOfSeq
    <2> QED BY <1>1, <2>1, SubSeqProperties
  <1> QED BY <1>1, <1>2, <1>3, <1>4, LenProperties

(* Every action keeps the buffers within their bounds. *)
LEMMA BoundNext ==
    OutputInv /\ InputInv /\ TypeOK /\ [Next]_vars =>
       Len(record') <= RECORD /\ Len(msg') <= MAX_MESSAGE
  <1> SUFFICES ASSUME OutputInv, InputInv, TypeOK, [Next]_vars
               PROVE  Len(record') <= RECORD /\ Len(msg') <= MAX_MESSAGE
    OBVIOUS
  <1>1. Len(record) <= RECORD /\ Len(msg) <= MAX_MESSAGE
    BY DEF TypeOK
  <1>2. ASSUME NEW r \in Flushes(tx \o OutFrame(NextId)), Flushed(r)
        PROVE  Len(record') <= RECORD
    <2>1. OutFrame(NextId) \in Seq(Atom)
      BY OutFrameIsSeq DEF OutputInv
    <2>2. Len(r.record) <= RECORD
      BY <1>1, <2>1, RecordBound
    <2> QED BY <1>2, <2>2 DEF Flushed
  <1>3. Take => Len(msg') <= MAX_MESSAGE
    <2> SUFFICES ASSUME Take PROVE Len(msg') <= MAX_MESSAGE
      OBVIOUS
    <2>1. msg \in Seq(Nat) /\ Len(msg) \in Nat
      BY LenProperties DEF InputInv
    <2>2. Len(msg') <= Len(msg) /\ Len(msg') \in Nat
      BY <2>1, TakeShortens
    <2> QED BY <1>1, <2>1, <2>2, WebSocketAssumption
  <1>4. CASE Send
    <2>1. msg' = msg
      BY <1>4 DEF Send, inVars
    <2>2. CASE UNCHANGED outVars
      BY <1>1, <2>1, <2>2 DEF outVars
    <2>3. CASE QueueAndFlush(NextId)
      BY <1>1, <1>2, <2>1, <2>3 DEF QueueAndFlush, flush
    <2> QED BY <1>4, <2>2, <2>3 DEF Send
  <1>5. CASE RecvBegin \/ RecvFails \/ PeerNext \/ UNCHANGED vars
    BY <1>1, <1>5 DEF RecvBegin, RecvFails, PeerNext, vars, inVars, outVars
  <1>6. CASE RecvRest \/ RecvEnd
    BY <1>1, <1>3, <1>6 DEF RecvRest, RecvEnd, outVars
  <1>7. CASE DecodeData
    <2>1. msg' = msg \o Frame.payload /\ record' = record
      BY <1>7 DEF DecodeData, outVars
    <2>2. msg \in Seq(Nat) /\ Frame.payload \in Seq(Nat)
      <3>1. msg \in Seq(Nat) /\ rx \in Seq(InUnit)
        BY DEF InputInv
      <3>2. Len(rx) \in Nat /\ Len(rx) >= 2
        BY <1>7, <3>1, LenProperties DEF DecodeData, Complete
      <3>3. rx[1] \in InUnit
        BY <3>1, <3>2, ElementOfSeq
      <3>4. rx[1].frame.payload \in Seq(Nat)
        BY <3>3 DEF InUnit, InFrame
      <3> QED BY <3>1, <3>4 DEF Frame
    <2>3. Len(msg) + Len(Frame.payload) <= MAX_MESSAGE
      <3>1. Len(msg) \in Nat /\ Len(Frame.payload) \in Nat
        BY <2>2, LenProperties
      <3> QED BY <1>7, <3>1, WebSocketAssumption DEF DecodeData, Refused
    <2>4. Len(msg \o Frame.payload) = Len(msg) + Len(Frame.payload)
      BY <2>2, ConcatProperties
    <2> QED BY <1>1, <2>1, <2>3, <2>4
  <1>8. CASE DecodePing
    BY <1>1, <1>2, <1>8 DEF DecodePing, QueueAndFlush, flush
  <1>9. CASE DecodeEnds
    BY <1>1, <1>2, <1>9 DEF DecodeEnds, outVars
  <1> QED BY <1>4, <1>5, <1>6, <1>7, <1>8, <1>9 DEF Next

(* The flags stay flags, and the peer within what bounds it. *)
LEMMA FlagsNext ==
    InputInv /\ TypeOK /\ [Next]_vars =>
       /\ up' \in BOOLEAN /\ tls' \in BOOLEAN /\ accepted' \in BOOLEAN
       /\ done' \in BOOLEAN /\ fragment' \in BOOLEAN /\ decoding' \in BOOLEAN
       /\ peer'.bytes \in 0 .. MaxBytes /\ peer'.pings \in 0 .. MaxPings
  <1> SUFFICES ASSUME InputInv, TypeOK, [Next]_vars
               PROVE  /\ up' \in BOOLEAN /\ tls' \in BOOLEAN /\ accepted' \in BOOLEAN
                      /\ done' \in BOOLEAN /\ fragment' \in BOOLEAN
                      /\ decoding' \in BOOLEAN
                      /\ peer'.bytes \in 0 .. MaxBytes
                      /\ peer'.pings \in 0 .. MaxPings
    OBVIOUS
  <1>0. /\ up \in BOOLEAN /\ tls \in BOOLEAN /\ accepted \in BOOLEAN
        /\ done \in BOOLEAN /\ fragment \in BOOLEAN /\ decoding \in BOOLEAN
        /\ peer.bytes \in 0 .. MaxBytes /\ peer.pings \in 0 .. MaxPings
    BY DEF TypeOK
  <1>1. ASSUME NEW q, flush(q) PROVE up' \in BOOLEAN
    BY <1>0, <1>1 DEF flush
  <1>2. ASSUME NEW u, CheckHeaders(u) PROVE up' \in BOOLEAN /\ done' \in BOOLEAN
    BY <1>0, <1>2 DEF CheckHeaders
  <1>3. CASE Send
    <2>1. up' \in BOOLEAN
      BY <1>1, <1>3 DEF Send, QueueAndFlush
    <2> QED BY <1>0, <1>3, <2>1 DEF Send, inVars, peerVars
  <1>4. CASE RecvBegin
    <2>1. /\ up' \in BOOLEAN /\ done' \in BOOLEAN /\ accepted' \in BOOLEAN
          /\ decoding' \in BOOLEAN
      BY <1>0, <1>2, <1>4 DEF RecvBegin
    <2> QED BY <1>0, <1>4, <2>1 DEF RecvBegin
  <1>5. CASE RecvFails \/ RecvRest \/ RecvEnd
    BY <1>0, <1>5 DEF RecvFails, RecvRest, RecvEnd, inVars, peerVars
  <1>6. CASE DecodeData
    BY <1>0, <1>6 DEF DecodeData, peerVars
  <1>7. CASE DecodePing
    <2>1. up' \in BOOLEAN
      BY <1>1, <1>7 DEF DecodePing, QueueAndFlush
    <2> QED BY <1>0, <1>7, <2>1 DEF DecodePing, peerVars
  <1>8. CASE DecodeEnds
    BY <1>0, <1>8 DEF DecodeEnds, peerVars
  <1>9. CASE PeerNext
    <2>0. /\ up' \in BOOLEAN /\ tls' \in BOOLEAN /\ accepted' \in BOOLEAN
          /\ done' \in BOOLEAN /\ fragment' \in BOOLEAN /\ decoding' \in BOOLEAN
      BY <1>0, <1>9 DEF PeerNext, inVars
    <2>1. peer \in [bytes : Nat, pings : Nat, open : BOOLEAN, eof : BOOLEAN]
      BY DEF InputInv
    <2>2. peer'.bytes \in 0 .. MaxBytes /\ peer'.pings \in 0 .. MaxPings
      <3>1. CASE PeerData
        <4>1. PICK n \in Payloads, fin \in BOOLEAN :
                /\ peer.bytes + n <= MaxBytes
                /\ peer' = [peer EXCEPT !.bytes = @ + n, !.open = ~fin]
          BY <3>1 DEF PeerData
        <4>2. n \in Nat
          BY WebSocketAssumption
        <4> QED BY <1>0, <2>1, <4>1, <4>2, WebSocketAssumption
      <3>2. CASE PeerPing
        BY <1>0, <2>1, <3>2, WebSocketAssumption DEF PeerPing
      <3>3. CASE PeerCloses
        BY <1>0, <2>1, <3>3 DEF PeerCloses
      <3> QED BY <1>9, <3>1, <3>2, <3>3 DEF PeerNext
    <2> QED BY <2>0, <2>2
  <1>10. CASE UNCHANGED vars
    BY <1>0, <1>10 DEF vars, inVars, peerVars
  <1> QED BY <1>3, <1>4, <1>5, <1>6, <1>7, <1>8, <1>9, <1>10 DEF Next

(* The types of a connection's state and the bounds of its buffers: what   *)
(* is decoded and not handed out is at most a message (decode_frames), and *)
(* what flush keeps for a retry at most a TLS record, however many frames  *)
(* and pings come in between.                                              *)
THEOREM WebSocketTypes == Spec => []TypeOK
  <1>1. Init => InputInv /\ TypeOK
    <2> SUFFICES ASSUME Init PROVE InputInv /\ TypeOK
      OBVIOUS
    <2>1. /\ up = TRUE /\ tls \in BOOLEAN /\ accepted = FALSE /\ handshake = 0
          /\ done = FALSE /\ fragment = FALSE /\ decoding = FALSE
          /\ Len(record) = 0 /\ Len(msg) = 0 /\ peer.bytes = 0 /\ peer.pings = 0
      BY DEF Init
    <2>2. /\ 0 <= RECORD /\ 0 <= MAX_MESSAGE /\ 0 \in 0 .. HANDSHAKE
          /\ 0 \in 0 .. MaxBytes /\ 0 \in 0 .. MaxPings
      BY WebSocketAssumption
    <2>3. TypeOK
      BY <2>1, <2>2 DEF TypeOK
    <2> QED BY <2>3, InputInit
  <1>2. OutputInv /\ InputInv /\ [Next]_vars => InputInv'
    BY InputNext
  <1>3. OutputInv /\ OutputInv' /\ InputInv /\ TypeOK /\ [Next]_vars => TypeOK'
    <2> SUFFICES ASSUME OutputInv, OutputInv', InputInv, TypeOK, [Next]_vars
                 PROVE  TypeOK'
      OBVIOUS
    <2>1. Len(record') <= RECORD /\ Len(msg') <= MAX_MESSAGE
      BY BoundNext
    <2>2. /\ up' \in BOOLEAN /\ tls' \in BOOLEAN /\ accepted' \in BOOLEAN
          /\ done' \in BOOLEAN /\ fragment' \in BOOLEAN /\ decoding' \in BOOLEAN
          /\ peer'.bytes \in 0 .. MaxBytes /\ peer'.pings \in 0 .. MaxPings
      BY FlagsNext
    <2>3. handshake' \in 0 .. HANDSHAKE /\ (done' => handshake' = HANDSHAKE)
      BY DEF OutputInv
    <2> QED BY <2>1, <2>2, <2>3 DEF TypeOK
  <1> QED BY <1>1, <1>2, <1>3, OutputAlways, PTL DEF Spec
==============================================================================
