---------------------- MODULE WorkspaceDocumentsProofs ----------------------
(***************************************************************************)
(* Proofs about WorkspaceDocuments, for every set of texts, names and      *)
(* files, and for bundles of any size.                                     *)
(*                                                                         *)
(* IInv is the inductive invariant: the types, the mirrors, and that the   *)
(* revision kept from the last authentication holds texts.                 *)
(* Every operation that changes the bundle ends in Mutate, so what an      *)
(* operation has to answer for is the bundle it hands to Mutate: that it   *)
(* is a sequence of documents, and which of them is primary.               *)
(***************************************************************************)
EXTENDS WorkspaceDocuments, SequenceTheorems, TLAPS

RevisionOK == \A d \in DOMAIN revision : revision[d] \in Contents

IInv == TypeOK /\ RevisionOK /\ MirrorsAgree

Bundle(docs) == docs \in Seq(Document) /\ ValidDocuments(docs)

(* What a document shares with its file. *)
SameOnDisk(a, b) ==
    a.id = b.id /\ a.text = b.text /\ a.path = b.path /\ a.dirty = b.dirty
Comes(doc)       == \E j \in DOMAIN documents : SameOnDisk(doc, documents[j])

-----------------------------------------------------------------------------
(* Bundles. *)

LEMMA FunctionIsSequence ==
  ASSUME NEW S, NEW n \in Nat, NEW f \in [1 .. n -> S]
  PROVE  f \in Seq(S) /\ Len(f) = n /\ DOMAIN f = 1 .. n
  <1>1. f \in Seq(S)
    BY SeqDef
  <1> QED BY <1>1

LEMMA BundleFacts ==
  ASSUME NEW docs, Bundle(docs)
  PROVE  /\ DOMAIN docs = 1 .. Len(docs)
         /\ Len(docs) \in Nat \ {0} /\ Len(docs) <= MaxDocuments
         /\ \A i \in DOMAIN docs : docs[i] \in Document
         /\ \A i, j \in DOMAIN docs : docs[i].id = docs[j].id => i = j
         /\ \A i, j \in DOMAIN docs : docs[i].name = docs[j].name => i = j
         /\ \A i, j \in DOMAIN docs : docs[i].primary /\ docs[j].primary => i = j
         /\ \E i \in DOMAIN docs : docs[i].primary
  BY LimitAssumption DEF Bundle, ValidDocuments, Distinct, LimitAssumption

LEMMA DocumentAt ==
  ASSUME NEW docs, Bundle(docs), NEW i \in DOMAIN docs
  PROVE  DocumentOf(docs, docs[i].id) = docs[i]
  BY BundleFacts DEF DocumentOf

LEMMA DocumentIsIn ==
  ASSUME NEW docs, Bundle(docs), NEW d \in IdsOf(docs)
  PROVE  /\ \E i \in DOMAIN docs : docs[i] = DocumentOf(docs, d)
         /\ DocumentOf(docs, d) \in Document
         /\ DocumentOf(docs, d).id = d
  BY BundleFacts, DocumentAt DEF IdsOf

LEMMA PrimaryAt ==
  ASSUME NEW docs, Bundle(docs), NEW i \in DOMAIN docs, docs[i].primary
  PROVE  PrimaryOf(docs) = docs[i]
  BY BundleFacts DEF PrimaryOf, PrimaryIndex

LEMMA PrimaryIsIn ==
  ASSUME NEW docs, Bundle(docs)
  PROVE  \E i \in DOMAIN docs : docs[i] = PrimaryOf(docs) /\ docs[i].primary
  BY BundleFacts, PrimaryAt

LEMMA SameIds ==
  ASSUME NEW docs, NEW old,
         \A i \in DOMAIN docs : \E j \in DOMAIN old : old[j].id = docs[i].id,
         \A j \in DOMAIN old : \E i \in DOMAIN docs : docs[i].id = old[j].id
  PROVE  IdsOf(docs) = IdsOf(old)
  <1>1. ASSUME NEW d PROVE d \in IdsOf(docs) <=> d \in IdsOf(old)
    <2>1. d \in IdsOf(docs) <=> \E i \in DOMAIN docs : docs[i].id = d
      BY Zenon DEF IdsOf
    <2>2. d \in IdsOf(old) <=> \E j \in DOMAIN old : old[j].id = d
      BY Zenon DEF IdsOf
    <2> QED BY <2>1, <2>2
  <1> QED BY <1>1

LEMMA TextsAre ==
  ASSUME NEW docs, Bundle(docs)
  PROVE  /\ DOMAIN TextsOf(docs) = IdsOf(docs)
         /\ \A d \in IdsOf(docs) : /\ TextsOf(docs)[d] = DocumentOf(docs, d).text
                                   /\ TextsOf(docs)[d] \in Contents
  <1>1. \A d \in IdsOf(docs) : DocumentOf(docs, d).text \in Contents
    BY DocumentIsIn DEF Document
  <1> QED BY <1>1 DEF TextsOf, DocumentOf

(* Two bundles the comparison of _semantic_documents_changed cannot tell    *)
(* apart are the same revision, and the converter is given the same for     *)
(* both.                                                                    *)
LEMMA SameSemantics ==
  ASSUME NEW docs, NEW old, Bundle(docs), Bundle(old), Semantics(docs) = Semantics(old)
  PROVE  /\ IdsOf(docs) = IdsOf(old)
         /\ TextsOf(docs) = TextsOf(old)
         /\ BundleOf(docs) = BundleOf(old)
  <1>1. DOMAIN docs = DOMAIN old
    BY DEF Semantics
  <1>2. ASSUME NEW i \in DOMAIN docs
        PROVE  /\ docs[i].id = old[i].id /\ docs[i].name = old[i].name
               /\ docs[i].primary = old[i].primary /\ docs[i].text = old[i].text
    <2>1. Semantics(docs)[i] = <<docs[i].id, docs[i].name, docs[i].primary, docs[i].text>>
      BY DEF Semantics
    <2>2. Semantics(old)[i] = <<old[i].id, old[i].name, old[i].primary, old[i].text>>
      BY <1>1 DEF Semantics
    <2> QED BY <2>1, <2>2
  <1>3. IdsOf(docs) = IdsOf(old)
    BY <1>1, <1>2 DEF IdsOf
  <1>4. TextsOf(docs) = TextsOf(old)
    <2>1. ASSUME NEW d \in IdsOf(docs) PROVE DocumentOf(docs, d).text = DocumentOf(old, d).text
      <3>1. PICK i \in DOMAIN docs : docs[i].id = d
        BY DEF IdsOf
      <3>2. DocumentOf(docs, d) = docs[i]
        BY <3>1, DocumentAt
      <3>3. DocumentOf(old, d) = old[i]
        BY <1>1, <1>2, <3>1, DocumentAt
      <3> QED BY <1>2, <3>2, <3>3
    <2> QED BY <1>3, <2>1 DEF TextsOf, DocumentOf
  <1>5. BundleOf(docs) = BundleOf(old)
    <2> DEFINE p == PrimaryIndex(docs)
               from == [i \in DOMAIN docs |-> IF i = 1 THEN p ELSE IF i <= p THEN i - 1 ELSE i]
    <2>1. /\ p \in DOMAIN docs /\ docs[p].primary
          /\ PrimaryIndex(old) \in DOMAIN old /\ old[PrimaryIndex(old)].primary
      BY BundleFacts DEF PrimaryIndex
    <2>2. p = PrimaryIndex(old)
      BY <1>1, <1>2, <2>1, BundleFacts
    <2>3. BundleOf(docs) = [i \in DOMAIN docs |-> <<docs[from[i]].name, docs[from[i]].text>>]
      BY DEF BundleOf
    <2>4. BundleOf(old) = [i \in DOMAIN docs |-> <<old[from[i]].name, old[from[i]].text>>]
      BY <1>1, <2>2 DEF BundleOf
    <2>5. \A i \in DOMAIN docs : from[i] \in DOMAIN docs
      BY <2>1, BundleFacts
    <2> HIDE DEF p, from
    <2>6. \A i \in DOMAIN docs : /\ docs[from[i]].name = old[from[i]].name
                                 /\ docs[from[i]].text = old[from[i]].text
      BY <1>2, <2>5
    <2> QED BY <2>3, <2>4, <2>6
  <1> QED BY <1>3, <1>4, <1>5

-----------------------------------------------------------------------------
(* The bundles the operations hand to Mutate. *)

LEMMA ReplacedIs ==
  ASSUME NEW new \in Document, Bundle(documents), new.id \in IdsOf(documents),
         ValidDocuments(Replaced(new))
  PROVE  /\ Bundle(Replaced(new))
         /\ IdsOf(Replaced(new)) = IdsOf(documents)
         /\ DocumentOf(Replaced(new), new.id) = new
         /\ \A d \in IdsOf(documents) \ {new.id} : DocumentOf(Replaced(new), d) = Doc(d)
         /\ new.primary => PrimaryOf(Replaced(new)) = new
         /\ ~new.primary /\ ~Doc(new.id).primary =>
              PrimaryOf(Replaced(new)) = PrimaryOf(documents)
         /\ \A i \in DOMAIN Replaced(new) :
              Replaced(new)[i] = new \/ Comes(Replaced(new)[i])
  <1> DEFINE docs == Replaced(new)
  <1>1. /\ DOMAIN docs = DOMAIN documents
        /\ \A i \in DOMAIN documents : docs[i] = IF documents[i].id = new.id THEN new ELSE documents[i]
    BY DEF Replaced
  <1>2. /\ DOMAIN documents = 1 .. Len(documents) /\ Len(documents) \in Nat
        /\ \A i \in DOMAIN documents : documents[i] \in Document
    BY BundleFacts
  <1>3. docs \in [1 .. Len(documents) -> Document]
    BY <1>1, <1>2 DEF Replaced
  <1>4. docs \in Seq(Document)
    BY <1>2, <1>3, FunctionIsSequence
  <1>5. Bundle(docs)
    BY <1>4 DEF Bundle
  <1> HIDE DEF docs
  <1>6. \A i \in DOMAIN documents : docs[i].id = documents[i].id
    BY <1>1
  <1>7. IdsOf(docs) = IdsOf(documents)
    BY <1>1, <1>6 DEF IdsOf
  <1>8. PICK k \in DOMAIN documents : documents[k].id = new.id
    BY DEF IdsOf
  <1>9. docs[k] = new /\ Doc(new.id) = documents[k]
    BY <1>1, <1>8, DocumentAt DEF Doc
  <1>10. DocumentOf(docs, new.id) = new
    BY <1>1, <1>5, <1>8, <1>9, DocumentAt
  <1>11. ASSUME NEW d \in IdsOf(documents) \ {new.id} PROVE DocumentOf(docs, d) = Doc(d)
    <2>1. PICK i \in DOMAIN documents : documents[i].id = d
      BY DEF IdsOf
    <2>2. docs[i] = documents[i]
      BY <1>1, <2>1
    <2> QED BY <1>1, <1>5, <2>1, <2>2, DocumentAt DEF Doc
  <1>12. new.primary => PrimaryOf(docs) = new
    BY <1>1, <1>5, <1>8, <1>9, PrimaryAt
  <1>13. ASSUME ~new.primary, ~Doc(new.id).primary PROVE PrimaryOf(docs) = PrimaryOf(documents)
    <2>1. PICK i \in DOMAIN documents : documents[i] = PrimaryOf(documents) /\ documents[i].primary
      BY PrimaryIsIn
    <2>2. i # k
      BY <1>9, <1>13, <2>1
    <2>3. docs[i] = documents[i]
      BY <1>1, <1>8, <2>2, BundleFacts
    <2> QED BY <1>1, <1>5, <2>1, <2>3, PrimaryAt
  <1>14. \A i \in DOMAIN docs : docs[i] = new \/ Comes(docs[i])
    BY <1>1 DEF Comes, SameOnDisk
  <1> QED BY <1>5, <1>7, <1>10, <1>11, <1>12, <1>13, <1>14 DEF docs

LEMMA AddedIs ==
  ASSUME NEW new \in Document, Bundle(documents), ValidDocuments(Added(new))
  PROVE  /\ Bundle(Added(new))
         /\ IdsOf(Added(new)) = IdsOf(documents) \cup {new.id}
         /\ DocumentOf(Added(new), new.id) = new
         /\ new.primary => PrimaryOf(Added(new)) = new
         /\ ~new.primary => PrimaryOf(Added(new)) = PrimaryOf(documents)
         /\ \A i \in DOMAIN Added(new) : Added(new)[i] = new \/ Comes(Added(new)[i])
  <1> DEFINE old  == IF new.primary THEN NonePrimary(documents) ELSE documents
             docs == Append(old, new)
             n    == Len(documents)
  <1>1. /\ DOMAIN documents = 1 .. n /\ n \in Nat
        /\ \A i \in DOMAIN documents : documents[i] \in Document
    BY BundleFacts
  <1>2. /\ old \in [1 .. n -> Document]
        /\ \A i \in 1 .. n : /\ old[i].id = documents[i].id
                            /\ SameOnDisk(old[i], documents[i])
        /\ ~new.primary => old = documents
    <2>1. CASE new.primary
      <3>1. ASSUME NEW i \in 1 .. n PROVE [documents[i] EXCEPT !.primary = FALSE] \in Document
        BY <1>1 DEF Document
      <3>2. old = [i \in 1 .. n |-> [documents[i] EXCEPT !.primary = FALSE]]
        BY <1>1, <2>1 DEF NonePrimary
      <3>3. \A i \in 1 .. n : LET doc == [documents[i] EXCEPT !.primary = FALSE]
                             IN  doc.id = documents[i].id /\ SameOnDisk(doc, documents[i])
        BY <1>1 DEF Document, SameOnDisk
      <3> HIDE DEF old
      <3>4. old \in [1 .. n -> Document]
        BY <3>1, <3>2
      <3>5. \A i \in 1 .. n : old[i].id = documents[i].id /\ SameOnDisk(old[i], documents[i])
        BY <3>2, <3>3
      <3> QED BY <2>1, <3>4, <3>5
    <2>2. CASE ~new.primary
      <3>1. old = documents
        BY <2>2
      <3>2. documents \in [1 .. n -> Document]
        BY <1>1 DEF Bundle
      <3> HIDE DEF old
      <3> QED BY <3>1, <3>2 DEF SameOnDisk
    <2> QED BY <2>1, <2>2
  <1> HIDE DEF old
  <1>3. old \in Seq(Document) /\ Len(old) = n
    BY <1>1, <1>2, FunctionIsSequence
  <1>4. docs = Added(new)
    BY DEF Added, old
  <1>5. /\ docs \in Seq(Document) /\ Len(docs) = n + 1
        /\ \A i \in 1 .. n : docs[i] = old[i]
        /\ docs[n + 1] = new
    BY <1>3, AppendProperties
  <1>6. Bundle(docs)
    BY <1>4, <1>5 DEF Bundle
  <1> HIDE DEF docs
  <1>7. DOMAIN docs = 1 .. n + 1
    BY <1>5, <1>6, BundleFacts
  <1> HIDE DEF n
  <1>8. /\ n + 1 \in 1 .. n + 1 /\ 1 .. n \subseteq 1 .. n + 1
        /\ \A i \in 1 .. n + 1 : i \in 1 .. n \/ i = n + 1
    BY <1>1
  <1>9. IdsOf(docs) = IdsOf(documents) \cup {new.id}
    <2>1. ASSUME NEW d PROVE d \in IdsOf(docs) <=> d \in IdsOf(documents) \/ d = new.id
      <3>1. d \in IdsOf(docs) <=> \E i \in 1 .. n + 1 : docs[i].id = d
        BY <1>7 DEF IdsOf
      <3>2. d \in IdsOf(documents) <=> \E i \in 1 .. n : documents[i].id = d
        BY <1>1 DEF IdsOf
      <3>3. (\E i \in 1 .. n + 1 : docs[i].id = d) <=>
              (\E i \in 1 .. n : docs[i].id = d) \/ docs[n + 1].id = d
        BY <1>8
      <3>4. \A i \in 1 .. n : docs[i].id = documents[i].id
        BY <1>2, <1>5
      <3>5. (\E i \in 1 .. n : docs[i].id = d) <=> (\E i \in 1 .. n : documents[i].id = d)
        BY <3>4
      <3> QED BY <1>5, <3>1, <3>2, <3>3, <3>5
    <2> QED BY <2>1
  <1>10. DocumentOf(docs, new.id) = new
    BY <1>5, <1>6, <1>7, <1>8, DocumentAt
  <1>11. new.primary => PrimaryOf(docs) = new
    BY <1>5, <1>6, <1>7, <1>8, PrimaryAt
  <1>12. ASSUME ~new.primary PROVE PrimaryOf(docs) = PrimaryOf(documents)
    <2>1. PICK i \in DOMAIN documents : documents[i] = PrimaryOf(documents) /\ documents[i].primary
      BY PrimaryIsIn
    <2>2. i \in DOMAIN docs /\ docs[i] = documents[i]
      BY <1>1, <1>2, <1>5, <1>7, <1>8, <1>12, <2>1
    <2> QED BY <1>6, <2>1, <2>2, PrimaryAt
  <1>13. \A i \in DOMAIN docs : docs[i] = new \/ Comes(docs[i])
    BY <1>1, <1>2, <1>5, <1>7, <1>8 DEF Comes
  <1> QED BY <1>4, <1>6, <1>9, <1>10, <1>11, <1>12, <1>13

(* The bundle without its k-th document. *)
LEMMA RemoveAtIs ==
  ASSUME NEW S, NEW s \in Seq(S), NEW k \in 1 .. Len(s)
  PROVE  /\ RemoveAt(s, k) \in Seq(S)
         /\ Len(RemoveAt(s, k)) = Len(s) - 1
         /\ \A i \in 1 .. Len(s) - 1 :
              RemoveAt(s, k)[i] = IF i < k THEN s[i] ELSE s[i + 1]
  <1> DEFINE n == Len(s)
             a == SubSeq(s, 1, k - 1)
             b == SubSeq(s, k + 1, n)
  <1>0. n \in Nat /\ k \in Int /\ 1 <= k /\ k <= n /\ \A i \in 1 .. n : s[i] \in S
    OBVIOUS
  <1> HIDE DEF n
  <1>1. /\ a \in Seq(S)
        /\ Len(a) = IF 1 <= k - 1 THEN (k - 1) - 1 + 1 ELSE 0
        /\ \A i \in 1 .. (k - 1) - 1 + 1 : a[i] = s[1 + i - 1]
    BY <1>0, SubSeqProperties
  <1>2. /\ b \in Seq(S)
        /\ Len(b) = IF k + 1 <= n THEN n - (k + 1) + 1 ELSE 0
        /\ \A i \in 1 .. n - (k + 1) + 1 : b[i] = s[(k + 1) + i - 1]
    BY <1>0, SubSeqProperties
  <1> HIDE DEF a, b
  <1>3. Len(a) = k - 1 /\ Len(b) = n - k
    BY <1>0, <1>1, <1>2
  <1>4. /\ a \o b \in Seq(S)
        /\ Len(a \o b) = Len(a) + Len(b)
        /\ \A i \in 1 .. Len(a) + Len(b) : (a \o b)[i] = IF i <= Len(a) THEN a[i] ELSE b[i - Len(a)]
    BY <1>1, <1>2, ConcatProperties
  <1>5. Len(a) + Len(b) = n - 1
    BY <1>0, <1>3
  <1>6. ASSUME NEW i \in 1 .. n - 1 PROVE (a \o b)[i] = IF i < k THEN s[i] ELSE s[i + 1]
    <2>1. CASE i < k
      <3>1. i \in 1 .. (k - 1) - 1 + 1 /\ i <= Len(a) /\ 1 + i - 1 = i
        BY <1>0, <1>3, <2>1
      <3> QED BY <1>1, <1>4, <1>5, <2>1, <3>1
    <2>2. CASE ~(i < k)
      <3>1. /\ ~(i <= Len(a)) /\ i - Len(a) = i - k + 1
            /\ i - k + 1 \in 1 .. n - (k + 1) + 1
            /\ (k + 1) + (i - k + 1) - 1 = i + 1
        BY <1>0, <1>3, <2>2
      <3> QED BY <1>2, <1>4, <1>5, <2>2, <3>1
    <2> QED BY <2>1, <2>2
  <1>7. RemoveAt(s, k) = a \o b
    BY DEF RemoveAt, a, b, n
  <1> QED BY <1>4, <1>5, <1>6, <1>7 DEF n

LEMMA MadePrimary ==
  ASSUME NEW doc \in Document
  PROVE  LET new == [doc EXCEPT !.primary = TRUE]
         IN  new \in Document /\ new.id = doc.id /\ new.primary /\ SameOnDisk(new, doc)
  BY DEF Document, SameOnDisk

LEMMA RemovedIs ==
  ASSUME NEW k, Bundle(documents), k \in DOMAIN documents, Len(documents) > 1,
         NEW docs,
         docs = IF documents[k].primary THEN [RemoveAt(documents, k) EXCEPT ![1].primary = TRUE]
                ELSE RemoveAt(documents, k),
         ValidDocuments(docs)
  PROVE  /\ Bundle(docs)
         /\ Len(docs) = Len(documents) - 1
         /\ Len(RemoveAt(documents, k)) = Len(documents) - 1
         /\ IdsOf(docs) = IdsOf(documents) \ {documents[k].id}
         /\ documents[k].primary => PrimaryOf(docs) = docs[1]
         /\ ~documents[k].primary => PrimaryOf(docs) = PrimaryOf(documents)
         /\ \A i \in DOMAIN docs : Comes(docs[i])
  <1> DEFINE n == Len(documents)
             kept == RemoveAt(documents, k)
             from == [i \in 1 .. n - 1 |-> IF i < k THEN i ELSE i + 1]
  <1>1. /\ DOMAIN documents = 1 .. n /\ n \in Nat /\ n > 1 /\ k \in 1 .. n
        /\ \A i \in 1 .. n : documents[i] \in Document
        /\ documents \in Seq(Document)
    BY BundleFacts DEF Bundle
  <1>2. /\ kept \in Seq(Document) /\ Len(kept) = n - 1
        /\ \A i \in 1 .. n - 1 : kept[i] = IF i < k THEN documents[i] ELSE documents[i + 1]
    BY <1>1, RemoveAtIs
  <1> HIDE DEF kept, n
  <1>3. /\ \A i \in 1 .. n - 1 : from[i] \in 1 .. n /\ from[i] # k
        /\ \A j \in 1 .. n : j # k => \E i \in 1 .. n - 1 : from[i] = j
        /\ 1 \in 1 .. n - 1 /\ n - 1 \in Nat
    <2>1. ASSUME NEW j \in 1 .. n, j # k PROVE \E i \in 1 .. n - 1 : from[i] = j
      <3>1. CASE j < k
        <4>1. j \in 1 .. n - 1 /\ from[j] = j BY <1>1, <3>1
        <4> QED BY <4>1
      <3>2. CASE ~(j < k)
        <4>1. j - 1 \in 1 .. n - 1 /\ ~(j - 1 < k) /\ (j - 1) + 1 = j BY <1>1, <2>1, <3>2
        <4>2. from[j - 1] = j BY <4>1
        <4> QED BY <4>1, <4>2
      <3> QED BY <3>1, <3>2
    <2> QED BY <1>1, <2>1
  <1>4. \A i \in 1 .. n - 1 : kept[i] = documents[from[i]]
    BY <1>2
  <1> HIDE DEF from
  <1>5. kept \in [1 .. n - 1 -> Document]
    BY <1>1, <1>2
  <1>6. /\ docs \in [1 .. n - 1 -> Document]
        /\ \A i \in 1 .. n - 1 : /\ docs[i].id = documents[from[i]].id
                                /\ SameOnDisk(docs[i], documents[from[i]])
        /\ ~documents[k].primary => docs = kept
        /\ documents[k].primary => docs[1].primary
    <2>1. CASE documents[k].primary
      <3>1. docs = [kept EXCEPT ![1] = [kept[1] EXCEPT !.primary = TRUE]]
        BY <2>1 DEF kept
      <3> DEFINE first == [kept[1] EXCEPT !.primary = TRUE]
      <3>2. /\ first \in Document /\ first.id = kept[1].id
            /\ first.primary /\ SameOnDisk(first, kept[1])
        BY <1>3, <1>5, MadePrimary
      <3> HIDE DEF first
      <3>3. \A i \in 1 .. n - 1 : docs[i].id = kept[i].id /\ SameOnDisk(docs[i], kept[i])
        BY <1>5, <3>1, <3>2 DEF SameOnDisk, first
      <3>4. docs[1] = first
        BY <1>3, <1>5, <3>1 DEF first
      <3>5. docs \in [1 .. n - 1 -> Document]
        BY <1>5, <3>1, <3>2 DEF first
      <3> QED BY <1>4, <2>1, <3>2, <3>3, <3>4, <3>5
    <2>2. CASE ~documents[k].primary
      <3>1. docs = kept
        BY <2>2 DEF kept
      <3> QED BY <1>4, <1>5, <2>2, <3>1 DEF SameOnDisk
    <2> QED BY <2>1, <2>2
  <1>7. docs \in Seq(Document) /\ Len(docs) = n - 1 /\ DOMAIN docs = 1 .. n - 1
    <2> DEFINE last == n - 1
    <2>1. last \in Nat /\ docs \in [1 .. last -> Document]
      BY <1>3, <1>6
    <2> HIDE DEF last
    <2>2. docs \in Seq(Document) /\ Len(docs) = last /\ DOMAIN docs = 1 .. last
      BY <2>1, FunctionIsSequence, ZenonT(60)
    <2> QED BY <2>2 DEF last
  <1>8. Bundle(docs)
    BY <1>7 DEF Bundle
  <1>9. IdsOf(docs) = IdsOf(documents) \ {documents[k].id}
    <2>1. ASSUME NEW d \in IdsOf(docs) PROVE d \in IdsOf(documents) \ {documents[k].id}
      <3>1. PICK i \in 1 .. n - 1 : docs[i].id = d
        BY <1>7 DEF IdsOf
      <3>2. d = documents[from[i]].id /\ from[i] \in 1 .. n /\ from[i] # k
        BY <1>3, <1>6, <3>1
      <3> QED BY <1>1, <3>2, BundleFacts DEF IdsOf
    <2>2. ASSUME NEW d \in IdsOf(documents) \ {documents[k].id} PROVE d \in IdsOf(docs)
      <3>1. PICK j \in 1 .. n : documents[j].id = d /\ j # k
        BY <1>1 DEF IdsOf
      <3>2. PICK i \in 1 .. n - 1 : from[i] = j
        BY <1>3, <3>1
      <3> QED BY <1>6, <1>7, <3>1, <3>2 DEF IdsOf
    <2> QED BY <2>1, <2>2
  <1>10. documents[k].primary => PrimaryOf(docs) = docs[1]
    BY <1>3, <1>6, <1>7, <1>8, PrimaryAt
  <1>11. ASSUME ~documents[k].primary PROVE PrimaryOf(docs) = PrimaryOf(documents)
    <2>1. PICK j \in DOMAIN documents : documents[j] = PrimaryOf(documents) /\ documents[j].primary
      BY PrimaryIsIn
    <2>2. PICK i \in 1 .. n - 1 : from[i] = j
      BY <1>1, <1>3, <1>11, <2>1
    <2>3. docs[i] = documents[j]
      BY <1>4, <1>6, <1>11, <2>2
    <2> QED BY <1>7, <1>8, <2>1, <2>3, PrimaryAt
  <1>12. \A i \in DOMAIN docs : Comes(docs[i])
    BY <1>1, <1>3, <1>6, <1>7 DEF Comes
  <1>13. Len(kept) = n - 1
    BY <1>2
  <1> QED BY <1>7, <1>8, <1>9, <1>10, <1>11, <1>12, <1>13 DEF n, kept

LEMMA ReorderedIs ==
  ASSUME Bundle(documents), NEW order \in Orders(documents),
         NEW docs, docs = [i \in DOMAIN documents |-> documents[order[i]]], ValidDocuments(docs)
  PROVE  /\ Bundle(docs)
         /\ IdsOf(docs) = IdsOf(documents)
         /\ PrimaryOf(docs) = PrimaryOf(documents)
         /\ \A i \in DOMAIN docs : Comes(docs[i])
  <1> DEFINE n == Len(documents)
  <1>1. /\ DOMAIN documents = 1 .. n /\ n \in Nat
        /\ \A i \in 1 .. n : documents[i] \in Document
    BY BundleFacts
  <1> HIDE DEF n
  <1>2. /\ \A i \in 1 .. n : order[i] \in 1 .. n
        /\ \A j \in 1 .. n : \E i \in 1 .. n : order[i] = j
        /\ \A i \in 1 .. n : docs[i] = documents[order[i]]
    BY <1>1 DEF Orders
  <1>3. docs \in [1 .. n -> Document]
    BY <1>1, <1>2
  <1>4. docs \in Seq(Document) /\ DOMAIN docs = 1 .. n
    BY <1>1, <1>3, FunctionIsSequence, Zenon
  <1>5. Bundle(docs)
    BY <1>4 DEF Bundle
  <1>6. IdsOf(docs) = IdsOf(documents)
    <2>1. ASSUME NEW d \in IdsOf(docs) PROVE d \in IdsOf(documents)
      <3>1. PICK i \in DOMAIN docs : docs[i].id = d
        BY DEF IdsOf
      <3>2. order[i] \in DOMAIN documents /\ documents[order[i]].id = d
        BY <1>1, <1>2, <1>4, <3>1
      <3> QED BY <3>2 DEF IdsOf
    <2>2. ASSUME NEW d \in IdsOf(documents) PROVE d \in IdsOf(docs)
      <3>1. PICK j \in DOMAIN documents : documents[j].id = d
        BY DEF IdsOf
      <3>2. PICK i \in 1 .. n : order[i] = j
        BY <1>1, <1>2, <3>1
      <3>3. i \in DOMAIN docs /\ docs[i].id = d
        BY <1>2, <1>4, <3>1, <3>2
      <3> QED BY <3>3 DEF IdsOf
    <2> QED BY <2>1, <2>2
  <1>7. PrimaryOf(docs) = PrimaryOf(documents)
    <2>1. PICK j \in 1 .. n : documents[j] = PrimaryOf(documents) /\ documents[j].primary
      BY <1>1, PrimaryIsIn
    <2>2. PICK i \in 1 .. n : docs[i] = documents[j]
      BY <1>2
    <2> QED BY <1>4, <1>5, <2>1, <2>2, PrimaryAt
  <1>8. \A i \in DOMAIN docs : Comes(docs[i])
    BY <1>1, <1>2, <1>4 DEF Comes, SameOnDisk
  <1> QED BY <1>5, <1>6, <1>7, <1>8

(* What set_document_identity makes of its document, and of the others. *)
Identified(doc, name, makePrimary) == [doc EXCEPT !.name = name, !.primary = @ \/ makePrimary]
Bystander(doc, makePrimary)        == [doc EXCEPT !.primary = @ /\ ~makePrimary]

LEMMA IdentifiedDocument ==
  ASSUME NEW doc \in Document, NEW name \in Names, NEW makePrimary \in BOOLEAN
  PROVE  /\ Identified(doc, name, makePrimary) \in Document
         /\ Identified(doc, name, makePrimary).id = doc.id
         /\ SameOnDisk(Identified(doc, name, makePrimary), doc)
         /\ Identified(doc, name, makePrimary).primary <=> doc.primary \/ makePrimary
  <1>1. doc.primary \in BOOLEAN
    BY DEF Document
  <1>2. (doc.primary \/ makePrimary) \in BOOLEAN
    BY Zenon
  <1> QED BY <1>1, <1>2 DEF Document, SameOnDisk, Identified

LEMMA BystanderDocument ==
  ASSUME NEW doc \in Document, NEW makePrimary \in BOOLEAN
  PROVE  /\ Bystander(doc, makePrimary) \in Document
         /\ Bystander(doc, makePrimary).id = doc.id
         /\ SameOnDisk(Bystander(doc, makePrimary), doc)
         /\ Bystander(doc, makePrimary).primary <=> doc.primary /\ ~makePrimary
  <1>1. doc.primary \in BOOLEAN
    BY DEF Document
  <1>2. (doc.primary /\ ~makePrimary) \in BOOLEAN
    BY Zenon
  <1> QED BY <1>1, <1>2 DEF Document, SameOnDisk, Bystander

LEMMA IdentifiedIs ==
  ASSUME Bundle(documents), NEW d \in IdsOf(documents), NEW name \in Names,
         NEW makePrimary \in BOOLEAN, NEW new, NEW docs,
         new = Identified(Doc(d), name, makePrimary),
         docs = [i \in DOMAIN documents |->
                   IF documents[i].id = d THEN new ELSE Bystander(documents[i], makePrimary)],
         ValidDocuments(docs)
  PROVE  /\ Bundle(docs)
         /\ IdsOf(docs) = IdsOf(documents)
         /\ makePrimary => PrimaryOf(docs) = new
         /\ ~makePrimary => PrimaryOf(docs).path = PrimaryOf(documents).path
         /\ \A i \in DOMAIN docs : Comes(docs[i])
  <1> DEFINE n == Len(documents)
             other(i) == Bystander(documents[i], makePrimary)
  <1>1. /\ DOMAIN documents = 1 .. n /\ n \in Nat
        /\ \A i \in 1 .. n : documents[i] \in Document
    BY BundleFacts
  <1> HIDE DEF n
  <1>2. /\ new \in Document /\ new.id = Doc(d).id /\ SameOnDisk(new, Doc(d))
        /\ new.primary <=> Doc(d).primary \/ makePrimary
    <2>1. Doc(d) \in Document
      BY DocumentIsIn DEF Doc
    <2> QED BY <2>1, IdentifiedDocument
  <1>3. ASSUME NEW i \in 1 .. n
        PROVE  /\ other(i) \in Document /\ other(i).id = documents[i].id
               /\ SameOnDisk(other(i), documents[i])
               /\ other(i).primary <=> documents[i].primary /\ ~makePrimary
    BY <1>1, BystanderDocument
  <1>4. docs = [i \in 1 .. n |-> IF documents[i].id = d THEN new ELSE other(i)]
    BY <1>1
  <1> HIDE DEF other
  <1>5. ASSUME NEW i \in 1 .. n
        PROVE  /\ docs[i].id = documents[i].id /\ SameOnDisk(docs[i], documents[i])
               /\ docs[i] \in Document
               /\ ~makePrimary => (docs[i].primary <=> documents[i].primary)
    <2>1. CASE documents[i].id = d
      <3>1. Doc(d) = documents[i]
        BY <1>1, <2>1, DocumentAt DEF Doc
      <3> QED BY <1>2, <1>4, <2>1, <3>1
    <2>2. CASE documents[i].id # d
      BY <1>3, <1>4, <2>2
    <2> QED BY <2>1, <2>2
  <1>6. docs \in [1 .. n -> Document]
    BY <1>4, <1>5
  <1>7. docs \in Seq(Document) /\ DOMAIN docs = 1 .. n
    BY <1>1, <1>6, FunctionIsSequence, Zenon
  <1>8. Bundle(docs)
    BY <1>7 DEF Bundle
  <1>9. IdsOf(docs) = IdsOf(documents)
    BY <1>1, <1>5, <1>7, SameIds
  <1>10. ASSUME makePrimary PROVE PrimaryOf(docs) = new
    <2>1. PICK i \in 1 .. n : documents[i].id = d
      BY <1>1 DEF IdsOf
    <2>2. docs[i] = new /\ i \in DOMAIN docs /\ new.primary
      BY <1>2, <1>4, <1>7, <1>10, <2>1
    <2> QED BY <1>8, <2>2, PrimaryAt
  <1>11. ASSUME ~makePrimary PROVE PrimaryOf(docs).path = PrimaryOf(documents).path
    <2>1. PICK i \in 1 .. n : documents[i] = PrimaryOf(documents) /\ documents[i].primary
      BY <1>1, PrimaryIsIn
    <2>2. PrimaryOf(docs) = docs[i]
      BY <1>5, <1>7, <1>8, <1>11, <2>1, PrimaryAt
    <2> QED BY <1>5, <2>1, <2>2 DEF SameOnDisk
  <1>12. \A i \in DOMAIN docs : Comes(docs[i])
    BY <1>1, <1>5, <1>7 DEF Comes
  <1> QED BY <1>8, <1>9, <1>10, <1>11, <1>12

-----------------------------------------------------------------------------
(* The common end of the operations. *)

(* Mutate keeps the mirrors and the types, whatever valid bundle it is      *)
(* given, and a bundle the converter would see as another retires the C.    *)
LEMMA MutateKeeps ==
  ASSUME IInv, NEW docs, NEW act, NEW reread, Mutate(docs, act, reread),
         Bundle(docs), act \in IdsOf(docs), UNCHANGED <<revision, result>>
  PROVE  /\ documents' = docs /\ active' = act
         /\ sourceText' \in Contents
         /\ sourceFingerprint' \in Contents \cup {NoText}
         /\ generation' \in Generations
         /\ authenticated' \in BOOLEAN
         /\ state' \in {"idle", "stale", "converting", "converted"}
         /\ RevisionOK' /\ MirrorsAgree'
         /\ BundleOf(documents') # BundleOf(documents) => ~CanSaveC'
  <1> DEFINE changed == reread \/ Semantics(docs) # Semantics(documents)
  <1>1. /\ documents' = docs /\ active' = act
        /\ sourceText' = DocumentOf(docs, act).text
        /\ changed => /\ sourceFingerprint' = NoText
                      /\ authenticated' = FALSE
                      /\ state' \in {"idle", "stale"}
                      /\ generation' = generation + 1 /\ generation < MaxGeneration
        /\ ~changed => /\ sourceFingerprint' = IF act \in DOMAIN revision THEN revision[act]
                                                ELSE sourceFingerprint
                       /\ authenticated' = authenticated
                       /\ UNCHANGED <<generation, state>>
    BY DEF Mutate, Mirrors
  <1>2. ~changed => Semantics(docs) = Semantics(documents)
    OBVIOUS
  <1> HIDE DEF changed
  <1>3. /\ Bundle(documents) /\ RevisionOK /\ MirrorsAgree
        /\ sourceFingerprint \in Contents \cup {NoText}
        /\ generation \in Generations
        /\ state \in {"idle", "stale", "converting", "converted"}
    BY DEF IInv, TypeOK, Bundle
  <1>4. authenticated \in BOOLEAN
    BY DEF IInv, TypeOK
  <1>5. DocumentOf(docs, act).text \in Contents
    BY DocumentIsIn DEF Document
  <1>6. sourceFingerprint' \in Contents \cup {NoText}
    BY <1>1, <1>3 DEF RevisionOK
  <1>7. generation' \in Generations
    <2>1. CASE changed
      BY <1>1, <1>3, <2>1, LimitAssumption DEF Generations, LimitAssumption
    <2>2. CASE ~changed
      BY <1>1, <1>3, <2>2
    <2> QED BY <2>1, <2>2
  <1>8. authenticated' \in BOOLEAN
    BY <1>1, <1>4, Zenon
  <1>9. state' \in {"idle", "stale", "converting", "converted"}
    BY <1>1, <1>3
  <1>10. RevisionOK'
    BY <1>3 DEF RevisionOK
  <1>11. MirrorsAgree'
    <2>1. sourceText' = Doc(active)'.text
      BY <1>1 DEF Doc
    <2>2. ASSUME authenticated'
          PROVE  /\ revision' = TextsOf(documents')
                 /\ sourceFingerprint' = Doc(active)'.text
      <3>1. ~changed /\ authenticated
        BY <1>1, <2>2
      <3>2. /\ TextsOf(docs) = TextsOf(documents) /\ IdsOf(docs) = IdsOf(documents)
        BY <1>2, <1>3, <3>1, SameSemantics
      <3>3. revision = TextsOf(docs)
        BY <1>3, <3>1, <3>2 DEF MirrorsAgree
      <3>4. act \in DOMAIN revision /\ revision[act] = DocumentOf(docs, act).text
        BY <3>3, TextsAre
      <3> QED BY <1>1, <3>1, <3>3, <3>4 DEF Doc
    <2> QED BY <2>1, <2>2 DEF MirrorsAgree
  <1>12. BundleOf(documents') # BundleOf(documents) => ~CanSaveC'
    <2>1. CASE changed
      BY <1>1, <2>1 DEF CanSaveC
    <2>2. CASE ~changed
      BY <1>1, <1>2, <1>3, <2>2, SameSemantics
    <2> QED BY <2>1, <2>2
  <1> QED BY <1>1, <1>5, <1>6, <1>7, <1>8, <1>9, <1>10, <1>11, <1>12

(* The default link is that of the primary document, if it was before. *)
Follows == LinkFollowsPrimary => LinkFollowsPrimary'

LinkOK ==
    /\ linkedC' \in CFiles \cup {NoPath}
    /\ linkedDefault' \in BOOLEAN
    /\ Follows

LEMMA DefaultIsC ==
  ASSUME NEW doc, doc.path \in Paths \cup {NoPath}
  PROVE  DefaultOf(doc) \in CFiles \cup {NoPath}
  BY PathAssumption DEF PathAssumption, DefaultOf

LEMMA KeepLinkKeeps ==
  ASSUME IInv, KeepLink, PrimaryOf(documents').path = PrimaryOf(documents).path
  PROVE  LinkOK
  <1>1. linkedC' = linkedC /\ linkedDefault' = linkedDefault
    BY DEF KeepLink, linkVars
  <1>2. linkedDefault \in BOOLEAN
    BY DEF IInv, TypeOK
  <1>3. DefaultOf(PrimaryOf(documents')) = DefaultOf(PrimaryOf(documents))
    BY DEF DefaultOf
  <1>4. linkedC' \in CFiles \cup {NoPath}
    BY <1>1 DEF IInv, TypeOK
  <1>5. Follows
    BY <1>1, <1>3 DEF Follows, LinkFollowsPrimary
  <1>6. linkedDefault' \in BOOLEAN
    BY <1>1, <1>2, Zenon
  <1> QED BY <1>4, <1>5, <1>6 DEF LinkOK

(* The link follows when the operation names the document that is primary   *)
(* afterwards, and stays when the primary document keeps its path.          *)
LEMMA FollowKeeps ==
  ASSUME IInv, NEW doc, NEW becomes, Follow(doc, becomes),
         doc.path \in Paths \cup {NoPath},
         becomes => PrimaryOf(documents').path = doc.path,
         ~becomes => PrimaryOf(documents').path = PrimaryOf(documents).path
  PROVE  LinkOK
  <1>1. CASE becomes /\ linkedDefault
    <2>1. linkedC' = DefaultOf(doc) /\ linkedDefault' = TRUE
      BY <1>1 DEF Follow
    <2>2. linkedC' \in CFiles \cup {NoPath}
      BY <2>1, DefaultIsC
    <2>3. Follows
      BY <1>1, <2>1 DEF Follows, LinkFollowsPrimary, DefaultOf
    <2>4. linkedDefault' \in BOOLEAN
      BY <2>1
    <2> QED BY <2>2, <2>3, <2>4 DEF LinkOK
  <1>2. CASE becomes /\ ~linkedDefault
    <2>1. linkedC' = linkedC /\ linkedDefault' = linkedDefault
      BY <1>2 DEF Follow, KeepLink, linkVars
    <2>2. linkedDefault' \in BOOLEAN
      BY <2>1, Zenon DEF IInv, TypeOK
    <2>3. linkedC' \in CFiles \cup {NoPath} /\ Follows
      BY <1>2, <2>1 DEF IInv, TypeOK, Follows, LinkFollowsPrimary
    <2> QED BY <2>2, <2>3 DEF LinkOK
  <1>3. CASE ~becomes
    BY <1>3, KeepLinkKeeps DEF Follow
  <1> QED BY <1>1, <1>2, <1>3

Retires == BundleOf(documents') # BundleOf(documents) => ~CanSaveC'

(* What an operation on the bundle still has to answer for. *)
LEMMA OperationKeeps ==
  ASSUME IInv, NEW docs, NEW act, NEW reread, Mutate(docs, act, reread),
         Bundle(docs), act \in IdsOf(docs), UNCHANGED <<revision, result>>,
         LinkOK, documentSequence' \in Ids,
         \A d \in IdsOf(docs) : d <= documentSequence',
         files' \in [Paths \cup CFiles -> Contents \cup {NoText}]
  PROVE  IInv' /\ Retires /\ Follows /\ documents' = docs
  <1>1. /\ documents' = docs /\ active' = act
        /\ sourceText' \in Contents
        /\ sourceFingerprint' \in Contents \cup {NoText}
        /\ generation' \in Generations
        /\ authenticated' \in BOOLEAN
        /\ state' \in {"idle", "stale", "converting", "converted"}
        /\ RevisionOK' /\ MirrorsAgree' /\ Retires
    BY MutateKeeps, Zenon DEF Retires
  <1>2. result' \in Generations \cup {NoResult}
    BY DEF IInv, TypeOK
  <1>3. documents' \in Seq(Document) /\ ValidDocuments(documents')
    BY <1>1 DEF Bundle
  <1>4. /\ active' \in IdsOf(documents')
        /\ \A d \in IdsOf(documents') : d <= documentSequence'
    BY <1>1
  <1>5. TypeOK'
    BY <1>1, <1>2, <1>3, <1>4, Zenon DEF TypeOK, LinkOK
  <1> QED BY <1>1, <1>5 DEF IInv, LinkOK

(* Operations that do not give out an identifier or touch a file. *)
LEMMA PlainOperationKeeps ==
  ASSUME IInv, NEW docs, NEW act, NEW reread, Mutate(docs, act, reread),
         Bundle(docs), act \in IdsOf(docs), IdsOf(docs) \subseteq IdsOf(documents),
         LinkOK, UNCHANGED <<documentSequence, revision, result, files>>
  PROVE  IInv' /\ Retires /\ Follows /\ documents' = docs
  <1>1. /\ documentSequence' \in Ids
        /\ \A d \in IdsOf(docs) : d <= documentSequence'
        /\ files' \in [Paths \cup CFiles -> Contents \cup {NoText}]
        /\ UNCHANGED <<revision, result>>
    BY DEF IInv, TypeOK
  <1> QED BY <1>1, OperationKeeps

-----------------------------------------------------------------------------
(* The operations on the bundle. *)

LEMMA UpdateDocumentKeeps ==
  ASSUME IInv, NEW d \in Ids, NEW t \in Contents, UpdateDocument(d, t)
  PROVE  /\ IInv' /\ Retires /\ Follows
         /\ \A i \in DOMAIN documents' : documents'[i].dirty \/ Comes(documents'[i])
  <1> DEFINE new == [Doc(d) EXCEPT !.text = t, !.dirty = TRUE]
  <1>1. /\ d \in IdsOf(documents)
        /\ Mutate(Replaced(new), active, FALSE)
        /\ KeepLink
        /\ UNCHANGED <<documentSequence, revision, result, files>>
    BY DEF UpdateDocument
  <1>2. Bundle(documents) /\ active \in IdsOf(documents)
    BY DEF IInv, TypeOK, Bundle
  <1>3. Doc(d) \in Document /\ Doc(d).id = d
    BY <1>1, <1>2, DocumentIsIn DEF Doc
  <1>4. /\ new \in Document /\ new.id = d /\ new.primary = Doc(d).primary
        /\ new.path = Doc(d).path /\ new.dirty
    BY <1>3 DEF Document
  <1> HIDE DEF new
  <1>5. ValidDocuments(Replaced(new)) /\ documents' = Replaced(new)
    BY <1>1 DEF Mutate
  <1>6. /\ Bundle(Replaced(new))
        /\ IdsOf(Replaced(new)) = IdsOf(documents)
        /\ new.primary => PrimaryOf(Replaced(new)) = new
        /\ ~new.primary /\ ~Doc(d).primary => PrimaryOf(Replaced(new)) = PrimaryOf(documents)
        /\ \A i \in DOMAIN Replaced(new) : Replaced(new)[i] = new \/ Comes(Replaced(new)[i])
    BY <1>1, <1>2, <1>4, <1>5, ReplacedIs
  <1>7. new.primary => PrimaryOf(documents) = Doc(d)
    <2>1. PICK i \in DOMAIN documents : documents[i] = Doc(d)
      BY <1>1, <1>2, DocumentIsIn DEF Doc
    <2> QED BY <1>2, <1>4, <2>1, PrimaryAt
  <1>8. PrimaryOf(documents').path = PrimaryOf(documents).path
    BY <1>4, <1>5, <1>6, <1>7
  <1>9. LinkOK
    BY <1>1, <1>8, KeepLinkKeeps
  <1>10. IInv' /\ Retires /\ Follows
    BY <1>1, <1>2, <1>6, <1>9, PlainOperationKeeps
  <1> QED BY <1>4, <1>5, <1>6, <1>10

LEMMA AddedKeeps ==
  ASSUME IInv, NEW new \in Document, new.id = NextDocumentId, NextDocumentId <= MaxSequence,
         NEW act \in {active, new.id}, Mutate(Added(new), act, FALSE), Follow(new, new.primary),
         documentSequence' = NextDocumentId, UNCHANGED <<revision, result, files>>
  PROVE  /\ IInv' /\ Retires /\ Follows
         /\ \A i \in DOMAIN documents' : documents'[i] = new \/ Comes(documents'[i])
  <1>1. /\ Bundle(documents) /\ active \in IdsOf(documents)
        /\ documentSequence \in Ids
        /\ \A d \in IdsOf(documents) : d \in Int /\ d <= documentSequence
    <2>1. Bundle(documents)
      BY DEF IInv, TypeOK, Bundle
    <2>2. \A d \in IdsOf(documents) : d \in Ids
      BY <2>1, DocumentIsIn DEF Document
    <2> QED BY <2>1, <2>2 DEF IInv, TypeOK, Ids
  <1>2. NextDocumentId \in Ids
    BY <1>1, LimitAssumption DEF Ids, NextDocumentId, LimitAssumption
  <1>3. ValidDocuments(Added(new)) /\ documents' = Added(new)
    BY DEF Mutate
  <1>4. /\ Bundle(Added(new))
        /\ IdsOf(Added(new)) = IdsOf(documents) \cup {new.id}
        /\ new.primary => PrimaryOf(Added(new)) = new
        /\ ~new.primary => PrimaryOf(Added(new)) = PrimaryOf(documents)
        /\ \A i \in DOMAIN Added(new) : Added(new)[i] = new \/ Comes(Added(new)[i])
    BY <1>1, <1>3, AddedIs
  <1>5. LinkOK
    <2>1. /\ new.path \in Paths \cup {NoPath}
          /\ new.primary => PrimaryOf(documents').path = new.path
          /\ ~new.primary => PrimaryOf(documents').path = PrimaryOf(documents).path
      BY <1>3, <1>4 DEF Document
    <2> QED BY <2>1, FollowKeeps
  <1>6. \A d \in IdsOf(Added(new)) : d <= documentSequence'
    BY <1>1, <1>4 DEF NextDocumentId, Ids
  <1>7. /\ act \in IdsOf(Added(new))
        /\ documentSequence' \in Ids
        /\ files' \in [Paths \cup CFiles -> Contents \cup {NoText}]
    BY <1>1, <1>2, <1>4 DEF IInv, TypeOK
  <1>8. IInv' /\ Retires /\ Follows
    BY <1>4, <1>5, <1>6, <1>7, OperationKeeps
  <1> QED BY <1>3, <1>4, <1>8

LEMMA AddNewKeeps ==
  ASSUME IInv, NEW name \in Names, NEW text \in Contents, NEW path \in Paths \cup {NoPath},
         NEW makeActive \in BOOLEAN, NEW isPrimary \in BOOLEAN,
         AddNew(name, text, path, makeActive, isPrimary)
  PROVE  /\ IInv' /\ Retires /\ Follows
         /\ \A i \in DOMAIN documents' :
               \/ Comes(documents'[i])
               \/ /\ documents'[i].id = NextDocumentId
                  /\ documents'[i].text = text /\ documents'[i].path = path
                  /\ path = NoPath /\ text # Blank => documents'[i].dirty
  <1> DEFINE new == [id |-> NextDocumentId, name |-> name, text |-> text, path |-> path,
                     primary |-> isPrimary, dirty |-> path = NoPath /\ text # Blank]
             act == IF makeActive THEN new.id ELSE active
  <1>1. /\ NextDocumentId <= MaxSequence
        /\ Mutate(Added(new), act, FALSE)
        /\ Follow(new, isPrimary)
        /\ documentSequence' = NextDocumentId
        /\ UNCHANGED <<revision, result, files>>
    BY DEF AddNew, AddDocument
  <1>2. NextDocumentId \in Ids /\ (path = NoPath /\ text # Blank) \in BOOLEAN
    <2>1. NextDocumentId \in Ids
      BY <1>1, LimitAssumption DEF IInv, TypeOK, Ids, NextDocumentId, LimitAssumption
    <2>2. (path = NoPath /\ text # Blank) \in BOOLEAN
      BY Zenon
    <2> QED BY <2>1, <2>2
  <1>3. /\ new \in Document /\ new.id = NextDocumentId /\ new.primary = isPrimary
        /\ new.path = path /\ new.text = text
        /\ path = NoPath /\ text # Blank => new.dirty
    BY <1>2 DEF Document
  <1>4. act \in {active, new.id}
    OBVIOUS
  <1>5. Follow(new, new.primary)
    BY <1>1, <1>3
  <1> HIDE DEF new, act
  <1>6. /\ IInv' /\ Retires /\ Follows
        /\ \A i \in DOMAIN documents' : documents'[i] = new \/ Comes(documents'[i])
    BY <1>1, <1>3, <1>4, <1>5, AddedKeeps
  <1> QED BY <1>3, <1>6

LEMMA AddFileKeeps ==
  ASSUME IInv, NEW name \in Names, NEW text \in Contents, NEW path \in Paths,
         NEW makeActive \in BOOLEAN, NEW isPrimary \in BOOLEAN,
         AddDocument(name, text, path, makeActive, isPrimary, FALSE), UNCHANGED files
  PROVE  /\ IInv' /\ Retires /\ Follows
         /\ \A i \in DOMAIN documents' :
               \/ Comes(documents'[i])
               \/ documents'[i].text = text /\ documents'[i].path = path
  <1> DEFINE new == [id |-> NextDocumentId, name |-> name, text |-> text, path |-> path,
                     primary |-> isPrimary, dirty |-> FALSE]
             act == IF makeActive THEN new.id ELSE active
  <1>1. /\ NextDocumentId <= MaxSequence
        /\ Mutate(Added(new), act, FALSE)
        /\ Follow(new, isPrimary)
        /\ documentSequence' = NextDocumentId
        /\ UNCHANGED <<revision, result, files>>
    BY DEF AddDocument
  <1>2. NextDocumentId \in Ids
    BY <1>1, LimitAssumption DEF IInv, TypeOK, Ids, NextDocumentId, LimitAssumption
  <1>3. /\ new \in Document /\ new.id = NextDocumentId /\ new.primary = isPrimary
        /\ new.path = path /\ new.text = text
    BY <1>2 DEF Document
  <1>4. act \in {active, new.id}
    OBVIOUS
  <1>5. Follow(new, new.primary)
    BY <1>1, <1>3
  <1> HIDE DEF new, act
  <1>6. /\ IInv' /\ Retires /\ Follows
        /\ \A i \in DOMAIN documents' : documents'[i] = new \/ Comes(documents'[i])
    BY <1>1, <1>3, <1>4, <1>5, AddedKeeps
  <1> QED BY <1>3, <1>6

LEMMA RemoveDocumentKeeps ==
  ASSUME IInv, NEW d \in Ids, RemoveDocument(d)
  PROVE  /\ IInv' /\ Retires /\ Follows
         /\ \A i \in DOMAIN documents' : Comes(documents'[i])
  <1> DEFINE k    == CHOOSE i \in DOMAIN documents : documents[i].id = d
             kept == RemoveAt(documents, k)
             docs == IF Doc(d).primary THEN [kept EXCEPT ![1].primary = TRUE] ELSE kept
             next == IF k < Len(kept) THEN k ELSE Len(kept)
             act  == IF active = d THEN docs[next].id ELSE active
  <1>1. /\ Len(documents) > 1 /\ d \in IdsOf(documents)
        /\ Mutate(docs, act, FALSE)
        /\ Follow(docs[1], Doc(d).primary)
        /\ UNCHANGED <<documentSequence, revision, result, files>>
    BY DEF RemoveDocument
  <1>2. Bundle(documents) /\ active \in IdsOf(documents)
    BY DEF IInv, TypeOK, Bundle
  <1>3. k \in DOMAIN documents /\ documents[k].id = d
    BY <1>1 DEF IdsOf
  <1>4. Doc(d) = documents[k]
    BY <1>2, <1>3, DocumentAt DEF Doc
  <1>5. docs = IF documents[k].primary THEN [RemoveAt(documents, k) EXCEPT ![1].primary = TRUE]
               ELSE RemoveAt(documents, k)
    BY <1>4
  <1>6. act = active \/ (active = d /\ act = docs[next].id)
    OBVIOUS
  <1>7. active # d => act = active
    OBVIOUS
  <1>8. (next = k /\ k < Len(kept)) \/ (next = Len(kept) /\ ~(k < Len(kept)))
    OBVIOUS
  <1> HIDE DEF k, docs, act, next
  <1>9. ValidDocuments(docs) /\ documents' = docs
    BY <1>1 DEF Mutate
  <1>10. /\ Bundle(docs)
         /\ Len(docs) = Len(documents) - 1
         /\ Len(kept) = Len(documents) - 1
         /\ IdsOf(docs) = IdsOf(documents) \ {documents[k].id}
         /\ documents[k].primary => PrimaryOf(docs) = docs[1]
         /\ ~documents[k].primary => PrimaryOf(docs) = PrimaryOf(documents)
         /\ \A i \in DOMAIN docs : Comes(docs[i])
    BY <1>1, <1>2, <1>3, <1>5, <1>9, RemovedIs
  <1>11. /\ DOMAIN docs = 1 .. Len(docs) /\ Len(docs) \in Nat \ {0}
         /\ \A i \in DOMAIN docs : docs[i] \in Document
         /\ DOMAIN documents = 1 .. Len(documents) /\ Len(documents) \in Nat
    BY <1>2, <1>10, BundleFacts
  <1> HIDE DEF kept
  <1>12. next \in DOMAIN docs /\ 1 \in DOMAIN docs
    BY <1>3, <1>8, <1>10, <1>11
  <1>13. act \in IdsOf(docs)
    <2>1. CASE active = d /\ act = docs[next].id
      BY <1>12, <2>1 DEF IdsOf
    <2>2. CASE active # d
      BY <1>2, <1>3, <1>7, <1>10, <2>2
    <2>3. CASE active = d /\ act # docs[next].id
      BY <1>6, <2>3, <1>2, <1>1 DEF act
    <2> QED BY <2>1, <2>2, <2>3
  <1>14. LinkOK
    <2>1. docs[1].path \in Paths \cup {NoPath}
      BY <1>11, <1>12 DEF Document
    <2>2. /\ Doc(d).primary => PrimaryOf(documents').path = docs[1].path
          /\ ~Doc(d).primary => PrimaryOf(documents').path = PrimaryOf(documents).path
      BY <1>4, <1>9, <1>10
    <2> QED BY <1>1, <2>1, <2>2, FollowKeeps
  <1>15. IInv' /\ Retires /\ Follows
    BY <1>1, <1>10, <1>13, <1>14, PlainOperationKeeps
  <1> QED BY <1>9, <1>10, <1>15

LEMMA ReorderDocumentsKeeps ==
  ASSUME IInv, NEW order \in Orders(documents), ReorderDocuments(order)
  PROVE  /\ IInv' /\ Retires /\ Follows
         /\ \A i \in DOMAIN documents' : Comes(documents'[i])
  <1> DEFINE docs == [i \in DOMAIN documents |-> documents[order[i]]]
  <1>1. /\ Mutate(docs, active, FALSE)
        /\ KeepLink
        /\ UNCHANGED <<documentSequence, revision, result, files>>
    BY DEF ReorderDocuments
  <1>2. Bundle(documents) /\ active \in IdsOf(documents)
    BY DEF IInv, TypeOK, Bundle
  <1>3. ValidDocuments(docs) /\ documents' = docs
    BY <1>1 DEF Mutate
  <1>4. /\ Bundle(docs) /\ IdsOf(docs) = IdsOf(documents)
        /\ PrimaryOf(docs) = PrimaryOf(documents)
        /\ \A i \in DOMAIN docs : Comes(docs[i])
    BY <1>2, <1>3, ReorderedIs
  <1> HIDE DEF docs
  <1>5. LinkOK
    BY <1>1, <1>3, <1>4, KeepLinkKeeps
  <1>6. IInv' /\ Retires /\ Follows
    BY <1>1, <1>2, <1>4, <1>5, PlainOperationKeeps
  <1> QED BY <1>3, <1>4, <1>6

LEMMA SetDocumentIdentityKeeps ==
  ASSUME IInv, NEW d \in Ids, NEW name \in Names, NEW makePrimary \in BOOLEAN,
         SetDocumentIdentity(d, name, makePrimary)
  PROVE  /\ IInv' /\ Retires /\ Follows
         /\ \A i \in DOMAIN documents' : Comes(documents'[i])
  <1> DEFINE new  == Identified(Doc(d), name, makePrimary)
             docs == [i \in DOMAIN documents |->
                        IF documents[i].id = d THEN new ELSE Bystander(documents[i], makePrimary)]
  <1>1. /\ d \in IdsOf(documents)
        /\ Mutate(docs, active, FALSE)
        /\ Follow(new, makePrimary)
        /\ UNCHANGED <<documentSequence, revision, result, files>>
    BY DEF SetDocumentIdentity, Identified, Bystander
  <1>2. Bundle(documents) /\ active \in IdsOf(documents)
    BY DEF IInv, TypeOK, Bundle
  <1>3. ValidDocuments(docs) /\ documents' = docs
    BY <1>1 DEF Mutate
  <1>4. /\ Bundle(docs) /\ IdsOf(docs) = IdsOf(documents)
        /\ makePrimary => PrimaryOf(docs) = new
        /\ ~makePrimary => PrimaryOf(docs).path = PrimaryOf(documents).path
        /\ \A i \in DOMAIN docs : Comes(docs[i])
    BY <1>1, <1>2, <1>3, IdentifiedIs
  <1>5. new.path \in Paths \cup {NoPath}
    <2>1. Doc(d) \in Document
      BY <1>1, <1>2, DocumentIsIn DEF Doc
    <2>2. new \in Document
      BY <2>1, IdentifiedDocument
    <2> HIDE DEF new
    <2> QED BY <2>2 DEF Document
  <1> HIDE DEF docs, new
  <1>6. LinkOK
    BY <1>1, <1>3, <1>4, <1>5, FollowKeeps
  <1>7. IInv' /\ Retires /\ Follows
    BY <1>1, <1>2, <1>4, <1>6, PlainOperationKeeps
  <1> QED BY <1>3, <1>4, <1>7

(* A document that takes the place of the one with its identifier, with the *)
(* link following it when it is primary.                                    *)
LEMMA ReplacementKeeps ==
  ASSUME IInv, NEW new \in Document, new.id \in IdsOf(documents),
         new.primary = Doc(new.id).primary, NEW act \in IdsOf(documents), NEW reread,
         Mutate(Replaced(new), act, reread), Follow(new, new.primary),
         UNCHANGED <<documentSequence, revision, result>>,
         files' \in [Paths \cup CFiles -> Contents \cup {NoText}]
  PROVE  /\ IInv' /\ Retires /\ Follows
         /\ documents' = Replaced(new)
         /\ \A i \in DOMAIN documents' : documents'[i] = new \/ Comes(documents'[i])
  <1>1. Bundle(documents)
    BY DEF IInv, TypeOK, Bundle
  <1>2. ValidDocuments(Replaced(new)) /\ documents' = Replaced(new)
    BY DEF Mutate
  <1>3. /\ Bundle(Replaced(new))
        /\ IdsOf(Replaced(new)) = IdsOf(documents)
        /\ new.primary => PrimaryOf(Replaced(new)) = new
        /\ ~new.primary /\ ~Doc(new.id).primary =>
              PrimaryOf(Replaced(new)) = PrimaryOf(documents)
        /\ \A i \in DOMAIN Replaced(new) : Replaced(new)[i] = new \/ Comes(Replaced(new)[i])
    BY <1>1, <1>2, ReplacedIs
  <1>4. LinkOK
    <2>1. /\ new.path \in Paths \cup {NoPath}
          /\ new.primary => PrimaryOf(documents').path = new.path
          /\ ~new.primary => PrimaryOf(documents').path = PrimaryOf(documents).path
      BY <1>2, <1>3 DEF Document
    <2> QED BY <2>1, FollowKeeps
  <1>5. /\ documentSequence' \in Ids
        /\ \A d \in IdsOf(Replaced(new)) : d <= documentSequence'
    BY <1>3 DEF IInv, TypeOK
  <1>6. IInv' /\ Retires /\ Follows
    BY <1>3, <1>4, <1>5, OperationKeeps
  <1> QED BY <1>2, <1>3, <1>6

LEMMA ReplaceByFileKeeps ==
  ASSUME IInv, NEW d \in IdsOf(documents), NEW name \in Names, NEW text \in Contents,
         NEW path \in Paths, NEW makeActive \in BOOLEAN,
         ReplaceByFile(d, name, text, path, makeActive), UNCHANGED files
  PROVE  /\ IInv' /\ Retires /\ Follows
         /\ \A i \in DOMAIN documents' :
               \/ Comes(documents'[i])
               \/ documents'[i].text = text /\ documents'[i].path = path
  <1> DEFINE new == [Doc(d) EXCEPT !.name = name, !.text = text, !.path = path, !.dirty = FALSE]
             act == IF makeActive THEN d ELSE active
  <1>1. /\ Mutate(Replaced(new), act, text # Blank)
        /\ Follow(new, new.primary)
        /\ UNCHANGED <<documentSequence, revision, result>>
    BY DEF ReplaceByFile
  <1>2. Doc(d) \in Document /\ Doc(d).id = d
    BY DocumentIsIn DEF Doc, IInv, TypeOK, Bundle
  <1>3. /\ new \in Document /\ new.id = d /\ new.primary = Doc(d).primary
        /\ new.path = path /\ new.text = text
    BY <1>2 DEF Document
  <1>4. act \in IdsOf(documents)
    BY DEF IInv, TypeOK
  <1> HIDE DEF new, act
  <1>5. files' \in [Paths \cup CFiles -> Contents \cup {NoText}]
    BY DEF IInv, TypeOK
  <1>6. /\ IInv' /\ Retires /\ Follows
        /\ \A i \in DOMAIN documents' : documents'[i] = new \/ Comes(documents'[i])
    BY <1>1, <1>3, <1>4, <1>5, ReplacementKeeps
  <1> QED BY <1>3, <1>6

LEMMA OpenIntoKeeps ==
  ASSUME IInv, NEW d \in Ids, NEW path \in Paths, NEW name \in Names, NEW makeActive \in BOOLEAN,
         OpenInto(d, path, name, makeActive)
  PROVE  /\ IInv' /\ Retires /\ Follows
         /\ \A i \in DOMAIN documents' :
               \/ Comes(documents'[i])
               \/ documents'[i].path \in Paths /\ documents'[i].text = files[documents'[i].path]
  <1>1. /\ d \in IdsOf(documents) /\ files[path] # NoText
        /\ ReplaceByFile(d, name, files[path], path, makeActive)
        /\ UNCHANGED files
    BY DEF OpenInto
  <1>2. files[path] \in Contents
    BY <1>1 DEF IInv, TypeOK
  <1> QED BY <1>1, <1>2, ReplaceByFileKeeps

LEMMA OpenDocumentKeeps ==
  ASSUME IInv, NEW path \in Paths, NEW name \in Names, NEW makeActive \in BOOLEAN,
         NEW isPrimary \in BOOLEAN, OpenDocument(path, name, makeActive, isPrimary)
  PROVE  /\ IInv' /\ Retires /\ Follows
         /\ \A i \in DOMAIN documents' :
               \/ Comes(documents'[i])
               \/ documents'[i].path \in Paths /\ documents'[i].text = files[documents'[i].path]
  <1>1. files[path] \in Contents
    BY DEF OpenDocument, IInv, TypeOK
  <1>2. CASE Pristine
    <2>1. ReplaceByFile(active, name, files[path], path, makeActive) /\ UNCHANGED files
      BY <1>2 DEF OpenDocument
    <2>2. active \in IdsOf(documents)
      BY DEF IInv, TypeOK
    <2> QED BY <1>1, <2>1, <2>2, ReplaceByFileKeeps
  <1>3. CASE ~Pristine
    <2>1. AddDocument(name, files[path], path, makeActive, isPrimary, FALSE) /\ UNCHANGED files
      BY <1>3 DEF OpenDocument
    <2> QED BY <1>1, <2>1, AddFileKeeps, ZenonT(60)
  <1> QED BY <1>2, <1>3

LEMMA SaveDocumentKeeps ==
  ASSUME IInv, NEW d \in Ids, NEW path \in Paths, SaveDocument(d, path)
  PROVE  /\ IInv' /\ Retires /\ Follows
         /\ \A i \in DOMAIN documents' :
               \/ Comes(documents'[i]) /\ documents'[i].path # path
               \/ documents'[i].path = path /\ documents'[i].text = files'[path]
  <1> DEFINE new == [Doc(d) EXCEPT !.path = path, !.dirty = FALSE]
  <1>1. /\ d \in IdsOf(documents)
        /\ Mutate(Replaced(new), active, FALSE)
        /\ files' = [files EXCEPT ![path] = Doc(d).text]
        /\ Follow(new, new.primary)
        /\ UNCHANGED <<documentSequence, revision, result>>
    BY DEF SaveDocument
  <1>2. Bundle(documents) /\ active \in IdsOf(documents)
    BY DEF IInv, TypeOK, Bundle
  <1>3. Doc(d) \in Document /\ Doc(d).id = d
    BY <1>1, <1>2, DocumentIsIn DEF Doc
  <1>4. /\ new \in Document /\ new.id = d /\ new.primary = Doc(d).primary
        /\ new.path = path /\ new.text = Doc(d).text /\ Doc(d).text \in Contents
    BY <1>3 DEF Document
  <1> HIDE DEF new
  <1>5. files' \in [Paths \cup CFiles -> Contents \cup {NoText}] /\ files'[path] = Doc(d).text
    BY <1>1, <1>4 DEF IInv, TypeOK
  <1>6. /\ IInv' /\ Retires /\ Follows
        /\ documents' = Replaced(new)
        /\ \A i \in DOMAIN documents' : documents'[i] = new \/ Comes(documents'[i])
    BY <1>1, <1>2, <1>4, <1>5, ReplacementKeeps
  <1>7. PICK k \in DOMAIN documents' : documents'[k] = new
    <2>1. PICK k \in DOMAIN documents : documents[k].id = d
      BY <1>1 DEF IdsOf
    <2> QED BY <1>4, <1>6, <2>1 DEF Replaced
  <1>8. ASSUME NEW i \in DOMAIN documents', documents'[i] # new
        PROVE  Comes(documents'[i]) /\ documents'[i].path # path
    <2>1. ValidDocuments(documents')
      BY <1>6 DEF IInv, TypeOK
    <2>2. path # NoPath
      BY PathAssumption DEF PathAssumption
    <2>3. i # k
      BY <1>7, <1>8
    <2>4. ~(documents'[i].path = documents'[k].path /\ documents'[i].path # NoPath)
      BY <2>1, <2>3 DEF ValidDocuments
    <2> QED BY <1>4, <1>6, <1>7, <1>8, <2>2, <2>4
  <1> QED BY <1>4, <1>5, <1>6, <1>8

-----------------------------------------------------------------------------
(* The steps that leave the bundle alone. *)

LEMMA SelectDocumentKeeps ==
  ASSUME IInv, NEW d \in Ids, SelectDocument(d) PROVE IInv' /\ Follows
  <1>1. /\ d \in IdsOf(documents) /\ active' = d
        /\ sourceText' = Doc(d).text
        /\ sourceFingerprint' = IF authenticated THEN revision[d] ELSE NoText
        /\ UNCHANGED <<documents, generation, authenticated, state, linkedC, linkedDefault,
                       documentSequence, revision, result, files>>
    BY DEF SelectDocument, linkVars
  <1>2. Bundle(documents)
    BY DEF IInv, TypeOK, Bundle
  <1>3. Doc(d) \in Document /\ Doc(d).text \in Contents
    <2>1. Doc(d) \in Document
      BY <1>1, <1>2, DocumentIsIn DEF Doc
    <2> QED BY <2>1 DEF Document
  <1>4. authenticated => revision[d] = Doc(d).text
    BY <1>1, <1>2, TextsAre DEF IInv, MirrorsAgree, Doc
  <1>5. TypeOK'
    <2>1. sourceFingerprint' \in Contents \cup {NoText} /\ sourceText' \in Contents
      BY <1>1, <1>3, <1>4
    <2>2. active' \in IdsOf(documents')
      BY <1>1
    <2> QED BY <1>1, <2>1, <2>2, Zenon DEF IInv, TypeOK
  <1>6. RevisionOK' /\ Follows
    BY <1>1 DEF IInv, RevisionOK, Follows, LinkFollowsPrimary
  <1>7. MirrorsAgree'
    BY <1>1, <1>4 DEF IInv, MirrorsAgree, Doc
  <1> QED BY <1>5, <1>6, <1>7 DEF IInv

(* Steps that leave the bundle alone: only the link, the files and what is  *)
(* said of the C on the screen can change.                                  *)
LEMMA AboutCKeeps ==
  ASSUME IInv,
         UNCHANGED <<documents, active, sourceText, sourceFingerprint, generation,
                     authenticated, documentSequence, revision>>,
         files' \in [Paths \cup CFiles -> Contents \cup {NoText}],
         linkedC' \in CFiles \cup {NoPath}, linkedDefault' \in BOOLEAN,
         state' \in {"idle", "stale", "converting", "converted"},
         result' \in Generations \cup {NoResult}
  PROVE  IInv'
  <1>1. TypeOK'
    BY Zenon DEF IInv, TypeOK
  <1>2. RevisionOK' /\ MirrorsAgree'
    BY DEF IInv, RevisionOK, MirrorsAgree, Doc
  <1> QED BY <1>1, <1>2 DEF IInv

LEMMA PrimaryPath == ASSUME IInv PROVE DefaultOf(PrimaryOf(documents)) \in CFiles \cup {NoPath}
  <1>1. PrimaryOf(documents).path \in Paths \cup {NoPath}
    BY PrimaryIsIn, BundleFacts DEF IInv, TypeOK, Bundle, Document
  <1> QED BY <1>1, DefaultIsC

LEMMA LinkKeeps ==
  ASSUME IInv, LinkDefaultC \/ \E c \in CFiles : LinkGeneratedC(c)
  PROVE  IInv' /\ Follows
  <1>1. UNCHANGED <<documents, active, sourceText, sourceFingerprint, generation,
                    authenticated, state, documentSequence, revision, result, files>>
    BY DEF LinkDefaultC, LinkGeneratedC, bundleVars
  <1>2. LinkOK
    <2>1. CASE LinkDefaultC
      BY <1>1, <2>1, PrimaryPath DEF LinkDefaultC, LinkOK, Follows, LinkFollowsPrimary
    <2>2. CASE \E c \in CFiles : LinkGeneratedC(c)
      BY <2>2 DEF LinkGeneratedC, LinkOK, Follows, LinkFollowsPrimary
    <2> QED BY <2>1, <2>2
  <1>3. /\ state' \in {"idle", "stale", "converting", "converted"}
        /\ result' \in Generations \cup {NoResult}
        /\ files' \in [Paths \cup CFiles -> Contents \cup {NoText}]
    BY <1>1 DEF IInv, TypeOK
  <1> QED BY <1>1, <1>2, <1>3, AboutCKeeps DEF LinkOK

LEMMA SaveCKeeps ==
  ASSUME IInv, SaveGeneratedCLinked \/ \E c \in CFiles : SaveGeneratedC(c)
  PROVE  IInv' /\ Follows
  <1>1. UNCHANGED <<documents, active, sourceText, sourceFingerprint, generation,
                    authenticated, state, documentSequence, revision, result>>
    BY DEF SaveGeneratedCLinked, SaveGeneratedC, bundleVars
  <1>2. /\ state' \in {"idle", "stale", "converting", "converted"}
        /\ result' \in Generations \cup {NoResult}
    BY <1>1 DEF IInv, TypeOK
  <1>3. PICK c \in CFiles :
          /\ files' = [files EXCEPT ![c] = GeneratedC]
          /\ linkedC' = c
          /\ \/ linkedDefault' = FALSE
             \/ linkedDefault' = CIsDefault /\ c = CDestination
    <2>1. CASE SaveGeneratedCLinked
      <3>1. CDestination \in CFiles
        BY <2>1, PrimaryPath DEF SaveGeneratedCLinked, CDestination, IInv, TypeOK
      <3> QED BY <2>1, <3>1 DEF SaveGeneratedCLinked
    <2>2. CASE \E c \in CFiles : SaveGeneratedC(c)
      BY <2>2 DEF SaveGeneratedC
    <2> QED BY <2>1, <2>2
  <1>4. files' \in [Paths \cup CFiles -> Contents \cup {NoText}]
    BY <1>3, TextAssumption DEF IInv, TypeOK, TextAssumption, Contents
  <1>5. LinkOK
    <2>1. linkedC' \in CFiles \cup {NoPath}
      BY <1>3
    <2>2. linkedDefault \in BOOLEAN /\ CIsDefault \in BOOLEAN
      BY Zenon DEF IInv, TypeOK, CIsDefault
    <2>3. linkedDefault' \in BOOLEAN
      BY <1>3, <2>2, Zenon
    <2>4. Follows
      BY <1>1, <1>3 DEF Follows, LinkFollowsPrimary, CIsDefault, CDestination
    <2> QED BY <2>1, <2>3, <2>4 DEF LinkOK
  <1> QED BY <1>1, <1>2, <1>4, <1>5, AboutCKeeps DEF LinkOK

LEMMA OtherKeeps == ASSUME IInv, Other PROVE IInv' /\ Follows
  <1>1. CASE AcceptRevision
    <2>1. /\ authenticated' = TRUE
          /\ revision' = TextsOf(documents)
          /\ sourceFingerprint' = TextsOf(documents)[active]
          /\ UNCHANGED <<documents, active, sourceText, generation, state, linkedC, linkedDefault,
                         documentSequence, result, files>>
      BY <1>1 DEF AcceptRevision, linkVars
    <2>2. Bundle(documents) /\ active \in IdsOf(documents)
      BY DEF IInv, TypeOK, Bundle
    <2>3. /\ DOMAIN TextsOf(documents) = IdsOf(documents)
          /\ \A d \in IdsOf(documents) : /\ TextsOf(documents)[d] = DocumentOf(documents, d).text
                                          /\ TextsOf(documents)[d] \in Contents
      BY <2>2, TextsAre
    <2>4. TypeOK'
      <3>1. sourceFingerprint' \in Contents \cup {NoText}
        BY <2>1, <2>2, <2>3
      <3>2. authenticated' \in BOOLEAN
        BY <2>1
      <3> QED BY <2>1, <3>1, <3>2, Zenon DEF IInv, TypeOK
    <2>5. RevisionOK'
      BY <2>1, <2>3 DEF RevisionOK
    <2>6. Follows
      BY <2>1 DEF Follows, LinkFollowsPrimary
    <2>7. MirrorsAgree'
      BY <2>1, <2>2, <2>3 DEF IInv, MirrorsAgree, Doc
    <2> QED BY <2>4, <2>5, <2>6, <2>7 DEF IInv
  <1>2. CASE StartConversion \/ EndConversion
    <2>1. UNCHANGED <<documents, active, sourceText, sourceFingerprint, generation,
                      authenticated, documentSequence, revision, files, linkedC, linkedDefault>>
      BY <1>2 DEF StartConversion, EndConversion, linkVars
    <2>2. /\ state' \in {"idle", "stale", "converting", "converted"}
          /\ result' \in Generations \cup {NoResult}
      BY <1>2 DEF StartConversion, EndConversion, IInv, TypeOK
    <2>3. LinkOK
      BY <2>1, Zenon DEF IInv, TypeOK, LinkOK, Follows, LinkFollowsPrimary
    <2>4. files' \in [Paths \cup CFiles -> Contents \cup {NoText}]
      BY <2>1 DEF IInv, TypeOK
    <2> QED BY <2>1, <2>2, <2>3, <2>4, AboutCKeeps DEF LinkOK
  <1> QED BY <1>1, <1>2 DEF Other

-----------------------------------------------------------------------------
(* Every step. *)

EveryStep == IInv' /\ Retires /\ Follows

LEMMA EditBundleKeeps == ASSUME IInv, EditBundle PROVE EveryStep
  <1>1. ASSUME NEW d \in Ids, NEW t \in Contents, UpdateDocument(d, t) PROVE EveryStep
    BY <1>1, UpdateDocumentKeeps DEF EveryStep
  <1>2. ASSUME NEW n \in Names, NEW t \in Contents, NEW p \in Paths \cup {NoPath},
               NEW a \in BOOLEAN, NEW m \in BOOLEAN, AddNew(n, t, p, a, m)
        PROVE  EveryStep
    BY <1>2, AddNewKeeps DEF EveryStep
  <1>3. ASSUME NEW d \in Ids, RemoveDocument(d) PROVE EveryStep
    BY <1>3, RemoveDocumentKeeps DEF EveryStep
  <1>4. ASSUME NEW d \in Ids, SelectDocument(d) PROVE EveryStep
    BY <1>4, SelectDocumentKeeps DEF EveryStep, Retires, SelectDocument
  <1>5. ASSUME NEW order \in Orders(documents), ReorderDocuments(order) PROVE EveryStep
    BY <1>5, ReorderDocumentsKeeps DEF EveryStep
  <1>6. ASSUME NEW d \in Ids, NEW n \in Names, NEW p \in BOOLEAN, SetDocumentIdentity(d, n, p)
        PROVE  EveryStep
    BY <1>6, SetDocumentIdentityKeeps DEF EveryStep
  <1>7. CASE LinkDefaultC \/ \E c \in CFiles : LinkGeneratedC(c)
    <2>1. documents' = documents
      BY <1>7 DEF LinkDefaultC, LinkGeneratedC, bundleVars
    <2> QED BY <1>7, <2>1, LinkKeeps DEF EveryStep, Retires
  <1> QED BY <1>1, <1>2, <1>3, <1>4, <1>5, <1>6, <1>7 DEF EditBundle

LEMMA UnchangedKeeps == ASSUME IInv, UNCHANGED documentVars PROVE EveryStep
  <1>1. UNCHANGED <<documents, active, sourceText, sourceFingerprint, generation,
                    authenticated, state, documentSequence, revision, result, files,
                    linkedC, linkedDefault>>
    BY DEF documentVars, bundleVars, linkVars
  <1>2. LinkOK
    BY <1>1, Zenon DEF IInv, TypeOK, LinkOK, Follows, LinkFollowsPrimary
  <1>3. /\ state' \in {"idle", "stale", "converting", "converted"}
        /\ result' \in Generations \cup {NoResult}
        /\ files' \in [Paths \cup CFiles -> Contents \cup {NoText}]
    BY <1>1 DEF IInv, TypeOK
  <1>4. IInv'
    BY <1>1, <1>2, <1>3, AboutCKeeps DEF LinkOK
  <1> QED BY <1>1, <1>2, <1>4 DEF EveryStep, Retires, LinkOK

LEMMA NextKeeps == ASSUME IInv, [Next]_documentVars PROVE EveryStep
  <1>1. CASE EditBundle
    BY <1>1, EditBundleKeeps
  <1>2. CASE Other
    <2>1. documents' = documents
      BY <1>2 DEF Other, AcceptRevision, StartConversion, EndConversion
    <2> QED BY <1>2, <2>1, OtherKeeps DEF EveryStep, Retires
  <1>3. ASSUME NEW d \in Ids, NEW p \in Paths, NEW n \in Names, NEW a \in BOOLEAN,
               OpenInto(d, p, n, a)
        PROVE  EveryStep
    BY <1>3, OpenIntoKeeps DEF EveryStep
  <1>4. ASSUME NEW p \in Paths, NEW n \in Names, NEW a \in BOOLEAN, NEW m \in BOOLEAN,
               OpenDocument(p, n, a, m)
        PROVE  EveryStep
    BY <1>4, OpenDocumentKeeps DEF EveryStep
  <1>5. ASSUME NEW d \in Ids, NEW p \in Paths, SaveDocument(d, p) PROVE EveryStep
    BY <1>5, SaveDocumentKeeps DEF EveryStep
  <1>6. CASE SaveGeneratedCLinked \/ \E c \in CFiles : SaveGeneratedC(c)
    <2>1. documents' = documents
      BY <1>6 DEF SaveGeneratedCLinked, SaveGeneratedC, bundleVars
    <2> QED BY <1>6, <2>1, SaveCKeeps DEF EveryStep, Retires
  <1>7. CASE UNCHANGED documentVars
    BY <1>7, UnchangedKeeps
  <1> QED BY <1>1, <1>2, <1>3, <1>4, <1>5, <1>6, <1>7 DEF Next

LEMMA InitIInv == Init => IInv /\ LinkFollowsPrimary
  <1> SUFFICES ASSUME Init PROVE IInv /\ LinkFollowsPrimary OBVIOUS
  <1> USE DEF Init
  <1>1. /\ documents = <<initialDocument>> /\ active = 1 /\ documentSequence = 1
        /\ 1 \in Ids /\ MaxDocuments \in Nat \ {0}
    BY LimitAssumption DEF LimitAssumption, Ids
  <1>2. /\ initialDocument \in Document /\ initialDocument.id = 1 /\ initialDocument.primary
        /\ initialDocument.text = Blank /\ initialDocument.path = NoPath
    BY <1>1, NameAssumption DEF NameAssumption, Document, initialDocument, Contents
  <1>3. /\ documents \in Seq(Document) /\ Len(documents) = 1 /\ DOMAIN documents = {1}
        /\ documents[1] = initialDocument
    BY <1>1, <1>2
  <1>4. ValidDocuments(documents)
    BY <1>1, <1>2, <1>3 DEF ValidDocuments, Distinct
  <1>5. Bundle(documents)
    BY <1>3, <1>4 DEF Bundle
  <1>6. /\ IdsOf(documents) = {1}
        /\ DocumentOf(documents, 1) = initialDocument
        /\ PrimaryOf(documents) = initialDocument
    <2>1. IdsOf(documents) = {1}
      BY <1>2, <1>3 DEF IdsOf
    <2> QED BY <1>2, <1>3, <1>5, <2>1, DocumentAt, PrimaryAt
  <1>7. TypeOK
    <2>1. active \in IdsOf(documents) /\ \A d \in IdsOf(documents) : d <= documentSequence
      BY <1>1, <1>6
    <2>2. /\ linkedC \in CFiles \cup {NoPath} /\ linkedDefault \in BOOLEAN
          /\ authenticated \in BOOLEAN
          /\ state \in {"idle", "stale", "converting", "converted"}
      OBVIOUS
    <2>3. /\ sourceText \in Contents /\ sourceFingerprint \in Contents \cup {NoText}
          /\ generation \in Generations /\ result \in Generations \cup {NoResult}
      BY LimitAssumption DEF LimitAssumption, Contents, Generations
    <2>4. /\ files \in [Paths \cup CFiles -> Contents \cup {NoText}]
      OBVIOUS
    <2> QED BY <1>1, <1>3, <1>4, <2>1, <2>2, <2>3, <2>4 DEF TypeOK
  <1>8. RevisionOK
    BY DEF RevisionOK, Contents
  <1>9. MirrorsAgree
    <2>1. Doc(active).text = Blank
      BY <1>1, <1>2, <1>6 DEF Doc
    <2>2. TextsOf(documents) = [d \in {1} |-> Blank]
      <3>1. TextsOf(documents) = [d \in {1} |-> DocumentOf(documents, d).text]
        BY <1>6 DEF TextsOf, DocumentOf
      <3> QED BY <1>2, <1>6, <3>1
    <2> QED BY <2>1, <2>2 DEF MirrorsAgree
  <1>10. LinkFollowsPrimary
    BY <1>2, <1>6 DEF LinkFollowsPrimary, DefaultOf
  <1> QED BY <1>7, <1>8, <1>9, <1>10 DEF IInv

LEMMA Invariance == Spec => []IInv
  <1>1. ASSUME IInv, [Next]_documentVars PROVE IInv'
    BY <1>1, NextKeeps DEF EveryStep
  <1> QED BY InitIInv, <1>1, PTL DEF Spec

-----------------------------------------------------------------------------
(* Theorems. *)

(* Every reachable bundle is one that _validate_documents accepts, the      *)
(* active document belongs to it and identifiers are never given twice.     *)
THEOREM DocumentsAreValid == Spec => []TypeOK
  <1>1. IInv => TypeOK
    BY DEF IInv
  <1> QED BY <1>1, Invariance, PTL

(* The default C destination is that of the document that is primary now,   *)
(* whichever operation made it primary or gave it a file.                   *)
THEOREM LinkFollows == Spec => []LinkFollowsPrimary
  <1>1. ASSUME IInv, LinkFollowsPrimary, [Next]_documentVars PROVE LinkFollowsPrimary'
    BY <1>1, NextKeeps DEF EveryStep, Follows
  <1> QED BY InitIInv, <1>1, Invariance, PTL DEF Spec

(* The mirrors in the snapshot are those of the active document, and of the *)
(* revision that was authenticated.                                         *)
THEOREM MirrorsOfTheActive == Spec => []MirrorsAgree
  <1>1. IInv => MirrorsAgree
    BY DEF IInv
  <1> QED BY <1>1, Invariance, PTL

(* No operation changes what the converter would be given and leaves the C  *)
(* that is on the screen savable.                                           *)
THEOREM ChangesRetireC == Spec => ChangeRetiresC
  <1>1. ASSUME IInv, [Next]_documentVars
        PROVE  [BundleOf(documents') # BundleOf(documents) => ~CanSaveC']_documentVars
    BY <1>1, NextKeeps DEF EveryStep, Retires
  <1> QED BY <1>1, Invariance, PTL DEF Spec, ChangeRetiresC

-----------------------------------------------------------------------------
(* Dirtiness against the disk. *)

OnDisk(doc, fs) == ~doc.dirty => doc.text = IF doc.path = NoPath THEN Blank ELSE fs[doc.path]

(* What CleanStaysOnDisk says of a step. *)
Strays(d) ==
    \/ d \in IdsOf(documents) /\ Astray(d)
    \/ d \notin IdsOf(documents) /\ AddedOnTrust
    \/ CWrittenTo(DocumentOf(documents', d).path)

Stays == \A d \in IdsOf(documents') : Astray(d)' => Strays(d)

LEMMA AstrayIs == ASSUME NEW d PROVE Astray(d) <=> ~OnDisk(Doc(d), files)
  BY DEF Astray, OnDisk

LEMMA AstrayIsThen == ASSUME NEW d PROVE Astray(d)' <=> ~OnDisk(Doc(d)', files')
  BY DEF Astray, OnDisk

(* A document that is as it was, in a file nobody wrote to, was astray before *)
(* if it is now.                                                            *)
LEMMA ComesAstray ==
  ASSUME IInv, NEW doc, Comes(doc), NEW fs, ~OnDisk(doc, fs),
         doc.path # NoPath => fs[doc.path] = files[doc.path]
  PROVE  doc.id \in IdsOf(documents) /\ Astray(doc.id)
  <1>1. PICK j \in DOMAIN documents : SameOnDisk(doc, documents[j])
    BY DEF Comes
  <1>2. doc.id \in IdsOf(documents) /\ Doc(doc.id) = documents[j]
    BY <1>1, DocumentAt DEF SameOnDisk, IdsOf, Doc, IInv, TypeOK, Bundle
  <1> QED BY <1>1, <1>2, AstrayIs DEF OnDisk, SameOnDisk

(* It is enough to look at the documents one by one. *)
LEMMA OneByOne ==
  ASSUME IInv',
         \A i \in DOMAIN documents' :
            OnDisk(documents'[i], files') \/ Strays(documents'[i].id)
  PROVE  Stays
  <1> SUFFICES ASSUME NEW d \in IdsOf(documents'), Astray(d)' PROVE Strays(d)
    BY DEF Stays
  <1>1. PICK i \in DOMAIN documents' : documents'[i] = Doc(d)' /\ documents'[i].id = d
    BY DocumentIsIn DEF Doc, IInv, TypeOK, Bundle
  <1>2. ~OnDisk(documents'[i], files')
    BY <1>1, AstrayIsThen
  <1> QED BY <1>1, <1>2

LEMMA FilesUntouched ==
  ASSUME IInv, IInv', files' = files,
         \A i \in DOMAIN documents' : Comes(documents'[i]) \/ OnDisk(documents'[i], files)
  PROVE  Stays
  <1>1. ASSUME NEW i \in DOMAIN documents', ~OnDisk(documents'[i], files')
        PROVE  Strays(documents'[i].id)
    <2>1. Comes(documents'[i])
      BY <1>1
    <2> QED BY <1>1, <2>1, ComesAstray DEF Strays
  <1> QED BY <1>1, OneByOne

LEMMA AddNewStays ==
  ASSUME IInv, IInv', NEW n \in Names, NEW t \in Contents, NEW p \in Paths \cup {NoPath},
         NEW a \in BOOLEAN, NEW m \in BOOLEAN, AddNew(n, t, p, a, m)
  PROVE  Stays
  <1>1. \A i \in DOMAIN documents' :
           \/ Comes(documents'[i])
           \/ /\ documents'[i].id = NextDocumentId
              /\ documents'[i].text = t /\ documents'[i].path = p
              /\ p = NoPath /\ t # Blank => documents'[i].dirty
    BY AddNewKeeps
  <1>2. files' = files
    BY DEF AddNew
  <1>3. NextDocumentId \notin IdsOf(documents)
    BY DEF IInv, TypeOK, NextDocumentId, Ids
  <1>4. CASE p = NoPath
    BY <1>1, <1>2, <1>4, FilesUntouched DEF OnDisk
  <1>5. CASE p \in Paths
    <2>1. AddedOnTrust
      BY <1>5 DEF AddedOnTrust
    <2>2. ASSUME NEW i \in DOMAIN documents', ~OnDisk(documents'[i], files')
          PROVE  Strays(documents'[i].id)
      <3>1. CASE Comes(documents'[i])
        BY <1>2, <2>2, <3>1, ComesAstray DEF Strays
      <3>2. CASE documents'[i].id = NextDocumentId
        BY <1>3, <2>1, <3>2 DEF Strays
      <3> QED BY <1>1, <3>1, <3>2
    <2> QED BY <2>2, OneByOne
  <1> QED BY <1>4, <1>5

LEMMA SaveDocumentStays ==
  ASSUME IInv, IInv', NEW d \in Ids, NEW p \in Paths, SaveDocument(d, p) PROVE Stays
  <1>1. p # NoPath
    BY PathAssumption DEF PathAssumption
  <1>2. \A q \in Paths \ {p} : files'[q] = files[q]
    BY DEF SaveDocument, IInv, TypeOK
  <1>3. ASSUME NEW i \in DOMAIN documents', ~OnDisk(documents'[i], files')
        PROVE  Strays(documents'[i].id)
    <2>1. documents'[i].path \in Paths \cup {NoPath}
      <3>1. Bundle(documents')
        BY DEF IInv, TypeOK, Bundle
      <3> QED BY <3>1, BundleFacts DEF Document
    <2>2. ~(documents'[i].path = p /\ documents'[i].text = files'[p])
      BY <1>1, <1>3 DEF OnDisk
    <2>3. Comes(documents'[i]) /\ documents'[i].path # p
      BY <2>2, SaveDocumentKeeps
    <2> QED BY <1>2, <1>3, <2>1, <2>3, ComesAstray DEF Strays
  <1> QED BY <1>3, OneByOne

LEMMA SaveCStays ==
  ASSUME IInv, IInv', NEW c, CWrittenTo(c) PROVE Stays
  <1>1. files' = [files EXCEPT ![c] = GeneratedC] /\ documents' = documents
    BY DEF CWrittenTo, SaveGeneratedC, SaveGeneratedCLinked, bundleVars
  <1>2. ASSUME NEW i \in DOMAIN documents', ~OnDisk(documents'[i], files')
        PROVE  Strays(documents'[i].id)
    <2>1. /\ documents'[i] = documents[i] /\ Comes(documents'[i])
          /\ DocumentOf(documents', documents'[i].id) = documents'[i]
          /\ documents'[i].path \in Paths \cup {NoPath}
      <3>1. Bundle(documents')
        BY DEF IInv, TypeOK, Bundle
      <3>2. DocumentOf(documents', documents'[i].id) = documents'[i]
        BY <3>1, DocumentAt
      <3>3. documents'[i].path \in Paths \cup {NoPath}
        BY <3>1, BundleFacts DEF Document
      <3> QED BY <1>1, <3>2, <3>3 DEF Comes, SameOnDisk
    <2>2. CASE documents'[i].path = c
      BY <2>1, <2>2 DEF Strays
    <2>3. CASE documents'[i].path # c
      <3>1. documents'[i].path # NoPath => files'[documents'[i].path] = files[documents'[i].path]
        BY <1>1, <2>1, <2>3 DEF IInv, TypeOK
      <3> QED BY <1>2, <2>1, <3>1, ComesAstray DEF Strays
    <2> QED BY <2>2, <2>3
  <1> QED BY <1>2, OneByOne

LEMMA CleanStep == ASSUME IInv, IInv', [Next]_documentVars PROVE Stays \/ UNCHANGED documentVars
  <1>1. ASSUME NEW d \in Ids, NEW t \in Contents, UpdateDocument(d, t) PROVE Stays
    BY <1>1, UpdateDocumentKeeps, FilesUntouched DEF UpdateDocument, OnDisk
  <1>2. ASSUME NEW d \in Ids, RemoveDocument(d) PROVE Stays
    BY <1>2, RemoveDocumentKeeps, FilesUntouched DEF RemoveDocument
  <1>3. ASSUME NEW order \in Orders(documents), ReorderDocuments(order) PROVE Stays
    BY <1>3, ReorderDocumentsKeeps, FilesUntouched DEF ReorderDocuments
  <1>4. ASSUME NEW d \in Ids, NEW n \in Names, NEW p \in BOOLEAN, SetDocumentIdentity(d, n, p)
        PROVE  Stays
    BY <1>4, SetDocumentIdentityKeeps, FilesUntouched DEF SetDocumentIdentity
  <1>5. ASSUME NEW d \in Ids, NEW p \in Paths, NEW n \in Names, NEW a \in BOOLEAN,
               OpenInto(d, p, n, a)
        PROVE  Stays
    <2>1. \A i \in DOMAIN documents' : Comes(documents'[i]) \/ OnDisk(documents'[i], files)
      BY <1>5, OpenIntoKeeps, PathAssumption DEF OnDisk, PathAssumption
    <2> QED BY <1>5, <2>1, FilesUntouched DEF OpenInto
  <1>6. ASSUME NEW p \in Paths, NEW n \in Names, NEW a \in BOOLEAN, NEW m \in BOOLEAN,
               OpenDocument(p, n, a, m)
        PROVE  Stays
    <2>1. \A i \in DOMAIN documents' : Comes(documents'[i]) \/ OnDisk(documents'[i], files)
      BY <1>6, OpenDocumentKeeps, PathAssumption DEF OnDisk, PathAssumption
    <2> QED BY <1>6, <2>1, FilesUntouched DEF OpenDocument
  <1>7. ASSUME NEW c \in CFiles, SaveGeneratedC(c) PROVE Stays
    <2>1. CWrittenTo(c)
      BY <1>7 DEF CWrittenTo
    <2> QED BY <2>1, SaveCStays
  <1>8. CASE SaveGeneratedCLinked
    <2>1. CWrittenTo(CDestination)
      BY <1>8 DEF CWrittenTo
    <2> QED BY <2>1, SaveCStays
  <1>9. CASE \/ \E d \in Ids : SelectDocument(d)
             \/ \E c \in CFiles : LinkGeneratedC(c)
             \/ LinkDefaultC \/ Other
    <2>1. UNCHANGED <<documents, files>>
      BY <1>9 DEF SelectDocument, LinkGeneratedC, LinkDefaultC, Other, AcceptRevision,
         StartConversion, EndConversion, bundleVars
    <2>2. \A i \in DOMAIN documents' : Comes(documents'[i])
      BY <2>1 DEF Comes, SameOnDisk
    <2> QED BY <2>1, <2>2, FilesUntouched
  <1> QED BY <1>1, <1>2, <1>3, <1>4, <1>5, <1>6, <1>7, <1>8, <1>9, AddNewStays,
             SaveDocumentStays DEF Next, EditBundle

(* Whatever is done to the documents, in any order, a clean one does not    *)
(* part from its file, but where it is added with a text nobody checked or  *)
(* C is written over its file.                                              *)
THEOREM CleanDocumentsStaySaved == Spec => CleanStaysOnDisk
  <1>1. ASSUME IInv, IInv', [Next]_documentVars
        PROVE  [\A d \in IdsOf(documents') :
                  Astray(d)' => \/ d \in IdsOf(documents) /\ Astray(d)
                                \/ d \notin IdsOf(documents) /\ AddedOnTrust
                                \/ CWrittenTo(Doc(d)'.path)]_documentVars
    BY <1>1, CleanStep DEF Stays, Strays, Doc
  <1> QED BY <1>1, Invariance, PTL DEF Spec, CleanStaysOnDisk
=============================================================================
