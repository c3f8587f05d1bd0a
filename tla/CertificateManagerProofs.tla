------------------------- MODULE CertificateManagerProofs -------------------------
(***************************************************************************)
(* What Add and Remove of the certificate manager do to its index, for any *)
(* subjects whose certificates share a bucket and any order of calls.      *)
(***************************************************************************)
EXTENDS CertificateManager, TLAPS

(***************************************************************************)
(* The index keeps its shape, and its names.                               *)
(***************************************************************************)
LEMMA StoreAdded ==
    ASSUME NEW s \in Store, NEW k \in Keys
    PROVE  /\ Added(s, k) \in Store
           /\ Added(s, k).byName[k] # None
           /\ \A j \in Keys : s.byName[j] # None => Added(s, k).byName[j] # None
<1> USE CertificatesAssumption
<1> DEFINE files == Files(s, k)
           longer == Append(Disowned(files, k), k)
<1>1. Bucket(k) \in Buckets
  BY DEF Bucket, Subject
<1>2. files \in Seq(Keys \cup {None}) /\ Len(files) \in Nat
  BY <1>1 DEF Files, Store
<1>3. Disowned(files, k) \in Seq(Keys \cup {None})
  BY <1>2 DEF Disowned
<1>4. longer \in Seq(Keys \cup {None})
  BY <1>3
<1>5. Added(s, k) = [byHash |-> [s.byHash EXCEPT ![Bucket(k)] = longer],
                     byName |-> [s.byName EXCEPT ![k] = Len(files)]]
  BY <1>1 DEF Added, Files, Store
<1> HIDE DEF files, longer
<1>6. s.byHash \in [Buckets -> Seq(Keys \cup {None})] /\ s.byName \in [Keys -> Nat \cup {None}]
  BY DEF Store
<1>7. [s.byHash EXCEPT ![Bucket(k)] = longer] \in [Buckets -> Seq(Keys \cup {None})]
  BY <1>4, <1>6
<1>8. [s.byName EXCEPT ![k] = Len(files)] \in [Keys -> Nat \cup {None}]
  BY <1>2, <1>6
<1>9. Added(s, k) \in Store
  BY <1>5, <1>7, <1>8 DEF Store
<1>10. Len(files) # None
  BY <1>2
<1> QED BY <1>5, <1>6, <1>9, <1>10

LEMMA StoreRemoved ==
    ASSUME NEW s \in Store, NEW k \in Keys, Removable(s, k)
    PROVE  /\ Removed(s, k) \in Store
           /\ \A j \in Keys : s.byName[j] # None => Removed(s, k).byName[j] # None
<1> USE CertificatesAssumption
<1> DEFINE files == Files(s, k)
           index == s.byName[k]
           moved == files[Len(files)]
           rest == SubSeq([files EXCEPT ![index + 1] = moved], 1, Len(files) - 1)
           names == [j \in Keys |-> IF j = moved THEN index ELSE s.byName[j]]
<1>1. Bucket(k) \in Buckets
  BY DEF Bucket, Subject
<1>2. files \in Seq(Keys \cup {None}) /\ Len(files) \in Nat
  BY <1>1 DEF Files, Store
<1>3. index \in Nat /\ index < Len(files)
  BY DEF Removable, Store
<1>4. Removed(s, k) = [byHash |-> [s.byHash EXCEPT ![Bucket(k)] = rest], byName |-> names]
  BY DEF Removed
<1> HIDE DEF files, index
<1>5. moved \in Keys \cup {None}
  BY <1>2, <1>3
<1> DEFINE swapped == [files EXCEPT ![index + 1] = moved]
<1>6. swapped \in Seq(Keys \cup {None}) /\ Len(swapped) = Len(files)
  <2> HIDE DEF moved
  <2>1. files \in [1..Len(files) -> Keys \cup {None}]
    BY <1>2
  <2>2. swapped \in [1..Len(files) -> Keys \cup {None}]
    BY <1>5, <2>1
  <2> HIDE DEF swapped
  <2> QED BY <1>2, <2>2
<1>7. rest \in Seq(Keys \cup {None})
  <2> HIDE DEF swapped
  <2> QED BY <1>2, <1>3, <1>6
<1> HIDE DEF rest, moved
<1>8. s.byHash \in [Buckets -> Seq(Keys \cup {None})] /\ s.byName \in [Keys -> Nat \cup {None}]
  BY DEF Store
<1>9. [s.byHash EXCEPT ![Bucket(k)] = rest] \in [Buckets -> Seq(Keys \cup {None})]
  BY <1>7, <1>8
<1>10. names \in [Keys -> Nat \cup {None}]
  BY <1>3, <1>8
<1>11. Removed(s, k) \in Store
  BY <1>4, <1>9, <1>10 DEF Store
<1>12. index # None
  BY <1>3
<1> QED BY <1>4, <1>11, <1>12

LEMMA StoreInitial == InitialStore \in Store
<1>1. <<>> \in Seq(Keys \cup {None}) /\ <<None>> \in Seq(Keys \cup {None})
  OBVIOUS
<1> DEFINE files == [b \in Buckets |-> IF b = CABucket THEN <<None>> ELSE <<>>]
           names == [k \in Keys |-> None]
<1>2. files \in [Buckets -> Seq(Keys \cup {None})] /\ names \in [Keys -> Nat \cup {None}]
  BY <1>1
<1>3. InitialStore = [byHash |-> files, byName |-> names]
  BY DEF InitialStore
<1> HIDE DEF files, names
<1> QED BY <1>2, <1>3 DEF Store

-----------------------------------------------------------------------------
(***************************************************************************)
(* The index is right.                                                     *)
(***************************************************************************)
(* A certificate file stands in the bucket of the subject it was made for. *)
InBuckets(s) ==
    \A b \in Buckets : \A i \in 1..Len(s.byHash[b]) :
        s.byHash[b][i] \in Keys => Bucket(s.byHash[b][i]) = b

FiledIn(s, k) == Removable(s, k) /\ Files(s, k)[s.byName[k] + 1] = k

(* A new certificate goes behind the others of its bucket.                 *)
FilesAdded(s, t, k, n) ==
    /\ n \in Nat
    /\ \A b \in Buckets : b # Bucket(k) => t.byHash[b] = s.byHash[b]
    /\ Len(Files(t, k)) = n + 1 /\ Files(t, k)[n + 1] = k
    /\ \A i \in 1..n : Files(t, k)[i] = IF Files(s, k)[i] = k THEN None ELSE Files(s, k)[i]
    /\ \A j \in Keys : t.byName[j] = IF j = k THEN n ELSE s.byName[j]

LEMMA AddedFiles ==
    ASSUME NEW s \in Store, NEW k \in Keys
    PROVE  FilesAdded(s, Added(s, k), k, Len(Files(s, k)))
<1> USE CertificatesAssumption
<1> DEFINE t == Added(s, k)
           n == Len(Files(s, k))
           files == Files(s, k)
           longer == Append(Disowned(files, k), k)
<1>1. Bucket(k) \in Buckets
  BY DEF Bucket, Subject
<1>2. files \in Seq(Keys \cup {None}) /\ n = Len(files) /\ n \in Nat
  BY <1>1 DEF Files, Store
<1>3. /\ Len(longer) = n + 1 /\ longer[n + 1] = k
      /\ \A i \in 1..n : longer[i] = IF files[i] = k THEN None ELSE files[i]
  <2>1. /\ Disowned(files, k) \in Seq(Keys \cup {None})
        /\ Len(Disowned(files, k)) = n
    BY <1>2 DEF Disowned
  <2>2. \A i \in 1..n :
            Disowned(files, k)[i] = IF files[i] = k THEN None ELSE files[i]
    BY <1>2 DEF Disowned
  <2> QED BY <1>2, <2>1, <2>2
<1>4. t = [byHash |-> [s.byHash EXCEPT ![Bucket(k)] = longer],
           byName |-> [s.byName EXCEPT ![k] = n]]
  BY <1>1 DEF Added, Files, Store
<1> HIDE DEF longer
<1>5. s.byHash \in [Buckets -> Seq(Keys \cup {None})] /\ s.byName \in [Keys -> Nat \cup {None}]
  BY DEF Store
<1>6. /\ \A b \in Buckets : t.byHash[b] = IF b = Bucket(k) THEN longer ELSE s.byHash[b]
      /\ \A j \in Keys : t.byName[j] = IF j = k THEN n ELSE s.byName[j]
  BY <1>4, <1>5
<1>7. Files(t, k) = longer
  BY <1>1, <1>6 DEF Files
<1> QED BY <1>2, <1>3, <1>6, <1>7 DEF FilesAdded

(* The last certificate of the bucket takes the place of the removed one.  *)
FilesRemoved(s, t, k, n, index, moved) ==
    /\ n \in Nat /\ index \in Nat /\ index < n
    /\ \A b \in Buckets : b # Bucket(k) => t.byHash[b] = s.byHash[b]
    /\ Len(Files(t, k)) = n - 1
    /\ \A i \in 1..(n - 1) : Files(t, k)[i] = IF i = index + 1 THEN moved ELSE Files(s, k)[i]
    /\ \A j \in Keys : t.byName[j] = IF j = moved THEN index ELSE s.byName[j]

LEMMA RemovedFiles ==
    ASSUME NEW s \in Store, NEW k \in Keys, Removable(s, k)
    PROVE  LET n == Len(Files(s, k))
           IN  FilesRemoved(s, Removed(s, k), k, n, s.byName[k], Files(s, k)[n])
<1> USE CertificatesAssumption
<1> DEFINE t == Removed(s, k)
           n == Len(Files(s, k))
           index == s.byName[k]
           moved == Files(s, k)[n]
           files == Files(s, k)
           swapped == [files EXCEPT ![index + 1] = moved]
           rest == SubSeq(swapped, 1, n - 1)
           names == [j \in Keys |-> IF j = moved THEN index ELSE s.byName[j]]
<1>1. Bucket(k) \in Buckets
  BY DEF Bucket, Subject
<1>2. files \in Seq(Keys \cup {None}) /\ n = Len(files) /\ n \in Nat
  BY <1>1 DEF Files, Store
<1>3. index \in Nat /\ index < n
  BY DEF Removable, Store
<1>4. t = [byHash |-> [s.byHash EXCEPT ![Bucket(k)] = rest], byName |-> names]
  BY DEF Removed
<1>5. /\ Len(rest) = n - 1
      /\ \A i \in 1..(n - 1) : rest[i] = IF i = index + 1 THEN moved ELSE files[i]
  <2>1. moved \in Keys \cup {None}
    BY <1>2, <1>3
  <2>2. files \in [1..n -> Keys \cup {None}]
    BY <1>2
  <2> HIDE DEF files
  <2>3. swapped \in [1..n -> Keys \cup {None}]
    BY <2>1, <2>2
  <2>4. \A i \in 1..n : swapped[i] = IF i = index + 1 THEN moved ELSE files[i]
    BY <2>2
  <2> HIDE DEF swapped
  <2>5. swapped \in Seq(Keys \cup {None}) /\ Len(swapped) = n
    BY <1>2, <2>3
  <2> QED BY <1>2, <1>3, <2>4, <2>5
<1> HIDE DEF rest
<1>6. s.byHash \in [Buckets -> Seq(Keys \cup {None})] /\ s.byName \in [Keys -> Nat \cup {None}]
  BY DEF Store
<1>7. /\ \A b \in Buckets : t.byHash[b] = IF b = Bucket(k) THEN rest ELSE s.byHash[b]
      /\ \A j \in Keys : t.byName[j] = IF j = moved THEN index ELSE s.byName[j]
  BY <1>4, <1>6
<1>8. Files(t, k) = rest
  BY <1>1, <1>7 DEF Files
<1> QED BY <1>2, <1>3, <1>5, <1>7, <1>8 DEF FilesRemoved

LEMMA FilesTyped ==
    ASSUME NEW s \in Store, NEW k \in Keys
    PROVE  /\ Bucket(k) \in Buckets
           /\ s.byName[k] \in Nat \cup {None}
           /\ Len(Files(s, k)) \in Nat
           /\ FiledIn(s, k) =>
                 s.byName[k] \in Nat /\ s.byName[k] + 1 \in 1..Len(Files(s, k))
<1>1. Bucket(k) \in Buckets
  BY CertificatesAssumption DEF Bucket, Subject
<1>2. s.byName[k] \in Nat \cup {None}
  BY DEF Store
<1>3. Files(s, k) \in Seq(Keys \cup {None})
  BY <1>1 DEF Files, Store
<1> QED BY <1>1, <1>2, <1>3 DEF FiledIn, Removable

(* A new certificate takes no other's place, and no other's number.        *)
LEMMA AddedFiled ==
    ASSUME NEW s \in Store, NEW k \in Keys, InBuckets(s)
    PROVE  /\ InBuckets(Added(s, k))
           /\ FiledIn(Added(s, k), k)
           /\ \A j \in Keys : FiledIn(s, j) => FiledIn(Added(s, k), j)
<1> DEFINE t == Added(s, k)
           n == Len(Files(s, k))
<1>1. /\ n \in Nat
      /\ \A b \in Buckets : b # Bucket(k) => t.byHash[b] = s.byHash[b]
      /\ Len(Files(t, k)) = n + 1 /\ Files(t, k)[n + 1] = k
      /\ \A i \in 1..n : Files(t, k)[i] = IF Files(s, k)[i] = k THEN None ELSE Files(s, k)[i]
      /\ \A j \in Keys : t.byName[j] = IF j = k THEN n ELSE s.byName[j]
  <2>1. FilesAdded(s, t, k, n)
    BY AddedFiles
  <2> HIDE DEF t, n
  <2> QED BY <2>1 DEF FilesAdded
<1> HIDE DEF t
<1>2. InBuckets(t)
  <2> SUFFICES ASSUME NEW b \in Buckets, NEW i \in 1..Len(t.byHash[b]), t.byHash[b][i] \in Keys
               PROVE  Bucket(t.byHash[b][i]) = b
    BY DEF InBuckets
  <2>1. CASE b # Bucket(k)
    BY <1>1, <2>1 DEF InBuckets
  <2>2. CASE b = Bucket(k) /\ i = n + 1
    BY <1>1, <2>2 DEF Files
  <2>3. CASE b = Bucket(k) /\ i # n + 1
    <3>1. i \in 1..n /\ Files(s, k) = s.byHash[b] /\ Files(t, k) = t.byHash[b]
      BY <1>1, <2>3 DEF Files
    <3>2. t.byHash[b][i] = s.byHash[b][i]
      BY <1>1, <3>1, CertificatesAssumption
    <3> QED BY <3>1, <3>2 DEF InBuckets
  <2> QED BY <2>1, <2>2, <2>3
<1>3. FiledIn(t, k)
  BY <1>1, CertificatesAssumption DEF FiledIn, Removable
<1>4. ASSUME NEW j \in Keys, FiledIn(s, j), j # k PROVE FiledIn(t, j)
  <2>1. /\ s.byName[j] \in Nat /\ s.byName[j] + 1 \in 1..Len(Files(s, j))
        /\ Files(s, j)[s.byName[j] + 1] = j /\ Bucket(j) \in Buckets
    BY <1>4, FilesTyped DEF FiledIn
  <2>2. t.byName[j] = s.byName[j]
    BY <1>1, <1>4
  <2>3. CASE Bucket(j) # Bucket(k)
    <3>1. Files(t, j) = Files(s, j)
      BY <1>1, <2>1, <2>3 DEF Files
    <3> QED BY <1>4, <2>2, <3>1 DEF FiledIn, Removable
  <2>4. CASE Bucket(j) = Bucket(k)
    <3>1. Files(t, j) = Files(t, k) /\ Files(s, j) = Files(s, k)
      BY <2>4 DEF Files
    <3>2. Files(t, j)[s.byName[j] + 1] = j
      BY <1>1, <1>4, <2>1, <3>1
    <3>3. s.byName[j] < Len(Files(t, j))
      BY <1>1, <2>1, <3>1
    <3> QED BY <2>1, <2>2, <3>2, <3>3, CertificatesAssumption DEF FiledIn, Removable
  <2> QED BY <2>3, <2>4
<1> QED BY <1>2, <1>3, <1>4 DEF t

(* When a certificate is removed, every other one is where the index says  *)
(* still.                                                                  *)
LEMMA RemovedFiled ==
    ASSUME NEW s \in Store, NEW k \in Keys, InBuckets(s), Removable(s, k)
    PROVE  /\ InBuckets(Removed(s, k))
           /\ FiledIn(s, k) =>
                 \A j \in Keys : j # k /\ FiledIn(s, j) => FiledIn(Removed(s, k), j)
<1> DEFINE t == Removed(s, k)
           n == Len(Files(s, k))
           index == s.byName[k]
           moved == Files(s, k)[n]
<1>1. /\ n \in Nat /\ index \in Nat /\ index < n
      /\ \A b \in Buckets : b # Bucket(k) => t.byHash[b] = s.byHash[b]
      /\ Len(Files(t, k)) = n - 1
      /\ \A i \in 1..(n - 1) :
            Files(t, k)[i] = IF i = index + 1 THEN moved ELSE Files(s, k)[i]
      /\ \A j \in Keys : t.byName[j] = IF j = moved THEN index ELSE s.byName[j]
  <2>1. FilesRemoved(s, t, k, n, index, moved)
    BY RemovedFiles
  <2> HIDE DEF t, n, index, moved
  <2> QED BY <2>1 DEF FilesRemoved
<1>2. moved \in Keys => Bucket(moved) = Bucket(k)
  <2>1. n \in 1..n
    BY <1>1
  <2> QED BY <2>1, FilesTyped DEF InBuckets, Files
<1> HIDE DEF t
<1>3. InBuckets(t)
  <2> SUFFICES ASSUME NEW b \in Buckets, NEW i \in 1..Len(t.byHash[b]), t.byHash[b][i] \in Keys
               PROVE  Bucket(t.byHash[b][i]) = b
    BY DEF InBuckets
  <2>1. CASE b # Bucket(k)
    BY <1>1, <2>1 DEF InBuckets
  <2>2. CASE b = Bucket(k)
    <3>1. /\ Files(s, k) = s.byHash[b] /\ Files(t, k) = t.byHash[b]
          /\ i \in 1..(n - 1) /\ i \in 1..n
      BY <1>1, <2>2 DEF Files
    <3>2. t.byHash[b][i] = IF i = index + 1 THEN moved ELSE s.byHash[b][i]
      BY <1>1, <3>1
    <3> HIDE DEF moved
    <3> QED BY <1>2, <2>2, <3>1, <3>2 DEF InBuckets
  <2> QED BY <2>1, <2>2
<1>4. ASSUME FiledIn(s, k), NEW j \in Keys, j # k, FiledIn(s, j) PROVE FiledIn(t, j)
  <2>1. /\ s.byName[j] \in Nat /\ s.byName[j] + 1 \in 1..Len(Files(s, j))
        /\ Files(s, j)[s.byName[j] + 1] = j /\ Bucket(j) \in Buckets
        /\ Files(s, k)[index + 1] = k
    BY <1>4, FilesTyped DEF FiledIn
  <2>2. t.byName[j] = IF j = moved THEN index ELSE s.byName[j]
    BY <1>1
  <2>3. CASE Bucket(j) # Bucket(k)
    <3>1. Files(t, j) = Files(s, j) /\ j # moved
      BY <1>1, <1>2, <2>1, <2>3 DEF Files
    <3> QED BY <1>4, <2>2, <3>1 DEF FiledIn, Removable
  <2>4. CASE Bucket(j) = Bucket(k)
    <3>1. Files(t, j) = Files(t, k) /\ Files(s, j) = Files(s, k)
      BY <2>4 DEF Files
    <3>2. CASE j = moved
      <4>1. index # n - 1
        BY <1>1, <1>4, <2>1, <3>2
      <4>2. index + 1 \in 1..(n - 1) /\ index < n - 1
        BY <1>1, <4>1
      <4>3. Files(t, j)[index + 1] = j
        BY <1>1, <3>1, <3>2, <4>2
      <4> QED BY <1>1, <2>2, <3>1, <3>2, <4>2, <4>3, CertificatesAssumption DEF FiledIn, Removable
    <3>3. CASE j # moved
      <4>1. s.byName[j] + 1 # n /\ s.byName[j] # index
        BY <1>4, <2>1, <3>1, <3>3
      <4>2. /\ s.byName[j] + 1 \in 1..(n - 1) /\ s.byName[j] + 1 # index + 1
            /\ s.byName[j] < n - 1
        BY <1>1, <2>1, <3>1, <4>1
      <4>3. Files(t, j)[s.byName[j] + 1] = j
        BY <1>1, <2>1, <3>1, <4>2
      <4> QED BY <1>1, <2>1, <2>2, <3>1, <3>3, <4>2, <4>3, CertificatesAssumption
          DEF FiledIn, Removable
    <3> QED BY <3>2, <3>3
  <2> QED BY <2>3, <2>4
<1> QED BY <1>3, <1>4 DEF t
===============================================================================
