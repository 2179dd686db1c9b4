---------------------------- MODULE DoctorProofs ----------------------------
(***************************************************************************)
(* Proofs about modules Doctor and Ollama, for every machine, store and    *)
(* name, with any number of files added and removed meanwhile. What ollama *)
(* adds and removes lies at depths of its own below the store, so a step   *)
(* about one model leaves the library, the working directory and the files *)
(* of the others alone; what has been resolved, opened and listed of a     *)
(* model is then still true of it, and what can be run is listed or still  *)
(* ahead.                                                                  *)
(***************************************************************************)
EXTENDS Doctor, SequenceTheorems, WellFoundedInduction, TLAPS

-----------------------------------------------------------------------------
(* The paths of the store.                                                 *)

Model == [space : Names, name : Names, tag : Names]

\* Those of the library, which doctor lists.
Own == {m \in Model : m.space = "library"}

\* Two more names at the end of a path.
LEMMA TwoMore ==
  ASSUME NEW S, NEW s \in Seq(S), NEW x, NEW y
  PROVE  /\ Len(s) \in Nat /\ Len(s \o <<x, y>>) = Len(s) + 2
         /\ (s \o <<x, y>>)[Len(s) + 1] = x /\ (s \o <<x, y>>)[Len(s) + 2] = y
         /\ \A j \in 1 .. Len(s) : (s \o <<x, y>>)[j] = s[j]
         /\ x \in S /\ y \in S => s \o <<x, y>> \in Seq(S)
<1> DEFINE U == S \cup {x, y}
           t == <<x, y>>
           n == Len(s)
<1>1. n \in Nat
  OBVIOUS
<1>2. s \in Seq(U) /\ t \in Seq(U) /\ Len(t) = 2 /\ t[1] = x /\ t[2] = y
  <2>1. s \in Seq(U)
    BY SeqMonotonic
  <2> QED BY <2>1
<1>3. x \in S /\ y \in S => t \in Seq(S)
  OBVIOUS
<1> HIDE DEF t, U
<1>4. /\ Len(s \o t) = Len(s) + Len(t)
      /\ \A j \in 1 .. Len(s) + Len(t) : (s \o t)[j] = IF j <= Len(s) THEN s[j] ELSE t[j - Len(s)]
  BY <1>2, ConcatProperties
<1>5. x \in S /\ y \in S => s \o t \in Seq(S)
  BY <1>3, ConcatProperties
<1> HIDE DEF n
<1>6. Len(s \o t) = n + 2 /\ \A j \in 1 .. n + 2 : (s \o t)[j] = IF j <= n THEN s[j] ELSE t[j - n]
  BY <1>2, <1>4 DEF n
<1>7. (s \o t)[n + 1] = x
  <2>1. n + 1 \in 1 .. n + 2 /\ ~(n + 1 <= n) /\ (n + 1) - n = 1
    BY <1>1
  <2> QED BY <1>2, <1>6, <2>1
<1>8. (s \o t)[n + 2] = y
  <2>1. n + 2 \in 1 .. n + 2 /\ ~(n + 2 <= n) /\ (n + 2) - n = 2
    BY <1>1
  <2> QED BY <1>2, <1>6, <2>1
<1>9. \A j \in 1 .. n : (s \o t)[j] = s[j]
  <2>1. \A j \in 1 .. n : j \in 1 .. n + 2 /\ j <= n
    BY <1>1
  <2> QED BY <1>6, <2>1
<1> QED BY <1>1, <1>5, <1>6, <1>7, <1>8, <1>9 DEF t, n

\* A namespace is three names below the store.
LEMMA SpaceIs ==
  ASSUME NEW a \in Names
  PROVE  /\ Len(Store) \in Nat /\ Space(a) \in Seq(Names) /\ Len(Space(a)) = Len(Store) + 3
         /\ Space(a)[Len(Store) + 1] = "manifests" /\ Space(a)[Len(Store) + 3] = a
         /\ \A j \in 1 .. Len(Store) : Space(a)[j] = Store[j]
         /\ Registry \in Seq(Names) /\ Len(Registry) = Len(Store) + 2
         /\ \A j \in 1 .. Len(Store) + 2 : Space(a)[j] = Registry[j]
<1> DEFINE n == Len(Store)
           u == "manifests"
           v == "registry.ollama.ai"
           r == Store \o <<u, v>>
<1>1. Store \in Seq(Names)
  BY NamesAssumption
<1>2. n \in Nat /\ u \in Names /\ v \in Names
  <2>1. n \in Nat
    BY <1>1
  <2>2. u \in Names /\ v \in Names
    BY NamesAssumption
  <2> QED BY <2>1, <2>2
<1> HIDE DEF u, v
<1>10. /\ r \in Seq(Names) /\ Len(r) = n + 2 /\ r[n + 1] = u /\ \A j \in 1 .. n : r[j] = Store[j]
  BY <1>1, <1>2, TwoMore
<1> USE DEF u, v
<1>3. Space(a) = Append(r, a) /\ Registry = r
  BY DEF Space, Registry
<1> HIDE DEF r
<1>4. /\ Append(r, a) \in Seq(Names) /\ Len(Append(r, a)) = Len(r) + 1 /\ Append(r, a)[Len(r) + 1] = a
      /\ \A j \in 1 .. Len(r) : Append(r, a)[j] = r[j]
  BY <1>10, AppendProperties
<1> HIDE DEF n
<1>5. /\ Space(a) \in Seq(Names) /\ Len(Space(a)) = (n + 2) + 1 /\ Space(a)[(n + 2) + 1] = a
      /\ \A j \in 1 .. n + 2 : Space(a)[j] = r[j]
  BY <1>3, <1>4, <1>10
<1>6. (n + 2) + 1 = n + 3 /\ n + 1 \in 1 .. n + 2 /\ \A j \in 1 .. n : j \in 1 .. n + 2
  BY <1>2
<1>7. Space(a)[n + 1] = "manifests" /\ \A j \in 1 .. n : Space(a)[j] = Store[j]
  BY <1>5, <1>6, <1>10
<1>8. Len(Space(a)) = n + 3 /\ Space(a)[n + 3] = a
  BY <1>5, <1>6
<1> QED BY <1>2, <1>3, <1>5, <1>7, <1>8, <1>10 DEF n

\* The library is one.
LEMMA LibraryIs ==
  /\ "library" \in Names /\ Library = Space("library")
  /\ Len(Store) \in Nat /\ Library \in Seq(Names) /\ Len(Library) = Len(Store) + 3
<1>1. "library" \in Names /\ Library = Space("library")
  BY NamesAssumption DEF Library
<1> QED BY <1>1, SpaceIs

\* A manifest, the directory of a name, and a blob lie at different depths.
LEMMA TaggedIs ==
  ASSUME NEW m \in Model
  PROVE  /\ Tagged(m) \in Seq(Names) /\ Len(Tagged(m)) = Len(Store) + 5
         /\ Tagged(m)[Len(Store) + 1] = "manifests" /\ Tagged(m)[Len(Store) + 3] = m.space
         /\ Tagged(m)[Len(Store) + 4] = m.name /\ Tagged(m)[Len(Store) + 5] = m.tag
         /\ \A j \in 1 .. Len(Store) + 3 : Tagged(m)[j] = Space(m.space)[j]
<1> DEFINE n == Len(Store)
           s == Space(m.space)
           k == Len(s)
           a == m.name
           b == m.tag
<1>1. /\ n \in Nat /\ s \in Seq(Names) /\ k = n + 3 /\ s[n + 1] = "manifests" /\ s[n + 3] = m.space
  <2>1. m.space \in Names
    BY DEF Model
  <2> QED BY <2>1, SpaceIs
<1>2. a \in Names /\ b \in Names
  BY DEF Model
<1> HIDE DEF a, b, k, s
<1>3. Tagged(m) = s \o <<a, b>>
  BY DEF Tagged, a, b, s
<1>4. /\ Tagged(m) \in Seq(Names) /\ Len(Tagged(m)) = k + 2 /\ Tagged(m)[k + 1] = a /\ Tagged(m)[k + 2] = b
      /\ \A j \in 1 .. k : Tagged(m)[j] = s[j]
  BY <1>1, <1>2, <1>3, TwoMore DEF k
<1>5. k + 2 = n + 5 /\ k + 1 = n + 4 /\ n + 1 \in 1 .. k /\ n + 3 \in 1 .. k
  BY <1>1
<1> HIDE DEF n
<1>6. Tagged(m)[n + 1] = "manifests" /\ Tagged(m)[n + 3] = m.space
  BY <1>1, <1>4, <1>5
<1> QED BY <1>1, <1>4, <1>5, <1>6 DEF n, a, b, s

\* The directory of a name is one name below its namespace.
LEMMA DirIs ==
  ASSUME NEW c \in Names, NEW a \in Names
  PROVE  /\ Append(Space(c), a) \in Seq(Names) /\ Len(Append(Space(c), a)) = Len(Store) + 4
         /\ Append(Space(c), a)[Len(Store) + 4] = a
         /\ \A j \in 1 .. Len(Store) + 3 : Append(Space(c), a)[j] = Space(c)[j]
<1> DEFINE n == Len(Store)
           s == Space(c)
           k == Len(s)
<1>1. n \in Nat /\ s \in Seq(Names) /\ k = n + 3 /\ k + 1 = n + 4
  BY SpaceIs
<1> HIDE DEF s
<1>2. /\ Append(s, a) \in Seq(Names) /\ Len(Append(s, a)) = k + 1
      /\ Append(s, a)[k + 1] = a /\ \A j \in 1 .. k : Append(s, a)[j] = s[j]
  BY <1>1, AppendProperties
<1> HIDE DEF n, k
<1>3. /\ Append(s, a) \in Seq(Names) /\ Len(Append(s, a)) = n + 4
      /\ Append(s, a)[n + 4] = a /\ \A j \in 1 .. n + 3 : Append(s, a)[j] = s[j]
  BY <1>1, <1>2
<1> QED BY <1>3 DEF n, s

\* A blob is two names below the store, and not in its manifests.
LEMMA BlobIs ==
  ASSUME NEW d
  PROVE  /\ Len(Blob(d)) = Len(Store) + 2 /\ Blob(d)[Len(Store) + 1] = "blobs"
         /\ \A j \in 1 .. Len(Store) : Blob(d)[j] = Store[j]
         /\ BlobName(d) \in Names => Blob(d) \in Seq(Names)
<1> DEFINE x == "blobs"
           y == BlobName(d)
<1>1. Store \in Seq(Names) /\ x \in Names
  BY NamesAssumption
<1>2. Blob(d) = Store \o <<x, y>>
  BY DEF Blob
<1> HIDE DEF x, y
<1>3. /\ Len(Store \o <<x, y>>) = Len(Store) + 2 /\ (Store \o <<x, y>>)[Len(Store) + 1] = x
      /\ \A j \in 1 .. Len(Store) : (Store \o <<x, y>>)[j] = Store[j]
      /\ x \in Names /\ y \in Names => Store \o <<x, y>> \in Seq(Names)
  BY <1>1, TwoMore
<1> QED BY <1>1, <1>2, <1>3 DEF x, y

\* What a path begins with.
LEMMA Prefix ==
  ASSUME NEW p \in Seq(Names), NEW q \in Seq(Names), Len(q) <= Len(p), \A j \in 1 .. Len(q) : p[j] = q[j]
  PROVE  SubSeq(p, 1, Len(q)) = q
<1> DEFINE n == Len(q)
           s == SubSeq(p, 1, n)
<1>1. n \in Nat /\ Len(p) \in Nat /\ n \in Int /\ 1 \in Int /\ \A j \in 1 .. n : p[j] \in Names
  OBVIOUS
<1>2. (1 <= n => n - 1 + 1 = n) /\ (~(1 <= n) => n = 0) /\ \A j \in 1 .. n : j \in 1 .. n - 1 + 1 /\ 1 + j - 1 = j
  BY <1>1
<1>3. n \in Nat /\ \A j \in 1 .. n : p[j] = q[j]
  OBVIOUS
<1> HIDE DEF n
<1>4. /\ SubSeq(p, 1, n) \in Seq(Names) /\ Len(SubSeq(p, 1, n)) = IF 1 <= n THEN n - 1 + 1 ELSE 0
      /\ \A j \in 1 .. n - 1 + 1 : SubSeq(p, 1, n)[j] = p[1 + j - 1]
  BY <1>1, SubSeqProperties
<1>5. \A j \in 1 .. n : SubSeq(p, 1, n)[j] = q[j]
  BY <1>2, <1>3, <1>4, Zenon
<1>6. Len(SubSeq(p, 1, n)) = n
  BY <1>2, <1>4
<1> HIDE DEF s
<1>7. s = q
  <2>1. s \in Seq(Names) /\ Len(s) = Len(q) /\ \A j \in 1 .. Len(s) : s[j] = q[j]
    BY <1>4, <1>5, <1>6 DEF s, n
  <2> QED BY <2>1, SeqEqual
<1> QED BY <1>7 DEF s, n

\* A path in the store is not one in the working directory.
LEMMA Outside ==
  ASSUME NEW p, Len(p) >= Len(Store) + 2, Len(p) \in Nat, \A j \in 1 .. Len(Store) : p[j] = Store[j], NEW a, NEW b
  PROVE  p # Here(a, b)
<1> SUFFICES ASSUME p = Here(a, b) PROVE FALSE
  OBVIOUS
<1> DEFINE x == FileName(a, b)
           U == Names \cup {x}
           w == WorkDir
<1>1. w \in Seq(Names) /\ ~Within(w, Store) /\ Store \in Seq(Names)
  BY DoctorAssumption, NamesAssumption
<1>2. Len(w) \in Nat /\ Len(Store) \in Nat
  BY <1>1
<1>3. w \in Seq(U) /\ x \in U
  BY <1>1, SeqMonotonic
<1>4. p = Append(w, x)
  BY DEF Here
<1> HIDE DEF x, U, w
<1>5. Len(p) = Len(w) + 1 /\ \A j \in 1 .. Len(w) : p[j] = w[j]
  BY <1>3, <1>4, AppendProperties
<1>6. Len(w) > Len(Store) /\ Len(Store) <= Len(w) /\ \A j \in 1 .. Len(Store) : j \in 1 .. Len(w)
  BY <1>2, <1>5
<1>7. \A j \in 1 .. Len(Store) : w[j] = Store[j]
  BY <1>5, <1>6
<1>8. SubSeq(w, 1, Len(Store)) = Store
  BY <1>1, <1>6, <1>7, Prefix
<1> QED BY <1>1, <1>6, <1>8 DEF Within

\* The paths that ollama adds or removes: no two kinds have one in common.
LEMMA Apart ==
  ASSUME NEW m \in Model
  PROVE  /\ \A o \in Model : Tagged(m) = Tagged(o) => m = o
         /\ \A d : Tagged(m) # Blob(d)
         /\ \A c, a \in Names : Tagged(m) # Append(Space(c), a)
         /\ (\A c \in Names : Tagged(m) # Space(c)) /\ Tagged(m) # NoPath
         /\ \A a, b : Tagged(m) # Here(a, b)
<1>1. Len(Store) \in Nat
  BY LibraryIs
<1>2. Len(Tagged(m)) = Len(Store) + 5
  BY TaggedIs
<1>3. \A o \in Model : Tagged(m) = Tagged(o) => m = o
  <2> SUFFICES ASSUME NEW o \in Model, Tagged(m) = Tagged(o) PROVE m = o
    OBVIOUS
  <2>1. m.space = o.space /\ m.name = o.name /\ m.tag = o.tag
    BY TaggedIs
  <2>2. /\ m = [space |-> m.space, name |-> m.name, tag |-> m.tag]
        /\ o = [space |-> o.space, name |-> o.name, tag |-> o.tag]
    BY DEF Model
  <2> QED BY <2>1, <2>2
<1>4. \A d : Tagged(m) # Blob(d)
  BY <1>1, <1>2, BlobIs
<1>5. \A c, a \in Names : Tagged(m) # Append(Space(c), a)
  <2> SUFFICES ASSUME NEW c \in Names, NEW a \in Names PROVE Tagged(m) # Append(Space(c), a)
    OBVIOUS
  <2> DEFINE q == Append(Space(c), a)
  <2>1. Len(q) = Len(Store) + 4
    BY DirIs
  <2> HIDE DEF q
  <2>2. Tagged(m) # q
    BY <1>1, <1>2, <2>1
  <2> QED BY <2>2 DEF q
<1>6. (\A c \in Names : Tagged(m) # Space(c)) /\ Tagged(m) # NoPath
  BY <1>1, <1>2, SpaceIs DEF NoPath
<1>7. \A a, b : Tagged(m) # Here(a, b)
  <2>1. \A j \in 1 .. Len(Store) : Tagged(m)[j] = Store[j]
    <3>1. m.space \in Names /\ \A j \in 1 .. Len(Store) : j \in 1 .. Len(Store) + 3
      BY <1>1 DEF Model
    <3> QED BY <3>1, TaggedIs, SpaceIs
  <2> QED BY <1>1, <1>2, <2>1, Outside
<1> QED BY <1>3, <1>4, <1>5, <1>6, <1>7

\* The same of a blob.
LEMMA BlobApart ==
  ASSUME NEW d
  PROVE  /\ \A c, a \in Names : Blob(d) # Append(Space(c), a)
         /\ (\A c \in Names : Blob(d) # Space(c)) /\ Blob(d) # NoPath
         /\ \A a, b : Blob(d) # Here(a, b)
<1>1. Len(Store) \in Nat
  BY LibraryIs
<1>2. Len(Blob(d)) = Len(Store) + 2
  BY BlobIs
<1>3. \A c, a \in Names : Blob(d) # Append(Space(c), a)
  <2> SUFFICES ASSUME NEW c \in Names, NEW a \in Names PROVE Blob(d) # Append(Space(c), a)
    OBVIOUS
  <2> DEFINE q == Append(Space(c), a)
  <2>1. Len(q) = Len(Store) + 4
    BY DirIs
  <2> HIDE DEF q
  <2>2. Blob(d) # q
    BY <1>1, <1>2, <2>1
  <2> QED BY <2>2 DEF q
<1>4. (\A c \in Names : Blob(d) # Space(c)) /\ Blob(d) # NoPath
  BY <1>1, <1>2, SpaceIs DEF NoPath
<1>5. \A a, b : Blob(d) # Here(a, b)
  <2>1. \A j \in 1 .. Len(Store) : Blob(d)[j] = Store[j]
    BY BlobIs
  <2> QED BY <1>1, <1>2, <2>1, Outside
<1> QED BY <1>3, <1>4, <1>5

\* The same of the directory of a name.
LEMMA DirApart ==
  ASSUME NEW c \in Names, NEW a \in Names
  PROVE  /\ (\A b \in Names : Append(Space(c), a) # Space(b)) /\ Append(Space(c), a) # NoPath
         /\ \A b, e : Append(Space(c), a) # Here(b, e)
<1>1. Len(Store) \in Nat
  BY LibraryIs
<1>2. Len(Append(Space(c), a)) = Len(Store) + 4
  BY DirIs
<1>3. (\A b \in Names : Append(Space(c), a) # Space(b)) /\ Append(Space(c), a) # NoPath
  <2> DEFINE q == Append(Space(c), a)
  <2>1. Len(q) = Len(Store) + 4
    BY <1>2
  <2>2. \A b \in Names : Len(Space(b)) = Len(Store) + 3
    BY SpaceIs
  <2> HIDE DEF q
  <2>3. (\A b \in Names : q # Space(b)) /\ q # NoPath
    BY <1>1, <2>1, <2>2 DEF NoPath
  <2> QED BY <2>3 DEF q
<1>4. \A b, e : Append(Space(c), a) # Here(b, e)
  <2>1. \A j \in 1 .. Len(Store) : Append(Space(c), a)[j] = Store[j]
    <3>1. \A j \in 1 .. Len(Store) : j \in 1 .. Len(Store) + 3
      BY <1>1
    <3> QED BY <3>1, DirIs, SpaceIs
  <2> QED BY <1>1, <1>2, <2>1, Outside
<1> QED BY <1>3, <1>4

-----------------------------------------------------------------------------
(* What a reference names.                                                 *)

Named(s, m) ==
  Tagged(m) \in DOMAIN s /\ s[Tagged(m)].kind = "manifest" /\ ModelLayers(s[Tagged(m)]) # {}

\* FromManifest finds the store again above a manifest.
LEMMA WhereIs ==
  ASSUME NEW m \in Model, NEW s
  PROVE  FromManifest(s, Tagged(m)) = IF Named(s, m) THEN Blob(ModelDigest(s[Tagged(m)])) ELSE NoPath
<1> DEFINE p == Tagged(m)
           n == Len(Store)
<1>1. n \in Nat /\ m.space \in Names /\ Store \in Seq(Names)
  BY LibraryIs, NamesAssumption DEF Model
<1>2. p \in Seq(Names) /\ Len(p) = n + 5 /\ p[n + 1] = "manifests" /\ \A j \in 1 .. n : p[j] = Store[j]
  <2>1. \A j \in 1 .. n : j \in 1 .. n + 3
    BY <1>1
  <2>2. \A j \in 1 .. n : Space(m.space)[j] = Store[j]
    BY <1>1, SpaceIs
  <2>3. p \in Seq(Names) /\ Len(p) = n + 5 /\ p[n + 1] = "manifests" /\ \A j \in 1 .. n + 3 : p[j] = Space(m.space)[j]
    BY TaggedIs
  <2> HIDE DEF n, p
  <2> QED BY <2>1, <2>2, <2>3
<1> HIDE DEF n, p
<1>3. Len(p) > 4 /\ Len(p) - 4 = n + 1 /\ Len(p) - 5 = n /\ n <= Len(p)
  BY <1>1, <1>2
<1>4. Root(p) = Store
  <2>1. SubSeq(p, 1, Len(Store)) = Store
    BY <1>1, <1>2, <1>3, Prefix DEF n
  <2> QED BY <1>3, <2>1 DEF Root, n
<1>5. FromManifest(s, p) = IF p \in DOMAIN s /\ s[p].kind = "manifest" /\ ModelLayers(s[p]) # {}
                           THEN Root(p) \o <<"blobs", BlobName(ModelDigest(s[p]))>> ELSE NoPath
  BY <1>2, <1>3 DEF FromManifest
<1> QED BY <1>4, <1>5 DEF Named, Blob, p

\* Two names appended one by one.
LEMMA TwoAppended ==
  ASSUME NEW S, NEW s \in Seq(S), NEW x \in S, NEW y \in S
  PROVE  Append(Append(s, x), y) = s \o <<x, y>>
<1> DEFINE p == Append(s, x)
           q == Append(p, y)
           r == s \o <<x, y>>
           n == Len(s)
<1>1. n \in Nat /\ p \in Seq(S) /\ Len(p) = n + 1 /\ p[n + 1] = x /\ \A j \in 1 .. n : p[j] = s[j]
  BY AppendProperties
<1> HIDE DEF p
<1>2. q \in Seq(S) /\ Len(q) = Len(p) + 1 /\ q[Len(p) + 1] = y /\ \A j \in 1 .. Len(p) : q[j] = p[j]
  BY <1>1, AppendProperties
<1>3. r \in Seq(S) /\ Len(r) = n + 2 /\ r[n + 1] = x /\ r[n + 2] = y /\ \A j \in 1 .. n : r[j] = s[j]
  BY TwoMore
<1> HIDE DEF q, r, n
<1>4. Len(q) = n + 2 /\ q[n + 2] = y /\ q[n + 1] = x /\ \A j \in 1 .. n : q[j] = s[j]
  <2>1. (n + 1) + 1 = n + 2 /\ n + 1 \in 1 .. n + 1 /\ \A j \in 1 .. n : j \in 1 .. n + 1
    BY <1>1
  <2> QED BY <1>1, <1>2, <2>1
<1>5. \A j \in 1 .. n + 2 : q[j] = r[j]
  <2>1. \A j \in 1 .. n + 2 : j \in 1 .. n \/ j = n + 1 \/ j = n + 2
    BY <1>1
  <2> QED BY <1>3, <1>4, <2>1
<1>6. q = r
  BY <1>2, <1>3, <1>4, <1>5, SeqEqual
<1> QED BY <1>6 DEF p, q, r

\* A reference that is no file is looked up under its name and tag, also when
\* latest is left out, and outside the library under its namespace.
LEMMA RefIs ==
  ASSUME NEW m \in Model
  PROVE  /\ ManifestOf(Ref(m)) = Tagged(m) /\ ManifestOf(Short(m)) = Tagged(m)
         /\ m \in Own => Ref(m).here = Here(m.name, m.tag) /\ \E t : Short(m).here = Here(m.name, t)
<1> DEFINE c == m.space
           a == m.name
           b == m.tag
           short == IF b = "latest" THEN "" ELSE b
<1>1. c \in Names /\ a \in Names /\ b \in Names /\ b # ""
  BY NamesAssumption DEF Model
<1>2. Tagged(m) = Space(c) \o <<a, b>>
  BY DEF Tagged
<1>3. \A t : RefAs(m, t).name = (IF c = "library" THEN <<a>> ELSE <<c, a>>) /\ RefAs(m, t).tag = t
  BY DEF RefAs
<1>4. \A t : m \in Own => RefAs(m, t).here = Here(a, t)
  BY DEF RefAs, Own
<1>5. Ref(m) = RefAs(m, b) /\ Short(m) = RefAs(m, short)
  BY DEF Ref, Short
<1>6. \A t : t = b \/ (t = "" /\ b = "latest") => TagOf(RefAs(m, t)) = b
  BY <1>1, <1>3 DEF TagOf
<1>7. short = b \/ (short = "" /\ b = "latest")
  OBVIOUS
<1> HIDE DEF a, b, c, short
<1>8. (IF c = "library" THEN Library \o <<a>> ELSE Registry \o <<c, a>>) \o <<b>> = Space(c) \o <<a, b>>
  <2>1. Space(c) \in Seq(Names) /\ Append(Space(c), a) \in Seq(Names)
    BY <1>1, SpaceIs, DirIs
  <2>2. Append(Space(c), a) = Space(c) \o <<a>> /\ Append(Append(Space(c), a), b) = Append(Space(c), a) \o <<b>>
    BY <1>1, <2>1, AppendIsConcat
  <2>3. Append(Append(Space(c), a), b) = Space(c) \o <<a, b>>
    BY <1>1, <2>1, TwoAppended
  <2>4. Append(Space(c), a) = Registry \o <<c, a>>
    <3>1. Registry \in Seq(Names)
      BY <1>1, SpaceIs
    <3>2. Append(Append(Registry, c), a) = Registry \o <<c, a>>
      BY <1>1, <3>1, TwoAppended
    <3> QED BY <3>2 DEF Space
  <2>5. c = "library" => Library = Space(c)
    BY DEF Library
  <2> QED BY <2>2, <2>3, <2>4, <2>5
<1>9. \A t : TagOf(RefAs(m, t)) = b => ManifestOf(RefAs(m, t)) = Tagged(m)
  <2> SUFFICES ASSUME NEW t, TagOf(RefAs(m, t)) = b PROVE ManifestOf(RefAs(m, t)) = Tagged(m)
    OBVIOUS
  <2>1. Len(<<a>>) = 1 /\ Len(<<c, a>>) # 1
    OBVIOUS
  <2>2. CASE c = "library"
    <3>1. RefAs(m, t).name = <<a>>
      BY <1>3, <2>2
    <3>2. ManifestOf(RefAs(m, t)) = Library \o <<a>> \o <<b>>
      BY <2>1, <3>1 DEF ManifestOf
    <3> QED BY <1>2, <1>8, <2>2, <3>2
  <2>3. CASE c # "library"
    <3>1. RefAs(m, t).name = <<c, a>>
      BY <1>3, <2>3
    <3>2. ManifestOf(RefAs(m, t)) = Registry \o <<c, a>> \o <<b>>
      BY <2>1, <3>1 DEF ManifestOf
    <3> QED BY <1>2, <1>8, <2>3, <3>2
  <2> QED BY <2>2, <2>3
<1>10. ManifestOf(Ref(m)) = Tagged(m) /\ ManifestOf(Short(m)) = Tagged(m)
  <2>1. TagOf(RefAs(m, b)) = b
    BY <1>6
  <2>2. TagOf(RefAs(m, short)) = b
    BY <1>6, <1>7
  <2> QED BY <1>5, <1>9, <2>1, <2>2
<1>11. m \in Own => Ref(m).here = Here(a, b) /\ \E t : Short(m).here = Here(a, t)
  BY <1>4, <1>5
<1> QED BY <1>10, <1>11 DEF a, b

\* It then names the file of its manifest.
LEMMA ResolveIs ==
  ASSUME NEW m \in Model
  PROVE  /\ Ref(m).here \notin DOMAIN fs => Resolve(fs, Ref(m)) = FromManifest(fs, Tagged(m))
         /\ Short(m).here \notin DOMAIN fs => Resolve(fs, Short(m)) = FromManifest(fs, Tagged(m))
<1>1. ManifestOf(Ref(m)) = Tagged(m) /\ ManifestOf(Short(m)) = Tagged(m)
  BY RefIs
<1> QED BY <1>1, Zenon DEF Resolve

-----------------------------------------------------------------------------
(* What the store holds.                                                   *)

\* A set of numbers with a member has a least one.
LEMMA Least ==
  ASSUME NEW S, S \subseteq Nat, S # {}
  PROVE  \E x \in S : \A y \in S : x <= y
<1> DEFINE R == OpToRel(<, Nat)
<1>1. IsWellFoundedOn(R, Nat)
  BY NatLessThanWellFounded
<1> HIDE DEF R
<1>2. PICK x \in S : \A y \in S : ~(<<y, x>> \in R)
  BY <1>1, WFMin
<1>3. \A y \in S : ~(y < x)
  BY <1>2 DEF R, OpToRel
<1>4. \A y \in S : x <= y
  <2> TAKE y \in S
  <2>1. x \in Nat /\ y \in Nat /\ ~(y < x)
    BY <1>3
  <2> QED BY <2>1
<1> QED BY <1>4

\* The first layer of a model is one of its layers.
LEMMA DigestIs ==
  ASSUME NEW file, DOMAIN file.layers \subseteq Nat, ModelLayers(file) # {}
  PROVE  \E k \in DOMAIN file.layers : ModelDigest(file) = file.layers[k].digest
<1> DEFINE First(k) == \A j \in ModelLayers(file) : k <= j
           c == CHOOSE k \in ModelLayers(file) : First(k)
<1>1. ModelLayers(file) \subseteq DOMAIN file.layers
  BY DEF ModelLayers
<1>2. \E k \in ModelLayers(file) : First(k)
  BY <1>1, Least
<1>3. c \in ModelLayers(file)
  <2> HIDE DEF First
  <2> QED BY <1>2
<1>4. ModelDigest(file) = file.layers[c].digest
  BY DEF ModelDigest
<1> HIDE DEF c
<1> QED BY <1>1, <1>3, <1>4

\* The models of the store are those that have a manifest in it.
HasManifest(m) == Tagged(m) \in DOMAIN fs /\ fs[Tagged(m)].kind = "manifest"

\* The rest of Models only bounds the names that are tried.
LEMMA ModelsAre ==
  ASSUME FileSystem(fs)
  PROVE  /\ Models \subseteq Model
         /\ \A m \in Model : m \in Models <=> HasManifest(m)
<1>1. Models \subseteq Model
  <2> SUFFICES ASSUME NEW m \in Models PROVE m \in Model
    OBVIOUS
  <2>1. PICK p \in DOMAIN fs : Len(p) > 4 /\ m = [space |-> p[Len(p) - 2], name |-> p[Len(p) - 1], tag |-> p[Len(p)]]
    BY DEF Models
  <2>2. p \in Seq(Names)
    BY DEF FileSystem
  <2> QED BY <2>1, <2>2 DEF Model
<1>2. ASSUME NEW m \in Model PROVE m \in Models <=> HasManifest(m)
  <2>1. ASSUME HasManifest(m) PROVE m \in Models
    <3> DEFINE p == Tagged(m)
    <3>1. Len(Store) \in Nat
      BY LibraryIs
    <3>2. p \in DOMAIN fs /\ fs[p].kind = "manifest"
      BY <2>1 DEF HasManifest
    <3>3. /\ Len(p) = Len(Store) + 5 /\ p[Len(Store) + 3] = m.space
          /\ p[Len(Store) + 4] = m.name /\ p[Len(Store) + 5] = m.tag
      BY TaggedIs
    <3>4. m = [space |-> m.space, name |-> m.name, tag |-> m.tag]
      BY DEF Model
    <3> HIDE DEF p
    <3>5. Len(p) > 4 /\ Len(p) - 1 = Len(Store) + 4 /\ Len(p) - 2 = Len(Store) + 3
      BY <3>1, <3>3
    <3>6. m = [space |-> p[Len(p) - 2], name |-> p[Len(p) - 1], tag |-> p[Len(p)]]
      BY <3>3, <3>4, <3>5
    <3> QED BY <3>2, <3>5, <3>6 DEF Models, p
  <2>2. ASSUME m \in Models PROVE HasManifest(m)
    BY <2>2 DEF Models, HasManifest
  <2> QED BY <2>1, <2>2
<1> QED BY <1>1, <1>2

\* The directory above a tag, above a name, and above a namespace.
LEMMA AboveIs ==
  ASSUME NEW m \in Model
  PROVE  LET q == Append(Space(m.space), m.name) IN
         /\ Within(Tagged(m), Registry) /\ SubSeq(Tagged(m), 1, Len(Tagged(m)) - 1) = q
         /\ Within(q, Registry) /\ SubSeq(q, 1, Len(q) - 1) = Space(m.space)
<1> DEFINE p == Tagged(m)
           q == Append(Space(m.space), m.name)
           s == Space(m.space)
           n == Len(Store)
           a == m.name
<1>1. a \in Names /\ m.space \in Names
  BY DEF Model
<1>2. /\ n \in Nat /\ s \in Seq(Names) /\ Len(s) = n + 3 /\ Registry \in Seq(Names) /\ Len(Registry) = n + 2
      /\ \A j \in 1 .. n + 2 : s[j] = Registry[j]
  BY <1>1, SpaceIs
<1>3. p \in Seq(Names) /\ Len(p) = n + 5 /\ p[n + 4] = a /\ \A j \in 1 .. n + 3 : p[j] = s[j]
  BY TaggedIs
<1>4. q \in Seq(Names) /\ Len(q) = n + 4 /\ q[n + 4] = a /\ \A j \in 1 .. n + 3 : q[j] = s[j]
  BY <1>1, DirIs
<1> HIDE DEF p, q, n, a, s
<1>5. SubSeq(p, 1, Len(Registry)) = Registry /\ SubSeq(q, 1, Len(Registry)) = Registry
  <2>1. \A j \in 1 .. n + 2 : j \in 1 .. n + 3
    BY <1>2
  <2>2. \A j \in 1 .. Len(Registry) : p[j] = Registry[j] /\ q[j] = Registry[j]
    BY <1>2, <1>3, <1>4, <2>1
  <2>3. Len(Registry) <= Len(p) /\ Len(Registry) <= Len(q)
    BY <1>2, <1>3, <1>4
  <2> QED BY <1>2, <1>3, <1>4, <2>2, <2>3, Prefix
<1>6. SubSeq(q, 1, Len(s)) = s
  BY <1>2, <1>4, Prefix
<1>7. SubSeq(p, 1, Len(q)) = q
  <2>1. \A j \in 1 .. Len(q) : j \in 1 .. n + 3 \/ j = n + 4
    BY <1>2, <1>4
  <2>2. \A j \in 1 .. Len(q) : p[j] = q[j]
    BY <1>3, <1>4, <2>1
  <2>3. Len(q) <= Len(p)
    BY <1>2, <1>3, <1>4
  <2> QED BY <1>3, <1>4, <2>2, <2>3, Prefix
<1>8. /\ Len(p) > Len(Registry) /\ Len(q) > Len(Registry)
      /\ Len(p) - 1 = Len(q) /\ Len(q) - 1 = Len(s)
  BY <1>2, <1>3, <1>4
<1>9. Within(p, Registry) /\ Within(q, Registry)
  BY <1>5, <1>8 DEF Within
<1> QED BY <1>6, <1>7, <1>8, <1>9 DEF p, q, s

\* A path of the registry lies in a directory.
LEMMA AboveIsDir ==
  ASSUME NEW p, p \in DOMAIN fs, FileSystem(fs), Within(p, Registry)
  PROVE  IsDir(SubSeq(p, 1, Len(p) - 1))
  BY DEF FileSystem, IsDir

\* A model is found by reading its namespace and then the directory of its name.
LEMMA Found ==
  ASSUME FileSystem(fs), NEW m \in Model, Tagged(m) \in DOMAIN fs
  PROVE  LET q == Append(Space(m.space), m.name) IN
         /\ IsDir(Space(m.space)) /\ IsDir(q)
         /\ m.name \in ReadDir(Space(m.space)) /\ m.tag \in ReadDir(q)
<1> DEFINE p == Tagged(m)
           q == Append(Space(m.space), m.name)
           s == Space(m.space)
           n == Len(Store)
<1>1. Within(p, Registry) /\ SubSeq(p, 1, Len(p) - 1) = q /\ Within(q, Registry) /\ SubSeq(q, 1, Len(q) - 1) = s
  BY AboveIs
<1>2. n \in Nat /\ Len(s) = n + 3
  BY SpaceIs DEF Model
<1>3. Len(p) = n + 5 /\ p[n + 5] = m.tag
  BY TaggedIs
<1>4. Len(q) = n + 4 /\ q[n + 4] = m.name
  BY DirIs DEF Model
<1>5. p \in DOMAIN fs
  OBVIOUS
<1> HIDE DEF p, q, s, n
<1>6. IsDir(q)
  BY <1>1, <1>5, AboveIsDir
<1>7. q \in DOMAIN fs
  BY <1>6 DEF IsDir
<1>8. IsDir(s)
  BY <1>1, <1>7, AboveIsDir
<1>9. /\ Len(p) = Len(q) + 1 /\ Len(q) = Len(s) + 1
      /\ Len(p) - 1 = Len(q) /\ Len(q) - 1 = Len(s)
  BY <1>2, <1>3, <1>4
<1>10. q[Len(q)] \in Entries(s)
  BY <1>1, <1>7, <1>9 DEF Entries
<1>11. p[Len(p)] \in Entries(q)
  BY <1>1, <1>5, <1>9 DEF Entries
<1>12. m.name \in ReadDir(s) /\ m.tag \in ReadDir(q)
  <2>1. q[Len(q)] = m.name /\ p[Len(p)] = m.tag
    BY <1>3, <1>4
  <2> QED BY <1>6, <1>8, <1>10, <1>11, <2>1 DEF ReadDir
<1> QED BY <1>6, <1>8, <1>12 DEF q, s

\* What is read are names.
LEMMA ReadNames ==
  ASSUME FileSystem(fs), NEW path, Len(path) \in Nat
  PROVE  ReadDir(path) \subseteq Names
<1>1. ASSUME NEW q \in DOMAIN fs, Len(q) = Len(path) + 1
      PROVE  q[Len(q)] \in Names
  <2>1. q \in Seq(Names)
    BY DEF FileSystem
  <2> QED BY <1>1, <2>1
<1> QED BY <1>1 DEF ReadDir, Entries

-----------------------------------------------------------------------------
(* What ollama leaves alone.                                               *)

Above(q) == SubSeq(q, 1, Len(q) - 1)

\* What FileSystem says of one path.
Sound(s, q) ==
  /\ q \in Seq(Names) \ {NoPath}
  /\ s[q].kind \in Kinds /\ DOMAIN s[q].layers \subseteq Nat
  /\ Within(q, Registry) => Above(q) \in DOMAIN s /\ s[Above(q)].kind = "dir"

\* FileSystem is Sound of every path.
LEMMA SoundIs ==
  ASSUME NEW s
  PROVE  FileSystem(s) <=> \A q \in DOMAIN s : Sound(s, q)
<1>1. ASSUME FileSystem(s), NEW q \in DOMAIN s PROVE Sound(s, q)
  BY <1>1 DEF FileSystem, Sound, Above
<1>2. ASSUME \A q \in DOMAIN s : Sound(s, q) PROVE FileSystem(s)
  BY <1>2 DEF FileSystem, Sound, Above
<1> QED BY <1>1, <1>2

\* Files added, and files that become directories.
LEMMA Adding ==
  ASSUME NEW s, NEW t, FileSystem(s), DOMAIN s \subseteq DOMAIN t,
         \A q \in DOMAIN s : t[q] = s[q] \/ t[q] = Directory,
         \A q \in DOMAIN t \ DOMAIN s : Sound(t, q)
  PROVE  FileSystem(t)
<1>1. Directory.kind = "dir" /\ Directory.kind \in Kinds /\ DOMAIN Directory.layers \subseteq Nat
  BY DEF Directory, File, Kinds
<1>2. ASSUME NEW q \in DOMAIN s PROVE Sound(t, q)
  <2>1. Sound(s, q)
    BY SoundIs
  <2>2. t[q].kind \in Kinds /\ DOMAIN t[q].layers \subseteq Nat
    BY <1>1, <2>1 DEF Sound
  <2>3. ASSUME Within(q, Registry) PROVE Above(q) \in DOMAIN t /\ t[Above(q)].kind = "dir"
    BY <1>1, <2>1, <2>3 DEF Sound
  <2> QED BY <2>1, <2>2, <2>3 DEF Sound
<1> QED BY <1>2, SoundIs

\* Files removed that nothing in the registry lies below.
LEMMA Removing ==
  ASSUME NEW s, NEW t, FileSystem(s), DOMAIN t \subseteq DOMAIN s, \A q \in DOMAIN t : t[q] = s[q],
         \A q \in DOMAIN s : Within(q, Registry) => Above(q) \in DOMAIN t
  PROVE  FileSystem(t)
<1>1. ASSUME NEW q \in DOMAIN t PROVE Sound(t, q)
  <2>1. Sound(s, q) /\ t[q] = s[q]
    BY SoundIs
  <2>2. ASSUME Within(q, Registry) PROVE Above(q) \in DOMAIN t /\ t[Above(q)].kind = "dir"
    BY <2>1, <2>2 DEF Sound
  <2> QED BY <2>1, <2>2 DEF Sound
<1> QED BY <1>1, SoundIs

Same(q) == (q \in DOMAIN fs' <=> q \in DOMAIN fs) /\ (q \in DOMAIN fs => fs'[q] = fs[q])

\* What a step of ollama leaves alone: the library, the working directory, and
\* the models it is not about.
Keeps ==
  /\ FileSystem(fs') /\ Same(Library) /\ touched \subseteq touched'
  /\ \A a, b : Same(Here(a, b))
  /\ \A m \in Model : m \notin touched' =>
       Same(Tagged(m)) /\ (Named(fs, m) => Same(Blob(ModelDigest(fs[Tagged(m)]))))

\* A model's blob is one of those its manifest names.
LEMMA OfBlobs ==
  ASSUME FileSystem(fs), NEW m \in Model, Named(fs, m)
  PROVE  m \in Models /\ Blob(ModelDigest(fs[Tagged(m)])) \in BlobsOf(m)
<1>1. Tagged(m) \in DOMAIN fs /\ HasManifest(m)
  BY DEF Named, HasManifest
<1>2. Sound(fs, Tagged(m))
  BY <1>1, SoundIs
<1>3. DOMAIN fs[Tagged(m)].layers \subseteq Nat /\ ModelLayers(fs[Tagged(m)]) # {}
  BY <1>2 DEF Named, Sound
<1>4. PICK k \in DOMAIN fs[Tagged(m)].layers : ModelDigest(fs[Tagged(m)]) = fs[Tagged(m)].layers[k].digest
  BY <1>3, DigestIs
<1>5. m \in Models
  BY <1>1, ModelsAre
<1> QED BY <1>4, <1>5 DEF BlobsOf

\* A blob pulled is new, and the models that name it are touched.
LEMMA PullBlobKeeps ==
  ASSUME FileSystem(fs), PullBlob
  PROVE  Keeps
<1>1. PICK p \in Pulls :
        /\ Change({m \in Models : Blob(p.digest) \in BlobsOf(m)})
        /\ Blob(p.digest) \notin DOMAIN fs
        /\ fs' = [q \in DOMAIN fs \cup {Blob(p.digest)} |->
                    IF q = Blob(p.digest) THEN File("gguf", <<>>, p.arch) ELSE fs[q]]
  BY DEF PullBlob
<1> DEFINE b == Blob(p.digest)
           f == File("gguf", <<>>, p.arch)
<1>2. touched' = touched \cup {m \in Models : b \in BlobsOf(m)}
  BY <1>1 DEF Change
<1>3. b \in Seq(Names) \ {NoPath} /\ Len(b) = Len(Store) + 2
  BY BlobIs, BlobApart, DoctorAssumption
<1>4. ~Within(b, Registry)
  <2>1. Len(Registry) = Len(Store) + 2 /\ Len(Store) \in Nat
    BY LibraryIs, SpaceIs
  <2>2. ~(Len(b) > Len(Registry))
    <3> HIDE DEF b
    <3> QED BY <1>3, <2>1
  <2> QED BY <2>2 DEF Within
<1>5. f.kind \in Kinds /\ DOMAIN f.layers \subseteq Nat
  BY DEF File, Kinds
<1>6. b # Library /\ (\A c, d : b # Here(c, d)) /\ \A m \in Model : b # Tagged(m)
  BY BlobApart, Apart, LibraryIs
<1>7. b \notin DOMAIN fs /\ fs' = [q \in DOMAIN fs \cup {b} |-> IF q = b THEN f ELSE fs[q]]
  BY <1>1
<1> HIDE DEF b, f
<1>8. DOMAIN fs' = DOMAIN fs \cup {b} /\ fs'[b] = f /\ \A q \in DOMAIN fs : fs'[q] = fs[q]
  BY <1>7
<1>9. Sound(fs', b)
  BY <1>3, <1>4, <1>5, <1>8 DEF Sound
<1>10. FileSystem(fs')
  BY <1>8, <1>9, Adding
<1>11. \A q : q # b => Same(q)
  BY <1>8 DEF Same
<1>12. ASSUME NEW m \in Model, m \notin touched', Named(fs, m)
       PROVE  Same(Blob(ModelDigest(fs[Tagged(m)])))
  BY <1>2, <1>11, <1>12, OfBlobs
<1> QED BY <1>2, <1>6, <1>10, <1>11, <1>12 DEF Keeps

\* A manifest pulled is new, and so are its model and the directory if it was not there.
LEMMA PullManifestKeeps ==
  ASSUME FileSystem(fs), PullManifest
  PROVE  Keeps
<1>1. PICK p \in Pulls :
        LET model == [space |-> p.space, name |-> p.name, tag |-> p.tag]
            dir   == Append(Space(p.space), p.name)
        IN
        /\ Change({model})
        /\ IsDir(Space(p.space)) /\ Tagged(model) \notin DOMAIN fs
        /\ fs' = [q \in DOMAIN fs \cup {dir, Tagged(model)} |->
                    CASE q = Tagged(model) -> Manifest(<<Layer("model", p.digest)>>)
                      [] q = dir -> Directory
                      [] OTHER -> fs[q]]
  BY DEF PullManifest
<1> DEFINE new == [space |-> p.space, name |-> p.name, tag |-> p.tag]
           s == Space(p.space)
           d == Append(s, p.name)
           t == Tagged(new)
           f == Manifest(<<Layer("model", p.digest)>>)
<1>2. new \in Model /\ p.name \in Names /\ p.space \in Names /\ new.name = p.name /\ new.space = p.space
  BY DoctorAssumption DEF Model
<1>3. touched' = touched \cup {new}
  BY <1>1 DEF Change
<1>4. f.kind \in Kinds /\ DOMAIN f.layers \subseteq Nat
  BY DEF Manifest, File, Kinds
<1>5. Within(t, Registry) /\ Above(t) = d /\ Within(d, Registry) /\ Above(d) = s
  <2>1. /\ Within(t, Registry) /\ SubSeq(t, 1, Len(t) - 1) = Append(Space(new.space), new.name)
        /\ Within(Append(Space(new.space), new.name), Registry)
        /\ SubSeq(Append(Space(new.space), new.name), 1, Len(Append(Space(new.space), new.name)) - 1) = Space(new.space)
    BY <1>2, AboveIs
  <2> QED BY <1>2, <2>1 DEF Above
<1>6. /\ t # Library /\ d # Library /\ t # s /\ d # s /\ t # d
      /\ \A a, b : t # Here(a, b) /\ d # Here(a, b)
  BY <1>2, Apart, DirApart, LibraryIs
<1>7. \A m \in Model : (m # new => Tagged(m) # t) /\ Tagged(m) # d
  BY <1>2, Apart
<1>8. \A x : Blob(x) # t /\ Blob(x) # d
  BY <1>2, Apart, BlobApart
<1>9. t \in Seq(Names) \ {NoPath} /\ d \in Seq(Names) \ {NoPath}
  BY <1>2, TaggedIs, DirIs, Apart, DirApart
<1>10. /\ t \notin DOMAIN fs /\ IsDir(s)
       /\ fs' = [q \in DOMAIN fs \cup {d, t} |-> CASE q = t -> f [] q = d -> Directory [] OTHER -> fs[q]]
  BY <1>1
<1> HIDE DEF t, d, f, new, s
<1>11. /\ DOMAIN fs' = DOMAIN fs \cup {d, t} /\ fs'[d] = Directory /\ fs'[t] = f
       /\ \A q \in DOMAIN fs : q # d /\ q # t => fs'[q] = fs[q]
  BY <1>6, <1>10, Zenon
<1>12. Directory.kind = "dir" /\ Directory.kind \in Kinds /\ DOMAIN Directory.layers \subseteq Nat
  BY DEF Directory, File, Kinds
<1>13. s \in DOMAIN fs' /\ fs'[s].kind = "dir"
  BY <1>6, <1>10, <1>11 DEF IsDir
<1>14. Sound(fs', t) /\ Sound(fs', d)
  BY <1>4, <1>5, <1>9, <1>11, <1>12, <1>13 DEF Sound
<1>15. FileSystem(fs')
  BY <1>10, <1>11, <1>14, Adding
<1>16. \A q : q # d /\ q # t => Same(q)
  BY <1>11 DEF Same
<1>17. \A m \in Model : m \notin touched' => m # new
  BY <1>3
<1> QED BY <1>3, <1>6, <1>7, <1>8, <1>15, <1>16, <1>17 DEF Keeps

\* What is removed with a model is its own: its manifest and blobs no other names.
LEMMA RemoveModelKeeps ==
  ASSUME FileSystem(fs), RemoveModel
  PROVE  Keeps
<1>1. PICK m \in Models :
        LET only == BlobsOf(m) \ UNION {BlobsOf(o) : o \in Models \ {m}} IN
        /\ Change({m})
        /\ \E gone \in SUBSET only : fs' = [q \in DOMAIN fs \ (gone \cup {Tagged(m)}) |-> fs[q]]
  BY DEF RemoveModel
<1>2. PICK gone :
        /\ gone \subseteq BlobsOf(m) \ UNION {BlobsOf(o) : o \in Models \ {m}}
        /\ fs' = [q \in DOMAIN fs \ (gone \cup {Tagged(m)}) |-> fs[q]]
  BY <1>1
<1> DEFINE t == Tagged(m)
<1>3. m \in Model /\ HasManifest(m)
  BY ModelsAre
<1>4. touched' = touched \cup {m}
  BY <1>1 DEF Change
<1>5. \A q \in gone : \E x : q = Blob(x)
  BY <1>2 DEF BlobsOf
<1>6. t # Library /\ \A a, b : t # Here(a, b)
  BY <1>3, Apart, LibraryIs
<1>7. Library \notin gone /\ \A a, b : Here(a, b) \notin gone
  BY <1>5, BlobApart, LibraryIs
<1>8. \A o \in Model : (o # m => Tagged(o) # t) /\ Tagged(o) \notin gone
  BY <1>3, <1>5, Apart
<1>9. \A x : Blob(x) # t
  BY <1>3, Apart
<1>10. ASSUME NEW q \in DOMAIN fs, Within(q, Registry)
       PROVE  Above(q) \in DOMAIN fs /\ Above(q) # t /\ Above(q) \notin gone
  <2>1. Sound(fs, q)
    BY SoundIs
  <2>2. Above(q) \in DOMAIN fs /\ fs[Above(q)].kind = "dir" /\ q \in Seq(Names)
    BY <1>10, <2>1 DEF Sound
  <2>3. Above(q) # t
    BY <1>3, <2>2 DEF HasManifest
  <2>4. \A x : Above(q) # Blob(x)
    <3> DEFINE n == Len(Store)
               u == Above(q)
    <3>1. n \in Nat /\ Len(q) > n + 2 /\ Len(q) \in Nat
      <4>1. n \in Nat /\ Len(Registry) = n + 2
        BY LibraryIs, SpaceIs
      <4> QED BY <1>10, <2>2, <4>1 DEF Within
    <3>2. u[n + 1] = q[n + 1]
      <4>1. n + 1 \in 1 .. Len(q) - 1
        BY <3>1
      <4>2. \A j \in 1 .. Len(q) - 1 : u[j] = q[j]
        BY <2>2, <3>1 DEF Above
      <4> HIDE DEF u, n
      <4> QED BY <4>1, <4>2
    <3>3. q[n + 1] = "manifests"
      <4>1. Registry \in Seq(Names) /\ Len(Registry) = n + 2 /\ Registry[n + 1] = "manifests"
        <5>1. /\ Registry \in Seq(Names) /\ Len(Registry) = n + 2 /\ Library[n + 1] = "manifests"
              /\ \A j \in 1 .. n + 2 : Library[j] = Registry[j]
          BY LibraryIs, SpaceIs
        <5>2. n + 1 \in 1 .. n + 2
          BY <3>1
        <5> QED BY <5>1, <5>2
      <4>2. SubSeq(q, 1, n + 2) = Registry
        BY <1>10, <4>1 DEF Within
      <4>3. SubSeq(q, 1, n + 2)[n + 1] = q[n + 1]
        <5>1. n + 1 \in 1 .. n + 2 /\ n + 2 <= Len(q)
          BY <3>1
        <5> HIDE DEF n
        <5> QED BY <2>2, <3>1, <5>1
      <4> QED BY <4>1, <4>2, <4>3
    <3>4. \A x : Blob(x)[n + 1] = "blobs"
      BY BlobIs
    <3> HIDE DEF u, n
    <3>5. \A x : u # Blob(x)
      BY <3>2, <3>3, <3>4
    <3> QED BY <3>5 DEF u
  <2> QED BY <1>5, <2>2, <2>3, <2>4
<1>11. fs' = [q \in DOMAIN fs \ (gone \cup {t}) |-> fs[q]]
  BY <1>2
<1> HIDE DEF t
<1>12. DOMAIN fs' = DOMAIN fs \ (gone \cup {t}) /\ \A q \in DOMAIN fs' : fs'[q] = fs[q]
  BY <1>11
<1>13. FileSystem(fs')
  BY <1>10, <1>12, Removing
<1>14. \A q : q # t /\ q \notin gone => Same(q)
  BY <1>12 DEF Same
<1>15. ASSUME NEW o \in Model, o \notin touched', Named(fs, o)
       PROVE  Same(Blob(ModelDigest(fs[Tagged(o)])))
  <2> DEFINE b == Blob(ModelDigest(fs[Tagged(o)]))
  <2>1. o # m
    BY <1>4, <1>15
  <2>2. o \in Models /\ b \in BlobsOf(o)
    BY <1>15, OfBlobs
  <2>3. b # t
    BY <1>9
  <2> HIDE DEF b
  <2>4. b \notin gone
    BY <1>2, <2>1, <2>2
  <2>5. Same(b)
    BY <1>14, <2>3, <2>4
  <2> QED BY <2>5 DEF b
<1>16. \A o \in Model : o \notin touched' => o # m
  BY <1>4
<1> QED BY <1>4, <1>6, <1>7, <1>8, <1>13, <1>14, <1>15, <1>16 DEF Keeps

\* So does every step of ollama.
LEMMA OllamaKeeps ==
  ASSUME FileSystem(fs), OllamaNext
  PROVE  Keeps
<1>1. PullBlob \/ PullManifest \/ RemoveModel
  BY DEF OllamaNext
<1> QED BY <1>1, PullBlobKeeps, PullManifestKeeps, RemoveModelKeeps

-----------------------------------------------------------------------------
(* The inductive invariant.                                                *)

Gpu == fails \cap {"driver", "device", "context", "module", "function"} = {}

\* Too little free memory counts only when it could be read.
Memory == "meminfo" \in fails \/ "memory" \notin fails

\* The file a manifest names, and whether it can be run.
Where(m) == FromManifest(fs, Tagged(m))
Good(m)  == Where(m) \in DOMAIN fs /\ fs[Where(m)].kind = "gguf" /\ fs[Where(m)].arch = "llama"

\* No file of the working directory has the name.
Plain(m) == Ref(m).here \notin DOMAIN fs

Checks  == {"driver", "device", "context", "module", "function", "meminfo", "models"}
AtModel == {"open", "llama", "foreign"}

DocTypes ==
  /\ FileSystem(fs)
  /\ missing \in Nat
  /\ pc \in Checks \cup AtModel \cup {"names", "verdict", "done"}
  /\ names \subseteq Names /\ tags \subseteq Own /\ runnable \subseteq Own
  /\ pc \in AtModel => at.model \in Own

Opened ==
  /\ pc \in {"module", "meminfo"} => open = <<"context">>
  /\ pc = "function" => open = <<"context", "module">>
  /\ pc \in {"llama", "foreign"} => open = <<"file">>
  /\ pc \in {"driver", "device", "context", "models", "names", "open", "verdict", "done"} => open = <<>>

\* What has been counted, step by step.
Counted ==
  /\ pc \in {"driver", "device", "context", "module", "function"} => missing = 0
  /\ pc \in {"device", "context", "module", "function"} => "driver" \notin fails
  /\ pc \in {"context", "module", "function"} => "device" \notin fails
  /\ pc \in {"module", "function"} => "context" \notin fails
  /\ pc = "function" => "module" \notin fails
  /\ pc = "meminfo" => (missing = 0 <=> Gpu)
  /\ pc \in {"models", "names"} \cup AtModel => (missing = 0 <=> (Gpu /\ Memory))
  /\ pc = "verdict" => (missing = 0 <=> (Gpu /\ Memory /\ runnable # {}))
  /\ pc = "done" => (ok <=> (Gpu /\ Memory /\ runnable # {}))

\* What is left to list.
ToDo ==
  /\ pc \in Checks => runnable = {} /\ names = {} /\ tags = {}
  /\ pc \in {"verdict", "done"} => names = {} /\ tags = {}

\* The path at hand is still that of its model, while ollama leaves it alone.
AtHand ==
  pc \in AtModel /\ at.model \notin touched /\ Plain(at.model) =>
    /\ at.path = Where(at.model)
    /\ pc = "llama" => Good(at.model)
    /\ pc = "foreign" => ~Good(at.model)

Listed == \A m \in runnable : m \notin touched /\ Plain(m) => Good(m)

Ahead(m) == m.name \in names \/ m \in tags \/ (pc \in AtModel /\ m = at.model)

ListedAll ==
  pc \notin Checks /\ IsDir(Library) =>
    \A m \in Own : m \notin touched /\ Plain(m) /\ Good(m) => m \in runnable \/ Ahead(m)

DocInv == DocTypes /\ Opened /\ Counted /\ ToDo /\ AtHand /\ Listed /\ ListedAll

-----------------------------------------------------------------------------
(* What every step leaves alone.                                           *)

Settled ==
  /\ FileSystem(fs') /\ (IsDir(Library)' <=> IsDir(Library)) /\ touched \subseteq touched'
  /\ \A m \in Own : m \notin touched' =>
       Where(m)' = Where(m) /\ (Good(m)' <=> Good(m)) /\ (Plain(m)' <=> Plain(m))

\* A step of ollama.
LEMMA OllamaSettled ==
  ASSUME FileSystem(fs), OllamaNext
  PROVE  Settled
<1>1. Keeps
  BY OllamaKeeps
<1>2. IsDir(Library)' <=> IsDir(Library)
  <2>1. Same(Library)
    BY <1>1 DEF Keeps
  <2> QED BY <2>1 DEF Same, IsDir
<1>3. ASSUME NEW m \in Own, m \notin touched'
      PROVE  Where(m)' = Where(m) /\ (Good(m)' <=> Good(m)) /\ (Plain(m)' <=> Plain(m))
  <2> DEFINE t == Tagged(m)
             w == FromManifest(fs, t)
             v == FromManifest(fs', t)
  <2> m \in Model
    BY DEF Own
  <2>1. Same(t) /\ (Named(fs, m) => Same(Blob(ModelDigest(fs[t]))))
    BY <1>1, <1>3 DEF Keeps
  <2>2. w = IF Named(fs, m) THEN Blob(ModelDigest(fs[t])) ELSE NoPath
    BY WhereIs
  <2>3. v = IF Named(fs', m) THEN Blob(ModelDigest(fs'[t])) ELSE NoPath
    BY WhereIs
  <2>4. (Named(fs', m) <=> Named(fs, m)) /\ (Named(fs, m) => fs'[t] = fs[t])
    BY <2>1 DEF Same, Named
  <2> HIDE DEF t, w, v
  <2>5. v = w
    BY <2>2, <2>3, <2>4
  <2>6. NoPath \notin DOMAIN fs /\ NoPath \notin DOMAIN fs'
    BY <1>1 DEF Keeps, FileSystem
  <2>7. Same(w)
    BY <2>1, <2>2, <2>6 DEF Same
  <2>8. Where(m)' = v /\ Where(m) = w
    BY DEF Where, v, w, t
  <2>9. Good(m)' <=> Good(m)
    BY <2>5, <2>7, <2>8 DEF Good, Same
  <2>10. Plain(m)' <=> Plain(m)
    <3>1. Same(Ref(m).here)
      BY <1>1, RefIs DEF Keeps
    <3> QED BY <3>1 DEF Same, Plain
  <2> QED BY <2>5, <2>8, <2>9, <2>10
<1> QED BY <1>1, <1>2, <1>3 DEF Settled, Keeps

\* A step that leaves the file system alone.
LEMMA StillSettled ==
  ASSUME FileSystem(fs), UNCHANGED <<fs, touched>>
  PROVE  Settled
<1>1. IsDir(Library)' <=> IsDir(Library)
  BY DEF IsDir
<1>2. \A m \in Own : Where(m)' = Where(m)
  BY DEF Where
<1>3. \A m \in Own : Good(m)' <=> Good(m)
  BY <1>2 DEF Good
<1>4. \A m \in Own : Plain(m)' <=> Plain(m)
  BY DEF Plain
<1> QED BY <1>1, <1>2, <1>3, <1>4 DEF Settled

\* Every step.
LEMMA StepSettled ==
  ASSUME FileSystem(fs), [Next]_vars
  PROVE  Settled
<1>1. CASE DoctorNext
  <2>1. UNCHANGED <<fs, touched>>
    BY <1>1 DEF DoctorNext, CheckCall, LookUpKernels, CheckMemory, ReadLibrary, ReadTags, ResolveModel,
         OpenModel, ListModel, ReportModels, Return, storeVars
  <2> QED BY <2>1, StillSettled
<1>2. CASE OllamaNext
  BY <1>2, OllamaSettled
<1>3. CASE UNCHANGED vars
  <2>1. UNCHANGED <<fs, touched>>
    BY <1>3 DEF vars, storeVars
  <2> QED BY <2>1, StillSettled
<1> QED BY <1>1, <1>2, <1>3 DEF Next

\* A model that can be run has a manifest.
LEMMA GoodIs ==
  ASSUME FileSystem(fs), NEW m \in Model, Good(m)
  PROVE  Tagged(m) \in DOMAIN fs /\ Where(m) # NoPath
<1>1. Where(m) # NoPath
  BY DEF Good, FileSystem
<1>2. Where(m) = IF Named(fs, m) THEN Blob(ModelDigest(fs[Tagged(m)])) ELSE NoPath
  BY WhereIs DEF Where
<1> QED BY <1>1, <1>2 DEF Named

-----------------------------------------------------------------------------
(* The invariant holds.                                                    *)

\* Nothing is counted, open or listed at first.
LEMMA InitInv == Init => DocInv
<1> SUFFICES ASSUME Init PROVE DocInv
  OBVIOUS
<1>1. pc = "driver" /\ missing = 0 /\ open = <<>> /\ names = {} /\ tags = {} /\ runnable = {}
  BY DEF Init
<1>2. FileSystem(fs)
  BY DoctorAssumption DEF Init
<1>3. DocTypes
  BY <1>1, <1>2 DEF DocTypes, Checks, AtModel
<1>4. Opened
  BY <1>1 DEF Opened
<1>5. Counted
  BY <1>1 DEF Counted, AtModel
<1>6. ToDo /\ AtHand /\ Listed /\ ListedAll
  BY <1>1 DEF ToDo, AtHand, Listed, ListedAll, Checks, AtModel
<1> QED BY <1>3, <1>4, <1>5, <1>6 DEF DocInv

\* The order of the calls.
LEMMA ThenIs ==
  /\ Then("driver") = "device" /\ Then("device") = "context"
  /\ Then("context") = "module" /\ Then("module") = "function"
<1>1. Then("driver") = "device"
  BY Zenon DEF Then
<1>2. Then("device") = "context"
  BY Zenon DEF Then
<1>3. Then("context") = "module"
  BY Zenon DEF Then
<1>4. Then("module") = "function"
  BY Zenon DEF Then
<1> QED BY <1>1, <1>2, <1>3, <1>4

\* A check of the driver, the GPU or the kernels.
CallOf(c, next) ==
  /\ pc = c
  /\ missing' = IF c \in fails THEN missing + 1 ELSE missing
  /\ pc' = IF c \in fails THEN Else(c) ELSE next
  /\ open' = IF c \in {"context", "module"} \ fails THEN Append(open, c) ELSE open

\* The four calls of CheckCall.
LEMMA CheckCallIs ==
  ASSUME CheckCall
  PROVE  \/ CallOf("driver", "device") \/ CallOf("device", "context")
         \/ CallOf("context", "module") \/ CallOf("module", "function")
<1>1. CallOf(pc, Then(pc))
  BY DEF CheckCall, CallOf, Report, Push
<1>2. pc \in {"driver", "device", "context", "module"}
  BY DEF CheckCall
<1> QED BY <1>1, <1>2, ThenIs

\* The types stay.
LEMMA NextTypes ==
  ASSUME DocInv, [Next]_vars
  PROVE  DocTypes'
<1>1. FileSystem(fs') /\ missing \in Nat
  BY StepSettled DEF DocInv, DocTypes, Settled
<1> SUFFICES /\ missing' \in Nat
             /\ pc' \in Checks \cup AtModel \cup {"names", "verdict", "done"}
             /\ names' \subseteq Names /\ tags' \subseteq Own /\ runnable' \subseteq Own
             /\ pc' \in AtModel => at'.model \in Own
  BY <1>1 DEF DocTypes
<1> USE DEF DocInv, DocTypes, Checks, AtModel
<1>2. \A g : Report(g) => missing' \in Nat
  BY <1>1 DEF Report
<1>3. CASE CheckCall
  <2>1. pc' \in Checks \ {"driver"} /\ missing' \in Nat
    BY <1>1, <1>3, CheckCallIs DEF CallOf, Else
  <2> QED BY <1>3, <2>1 DEF CheckCall, listVars
<1>4. CASE LookUpKernels
  BY <1>2, <1>4 DEF LookUpKernels, listVars
<1>5. CASE CheckMemory
  BY <1>2, <1>5 DEF CheckMemory, listVars
<1>6. CASE ReadLibrary
  <2>1. ReadDir(Library) \subseteq Names
    BY ReadNames, LibraryIs
  <2> QED BY <1>2, <1>6, <2>1 DEF ReadLibrary
<1>7. CASE ReadTags
  <2>1. PICK e \in names : names' = names \ {e} /\ tags' = {Official(e, t) : t \in ReadDir(Append(Library, e))}
    BY <1>7 DEF ReadTags
  <2>2. Append(Library, e) \in Seq(Names)
    BY DirIs, LibraryIs
  <2>3. ReadDir(Append(Library, e)) \subseteq Names
    BY <2>2, ReadNames
  <2>4. tags' \subseteq Own
    BY <2>1, <2>3, LibraryIs DEF Own, Model, Official
  <2> QED BY <1>7, <2>1, <2>4 DEF ReadTags, machineVars
<1>8. CASE ResolveModel
  BY <1>8 DEF ResolveModel, machineVars
<1>9. CASE OpenModel
  BY <1>9 DEF OpenModel, listVars
<1>10. CASE ListModel
  BY <1>10 DEF ListModel
<1>11. CASE ReportModels
  BY <1>2, <1>11 DEF ReportModels, listVars
<1>12. CASE Return
  BY <1>12 DEF Return, listVars, machineVars
<1>13. CASE OllamaNext
  BY <1>13 DEF OllamaNext, listVars, machineVars
<1>14. CASE UNCHANGED vars
  BY <1>14 DEF vars, listVars, machineVars
<1> QED BY <1>3, <1>4, <1>5, <1>6, <1>7, <1>8, <1>9, <1>10, <1>11, <1>12, <1>13, <1>14 DEF Next, DoctorNext

\* A sequence of one.
LEMMA OneIs ==
  ASSUME NEW x, NEW S, x \in S, NEW s \in Seq(S), Len(s) = 1, s[1] = x
  PROVE  s = <<x>>
<1> DEFINE t == <<x>>
<1>1. t \in Seq(S) /\ Len(t) = 1 /\ t[1] = x
  OBVIOUS
<1> HIDE DEF t
<1>2. \A j \in 1 .. 1 : s[j] = t[j]
  <2>1. \A j \in 1 .. 1 : j = 1
    OBVIOUS
  <2> QED BY <1>1, <2>1
<1>3. s = t
  BY <1>1, <1>2, SeqEqual
<1> QED BY <1>3 DEF t

\* What is opened is pushed.
LEMMA OneMore ==
  /\ \A x : Append(<<>>, x) = <<x>>
  /\ \A x, y : Append(<<x>>, y) = <<x, y>>
<1>1. ASSUME NEW x PROVE Append(<<>>, x) = <<x>>
  OBVIOUS
<1>2. ASSUME NEW x, NEW y PROVE Append(<<x>>, y) = <<x, y>>
  <2> DEFINE S == {x, y}
             e == <<>>
  <2>1. Append(e, x) = <<x>> /\ e \in Seq(S) /\ x \in S /\ y \in S
    BY <1>1
  <2> HIDE DEF S, e
  <2>2. Append(Append(e, x), y) = e \o <<x, y>>
    BY <2>1, TwoAppended
  <2> USE DEF e
  <2>3. <<>> \o <<x, y>> = <<x, y>>
    <3> DEFINE t == <<x, y>>
    <3>1. t \in Seq({x, y})
      OBVIOUS
    <3> HIDE DEF t
    <3>2. <<>> \o t = t
      BY <3>1
    <3> QED BY <3>2 DEF t
  <2> QED BY <2>1, <2>2, <2>3
<1> QED BY <1>1, <1>2

\* What is opened last is closed first.
LEMMA OneLess ==
  /\ \A x : SubSeq(<<x>>, 1, Len(<<x>>) - 1) = <<>>
  /\ \A x, y : SubSeq(<<x, y>>, 1, Len(<<x, y>>) - 1) = <<x>>
<1>1. ASSUME NEW x PROVE SubSeq(<<x>>, 1, Len(<<x>>) - 1) = <<>>
  OBVIOUS
<1>2. ASSUME NEW x, NEW y PROVE SubSeq(<<x, y>>, 1, Len(<<x, y>>) - 1) = <<x>>
  <2> DEFINE s == <<x, y>>
             u == SubSeq(s, 1, 1)
  <2>1. s \in Seq({x, y}) /\ Len(s) = 2 /\ Len(s) - 1 = 1 /\ s[1] = x
    OBVIOUS
  <2> HIDE DEF s
  <2>2. \A j \in 1 .. 1 : s[j] \in {x, y}
    BY <2>1
  <2>3. u \in Seq({x, y}) /\ Len(u) = 1 /\ u[1] = x
    BY <2>1, <2>2, SubSeqProperties
  <2> HIDE DEF u
  <2>4. u = <<x>>
    BY <2>3, OneIs
  <2>5. SubSeq(s, 1, Len(s) - 1) = u
    BY <2>1 DEF u
  <2> QED BY <2>4, <2>5 DEF s
<1> QED BY <1>1, <1>2

\* Every step closes what it leaves.
LEMMA NextOpened ==
  ASSUME DocInv, [Next]_vars
  PROVE  Opened'
<1>1. Opened
  BY DEF DocInv
<1>2. \A x : open = <<x>> /\ Pop => open' = <<>>
  BY OneLess DEF Pop
<1>3. \A x, y : open = <<x, y>> /\ Pop => open' = <<x>>
  BY OneLess DEF Pop
<1>4. CASE CheckCall
  <2>1. CASE CallOf("driver", "device")
    BY <1>1, <2>1 DEF CallOf, Else, Opened
  <2>2. CASE CallOf("device", "context")
    BY <1>1, <2>2 DEF CallOf, Else, Opened
  <2>3. CASE CallOf("context", "module")
    BY <1>1, <2>3, OneMore DEF CallOf, Else, Opened
  <2>4. CASE CallOf("module", "function")
    BY <1>1, <2>4, OneMore DEF CallOf, Else, Opened
  <2> QED BY <1>4, <2>1, <2>2, <2>3, <2>4, CheckCallIs
<1>5. CASE LookUpKernels
  BY <1>1, <1>3, <1>5 DEF LookUpKernels, Opened
<1>6. CASE CheckMemory
  BY <1>1, <1>2, <1>6 DEF CheckMemory, Opened
<1>7. CASE ReadLibrary
  BY <1>1, <1>7 DEF ReadLibrary, Opened
<1>8. CASE ReadTags
  BY <1>1, <1>8 DEF ReadTags, Opened, machineVars
<1>9. CASE ResolveModel
  BY <1>1, <1>9 DEF ResolveModel, Opened, machineVars
<1>10. CASE OpenModel
  BY <1>1, <1>10, OneMore DEF OpenModel, Opened, Push
<1>11. CASE ListModel
  BY <1>1, <1>2, <1>11 DEF ListModel, Opened
<1>12. CASE ReportModels
  BY <1>1, <1>12 DEF ReportModels, Opened
<1>13. CASE Return
  BY <1>1, <1>13 DEF Return, Opened, machineVars
<1>14. CASE OllamaNext
  BY <1>1, <1>14 DEF OllamaNext, Opened, machineVars
<1>15. CASE UNCHANGED vars
  BY <1>1, <1>15 DEF vars, Opened, machineVars
<1> QED BY <1>4, <1>5, <1>6, <1>7, <1>8, <1>9, <1>10, <1>11, <1>12, <1>13, <1>14, <1>15 DEF Next, DoctorNext

\* Every problem is counted once.
LEMMA NextCounted ==
  ASSUME DocInv, [Next]_vars
  PROVE  Counted'
<1>1. Counted /\ ToDo /\ missing \in Nat
  BY DEF DocInv, DocTypes
<1>2. fails' = fails
  BY DEF Next, DoctorNext, CheckCall, LookUpKernels, CheckMemory, ReadLibrary, ReadTags, ResolveModel,
     OpenModel, ListModel, ReportModels, Return, OllamaNext, machineVars, vars
<1>3. (Gpu' <=> Gpu) /\ (Memory' <=> Memory)
  BY <1>2 DEF Gpu, Memory
<1>4. \A g : Report(g) => (missing' = 0 <=> (missing = 0 /\ g))
  BY <1>1 DEF Report
<1>5. CASE CheckCall
  <2>1. CASE CallOf("driver", "device")
    BY <1>1, <1>2, <1>3, <2>1 DEF CallOf, Else, Counted, Gpu, AtModel
  <2>2. CASE CallOf("device", "context")
    BY <1>1, <1>2, <1>3, <2>2 DEF CallOf, Else, Counted, Gpu, AtModel
  <2>3. CASE CallOf("context", "module")
    BY <1>1, <1>2, <1>3, <2>3 DEF CallOf, Else, Counted, Gpu, AtModel
  <2>4. CASE CallOf("module", "function")
    BY <1>1, <1>2, <1>3, <2>4 DEF CallOf, Else, Counted, Gpu, AtModel
  <2> QED BY <1>5, <2>1, <2>2, <2>3, <2>4, CheckCallIs
<1>6. CASE LookUpKernels
  BY <1>1, <1>2, <1>3, <1>4, <1>6 DEF LookUpKernels, Counted, Gpu, AtModel
<1>7. CASE CheckMemory
  BY <1>1, <1>2, <1>3, <1>4, <1>7 DEF CheckMemory, Counted, Memory, AtModel
<1>8. CASE ReadLibrary
  <2>1. pc' \in {"names", "verdict"} /\ pc = "models" /\ runnable = {} /\ runnable' = {}
    BY <1>1, <1>8 DEF ReadLibrary, ToDo, Checks
  <2>2. missing' = 0 <=> (missing = 0 /\ IsDir(Library))
    BY <1>4, <1>8 DEF ReadLibrary
  <2>3. pc' = "names" <=> IsDir(Library)
    BY <1>8 DEF ReadLibrary
  <2>4. missing = 0 <=> (Gpu /\ Memory)
    BY <1>1, <2>1 DEF Counted
  <2> QED BY <1>3, <2>1, <2>2, <2>3, <2>4 DEF Counted, AtModel
<1>9. CASE ReadTags
  BY <1>1, <1>3, <1>9 DEF ReadTags, Counted, AtModel, machineVars
<1>10. CASE ResolveModel
  BY <1>1, <1>3, <1>10 DEF ResolveModel, Counted, AtModel, machineVars
<1>11. CASE OpenModel
  BY <1>1, <1>3, <1>11 DEF OpenModel, Counted, AtModel
<1>12. CASE ListModel
  BY <1>1, <1>3, <1>12 DEF ListModel, Counted, AtModel
<1>13. CASE ReportModels
  BY <1>1, <1>3, <1>4, <1>13 DEF ReportModels, Counted, AtModel, listVars
<1>14. CASE Return
  BY <1>1, <1>3, <1>14 DEF Return, Counted, AtModel, listVars, machineVars
<1>15. CASE OllamaNext
  BY <1>1, <1>2, <1>3, <1>15 DEF OllamaNext, Counted, AtModel, listVars, machineVars
<1>16. CASE UNCHANGED vars
  BY <1>1, <1>2, <1>3, <1>16 DEF vars, Counted, AtModel, listVars, machineVars
<1> QED BY <1>5, <1>6, <1>7, <1>8, <1>9, <1>10, <1>11, <1>12, <1>13, <1>14, <1>15, <1>16 DEF Next, DoctorNext

\* The list ends when nothing is left.
LEMMA NextToDo ==
  ASSUME DocInv, [Next]_vars
  PROVE  ToDo'
<1>1. ToDo
  BY DEF DocInv
<1>2. CASE CheckCall
  <2>1. pc \in Checks /\ pc' \in Checks
    BY <1>2, CheckCallIs DEF CallOf, Else, Checks
  <2> QED BY <1>1, <1>2, <2>1 DEF CheckCall, ToDo, Checks, listVars
<1>3. CASE LookUpKernels \/ CheckMemory
  BY <1>1, <1>3 DEF LookUpKernels, CheckMemory, ToDo, Checks, listVars
<1>4. CASE ReadLibrary
  <2>1. ~IsDir(Library) => ReadDir(Library) = {}
    BY DEF ReadDir
  <2> QED BY <1>1, <1>4, <2>1 DEF ReadLibrary, ToDo, Checks
<1>5. CASE ReadTags \/ ResolveModel \/ OpenModel \/ ListModel
  BY <1>5 DEF ReadTags, ResolveModel, OpenModel, ListModel, ToDo, Checks
<1>6. CASE ReportModels \/ Return
  BY <1>1, <1>6 DEF ReportModels, Return, ToDo, Checks, listVars
<1>7. CASE OllamaNext
  BY <1>1, <1>7 DEF OllamaNext, ToDo, listVars
<1>8. CASE UNCHANGED vars
  BY <1>1, <1>8 DEF vars, ToDo, listVars
<1> QED BY <1>2, <1>3, <1>4, <1>5, <1>6, <1>7, <1>8 DEF Next, DoctorNext

\* What AtHand says of a model at hand, its path, and where doctor is.
HandOf(m, path, where) ==
  m \notin touched /\ Plain(m) =>
    /\ path = Where(m)
    /\ where = "llama" => Good(m)
    /\ where = "foreign" => ~Good(m)

\* AtHand with its three parts named.
LEMMA AtHandIs == AtHand <=> (pc \in AtModel => HandOf(at.model, at.path, pc))
  BY DEF AtHand, HandOf

\* It stays true.
LEMMA HandStays ==
  ASSUME Settled, NEW m \in Own, NEW path, NEW where, HandOf(m, path, where)
  PROVE  HandOf(m, path, where)'
<1> SUFFICES ASSUME m \notin touched', Plain(m)'
             PROVE  /\ path = Where(m)'
                    /\ where = "llama" => Good(m)'
                    /\ where = "foreign" => ~Good(m)'
  BY DEF HandOf
<1>1. m \notin touched /\ Plain(m) /\ Where(m)' = Where(m) /\ (Good(m)' <=> Good(m))
  BY DEF Settled
<1> QED BY <1>1 DEF HandOf

\* AtHand after a step that leaves this model, path and place.
LEMMA HandThen ==
  ASSUME NEW m, NEW path, NEW where, at'.model = m, at'.path = path, pc' = where, HandOf(m, path, where)'
  PROVE  AtHand'
<1>1. Where(at.model)' = Where(m)' /\ (Plain(at.model)' <=> Plain(m)') /\ at.model' = m
  BY DEF Where, Plain
<1>2. Good(at.model)' <=> Good(m)'
  BY <1>1 DEF Good, Where
<1> QED BY <1>1, <1>2 DEF HandOf, AtHand

\* Every step keeps AtHand: the path is resolved, and the file opened, as the store is then.
LEMMA NextAtHand ==
  ASSUME DocInv, [Next]_vars
  PROVE  AtHand'
<1>1. AtHand /\ FileSystem(fs) /\ tags \subseteq Own
  BY DEF DocInv, DocTypes
<1>2. pc \in AtModel => at.model \in Own
  BY DEF DocInv, DocTypes
<1>3. Settled
  BY <1>1, StepSettled
<1>4. ASSUME pc \in AtModel, pc' = pc, at' = at PROVE AtHand'
  <2>1. PICK m, path, where : m \in Own /\ at.model = m /\ at.path = path /\ pc = where
    BY <1>2, <1>4
  <2>2. HandOf(m, path, where)
    BY <1>1, <1>4, <2>1, AtHandIs
  <2>3. HandOf(m, path, where)'
    BY <1>3, <2>1, <2>2, HandStays
  <2> QED BY <1>4, <2>1, <2>3, HandThen
<1>5. ASSUME pc' \notin AtModel PROVE AtHand'
  BY <1>5 DEF AtHand
<1>6. CASE ResolveModel /\ pc' \in AtModel
  <2>1. PICK m \in tags :
          /\ at' = [model |-> m, path |-> Resolve(fs, Ref(m))]
          /\ pc' = IF Resolve(fs, Ref(m)) = NoPath THEN pc ELSE "open"
    BY <1>6 DEF ResolveModel
  <2>2. pc' = "open"
    BY <1>6, <2>1 DEF ResolveModel, AtModel
  <2>3. PICK path, where : path = Resolve(fs, Ref(m)) /\ where = "open"
    OBVIOUS
  <2>4. m \in Own
    BY <1>1
  <2>5. HandOf(m, path, where)
    <3>1. Plain(m) => path = Where(m)
      BY <2>3, <2>4, ResolveIs DEF Plain, Where, Own
    <3> QED BY <2>3, <3>1 DEF HandOf
  <2>6. HandOf(m, path, where)'
    BY <1>3, <2>4, <2>5, HandStays
  <2> QED BY <2>1, <2>2, <2>3, <2>6, HandThen
<1>7. CASE OpenModel /\ pc' \in AtModel
  <2>1. /\ pc = "open" /\ at' = at /\ at.path \in DOMAIN fs /\ fs[at.path].kind = "gguf"
        /\ pc' = IF fs[at.path].arch = "llama" THEN "llama" ELSE "foreign"
    BY <1>7 DEF OpenModel, AtModel, listVars
  <2>2. PICK m, path : m \in Own /\ at.model = m /\ at.path = path
    BY <1>2, <2>1 DEF AtModel
  <2>3. PICK where : where = IF fs[path].arch = "llama" THEN "llama" ELSE "foreign"
    OBVIOUS
  <2>4. HandOf(m, path, "open")
    BY <1>1, <2>1, <2>2, AtHandIs DEF AtModel
  <2>5. HandOf(m, path, where)
    BY <2>1, <2>2, <2>3, <2>4 DEF HandOf, Good
  <2>6. HandOf(m, path, where)'
    BY <1>3, <2>2, <2>5, HandStays
  <2> QED BY <2>1, <2>2, <2>3, <2>6, HandThen
<1>8. CASE CheckCall
  <2>1. pc' \notin AtModel
    BY <1>8, CheckCallIs DEF CallOf, Else, AtModel
  <2> QED BY <1>5, <2>1
<1>9. CASE LookUpKernels \/ CheckMemory \/ ReadLibrary \/ ReadTags \/ ListModel \/ ReportModels \/ Return
  <2>1. pc' \notin AtModel
    BY <1>9 DEF LookUpKernels, CheckMemory, ReadLibrary, ReadTags, ListModel, ReportModels, Return, AtModel
  <2> QED BY <1>5, <2>1
<1>10. CASE OllamaNext \/ UNCHANGED vars
  <2>1. pc' = pc /\ at' = at
    BY <1>10 DEF OllamaNext, vars, listVars
  <2> QED BY <1>4, <1>5, <2>1
<1> QED BY <1>5, <1>6, <1>7, <1>8, <1>9, <1>10 DEF Next, DoctorNext

\* A model is listed when it is good, and ollama has not touched it.
LEMMA NextListed ==
  ASSUME DocInv, [Next]_vars
  PROVE  Listed'
<1>1. Listed /\ AtHand /\ FileSystem(fs) /\ runnable \subseteq Own
  BY DEF DocInv, DocTypes
<1>2. pc \in AtModel => at.model \in Own
  BY DEF DocInv, DocTypes
<1>3. Settled
  BY <1>1, StepSettled
<1>4. ASSUME NEW m \in Own, m \notin touched', Plain(m)', m \in runnable
      PROVE  Good(m)'
  BY <1>1, <1>3, <1>4 DEF Settled, Listed
<1>5. ASSUME NEW m \in Own, m \notin touched', Plain(m)', pc = "llama", m = at.model
      PROVE  Good(m)'
  <2>1. m \notin touched /\ Plain(m)
    BY <1>3, <1>5 DEF Settled
  <2>2. HandOf(m, at.path, pc)
    BY <1>1, <1>5, AtHandIs DEF AtModel
  <2>3. Good(m)
    BY <1>5, <2>1, <2>2 DEF HandOf
  <2> QED BY <1>3, <1>5, <2>3 DEF Settled
<1>6. runnable' = runnable \/ (pc = "llama" /\ runnable' = runnable \cup {at.model})
  BY DEF Next, DoctorNext, CheckCall, LookUpKernels, CheckMemory, ReadLibrary, ReadTags, ResolveModel,
     OpenModel, ListModel, ReportModels, Return, OllamaNext, listVars, vars
<1>7. ASSUME NEW m \in runnable', m \notin touched', Plain(m)' PROVE Good(m)'
  <2>1. m \in runnable \/ (pc = "llama" /\ m = at.model)
    BY <1>6, <1>7
  <2>2. m \in Own
    BY <1>1, <1>2, <2>1 DEF AtModel
  <2> QED BY <1>4, <1>5, <1>7, <2>1, <2>2
<1> QED BY <1>7 DEF Listed

\* A model that can be run stays ahead until it is listed.
LEMMA NextListedAll ==
  ASSUME DocInv, [Next]_vars
  PROVE  ListedAll'
<1>1. ListedAll /\ AtHand /\ ToDo /\ FileSystem(fs)
  BY DEF DocInv, DocTypes
<1>2. Settled
  BY <1>1, StepSettled
<1> SUFFICES ASSUME pc' \notin Checks, IsDir(Library)', NEW m \in Own,
                    m \notin touched', Plain(m)', Good(m)'
             PROVE  m \in runnable' \/ Ahead(m)'
  BY DEF ListedAll
<1>3. m \notin touched /\ Plain(m) /\ Good(m) /\ IsDir(Library)
  BY <1>2 DEF Settled
<1>4. Tagged(m) \in DOMAIN fs /\ Where(m) # NoPath
  BY <1>1, <1>3, GoodIs DEF Own
<1>5. /\ m.name \in ReadDir(Library) /\ m.tag \in ReadDir(Append(Library, m.name))
      /\ m = Official(m.name, m.tag)
  <2>1. m \in Model /\ m.space = "library" /\ m = [space |-> m.space, name |-> m.name, tag |-> m.tag]
    BY DEF Own, Model
  <2> QED BY <1>1, <1>4, <2>1, Found, LibraryIs DEF Official
<1>6. pc \notin Checks => m \in runnable \/ Ahead(m)
  BY <1>1, <1>3 DEF ListedAll
<1>7. pc \in AtModel /\ m = at.model => pc # "foreign" /\ at.path = Where(m)
  BY <1>1, <1>3 DEF AtHand
<1>8. CASE CheckCall
  <2>1. pc' = "models"
    BY <1>8, CheckCallIs DEF CallOf, Else, Checks
  <2> QED BY <2>1 DEF Checks
<1>9. CASE LookUpKernels \/ CheckMemory
  BY <1>9 DEF LookUpKernels, CheckMemory, Checks
<1>10. CASE ReadLibrary
  BY <1>3, <1>5, <1>10 DEF ReadLibrary, Ahead
<1>11. CASE ReadTags
  <2>1. PICK e \in names : names' = names \ {e} /\ tags' = {Official(e, t) : t \in ReadDir(Append(Library, e))}
    BY <1>11 DEF ReadTags
  <2>2. pc = "names" /\ tags = {} /\ runnable' = runnable
    BY <1>11 DEF ReadTags
  <2>3. m \in runnable \/ m.name \in names
    BY <1>6, <2>2 DEF Ahead, Checks, AtModel
  <2>4. m.name = e => m \in tags'
    BY <1>5, <2>1
  <2> QED BY <2>1, <2>2, <2>3, <2>4 DEF Ahead
<1>12. CASE ResolveModel
  <2>1. PICK o \in tags :
          /\ at' = [model |-> o, path |-> Resolve(fs, Ref(o))] /\ tags' = tags \ {o}
          /\ pc' = IF Resolve(fs, Ref(o)) = NoPath THEN pc ELSE "open"
    BY <1>12 DEF ResolveModel
  <2>2. pc = "names" /\ names' = names /\ runnable' = runnable
    BY <1>12 DEF ResolveModel
  <2>3. m \in runnable \/ m.name \in names \/ m \in tags
    BY <1>6, <2>2 DEF Ahead, Checks, AtModel
  <2>4. ASSUME m = o PROVE pc' = "open" /\ at'.model = m
    <3>1. Resolve(fs, Ref(o)) # NoPath
      BY <1>3, <1>4, <2>4, ResolveIs DEF Plain, Where, Own
    <3> QED BY <2>1, <2>4, <3>1
  <2>5. m = o => Ahead(m)'
    BY <2>4 DEF Ahead, AtModel
  <2>6. m # o /\ m \in tags => Ahead(m)'
    BY <2>1 DEF Ahead
  <2>7. m.name \in names => Ahead(m)'
    BY <2>2 DEF Ahead
  <2> QED BY <2>2, <2>3, <2>5, <2>6, <2>7
<1>13. CASE OpenModel
  <2>1. pc = "open" /\ names' = names /\ tags' = tags /\ runnable' = runnable /\ at' = at
    BY <1>13 DEF OpenModel, listVars
  <2>2. m \in runnable \/ m.name \in names \/ m \in tags \/ m = at.model
    BY <1>6, <2>1 DEF Ahead, Checks, AtModel
  <2>3. m = at.model => pc' \in AtModel
    BY <1>3, <1>7, <1>13, <2>1 DEF OpenModel, Good, AtModel
  <2> QED BY <2>1, <2>2, <2>3 DEF Ahead
<1>14. CASE ListModel
  <2>1. /\ pc \in {"llama", "foreign"} /\ names' = names /\ tags' = tags
        /\ runnable' = IF pc = "llama" THEN runnable \cup {at.model} ELSE runnable
    BY <1>14 DEF ListModel
  <2>2. m \in runnable \/ m.name \in names \/ m \in tags \/ m = at.model
    BY <1>6, <2>1 DEF Ahead, Checks, AtModel
  <2>3. m = at.model => m \in runnable'
    BY <1>7, <2>1 DEF AtModel
  <2> QED BY <2>1, <2>2, <2>3 DEF Ahead
<1>15. CASE ReportModels \/ Return
  <2>1. pc \in {"names", "verdict"} /\ names = {} /\ tags = {} /\ runnable' = runnable
    BY <1>1, <1>15 DEF ReportModels, Return, ToDo, listVars
  <2> QED BY <1>6, <2>1 DEF Ahead, Checks, AtModel
<1>16. CASE OllamaNext \/ UNCHANGED vars
  <2>1. pc' = pc /\ names' = names /\ tags' = tags /\ at' = at /\ runnable' = runnable
    BY <1>16 DEF OllamaNext, vars, listVars
  <2> QED BY <1>6, <2>1 DEF Ahead
<1> QED BY <1>8, <1>9, <1>10, <1>11, <1>12, <1>13, <1>14, <1>15, <1>16 DEF Next, DoctorNext

\* Every step keeps the invariant.
LEMMA NextInv == DocInv /\ [Next]_vars => DocInv'
  BY NextTypes, NextOpened, NextCounted, NextToDo, NextAtHand, NextListed, NextListedAll DEF DocInv

\* The invariant holds.
LEMMA AlwaysInv == Spec => []DocInv
  BY InitInv, NextInv, PTL DEF Spec

-----------------------------------------------------------------------------
(* The theorems.                                                           *)

\* On every machine, doctor returns nil exactly when the calls that run will
\* make before it loads a model succeed, the memory is enough where it can be
\* read, and its list of models that can be run, of the library only, is not
\* empty, whichever check fails.
THEOREM AlwaysTrueVerdict == Spec => []TrueVerdict
<1>1. DocInv => TrueVerdict
  BY DEF DocInv, Counted, Gpu, Memory, TrueVerdict
<1> QED BY <1>1, AlwaysInv, PTL

\* The kernels, their context and each model file are closed on every path.
THEOREM AlwaysReleased == Spec => []Released
<1>1. DocInv => Released
  BY DEF DocInv, DocTypes, Opened, Released, Checks, AtModel
<1> QED BY <1>1, AlwaysInv, PTL

\* A model listed runs under the name printed, whatever ollama does to other
\* models between the look-up, the opening and the listing, in every store,
\* unless a file of the working directory has its name or the name printed.
THEOREM AlwaysListedRuns == Spec => []ListedRuns
<1>1. DocInv => ListedRuns
  <2> SUFFICES ASSUME DocInv, NEW m \in runnable \ touched, {Ref(m).here, Short(m).here} \cap DOMAIN fs = {}
               PROVE  Runs(Short(m))
    BY DEF ListedRuns
  <2>1. m \in Model /\ Listed
    BY DEF DocInv, DocTypes, Own
  <2>2. Good(m)
    BY <2>1 DEF Listed, Plain
  <2>3. Resolve(fs, Short(m)) = Where(m)
    BY <2>1, ResolveIs DEF Where
  <2> QED BY <2>2, <2>3 DEF Good, Runs
<1> QED BY <1>1, AlwaysInv, PTL

\* Every model of the library that can be run is listed, in every store,
\* whatever the others are and whatever ollama does to them meanwhile, unless a
\* file of the working directory has its name.
THEOREM AlwaysListsLibrary == Spec => []ListsLibrary
<1>1. DocInv => ListsLibrary
  <2> SUFFICES ASSUME DocInv, pc = "done", IsDir(Library), NEW m \in Models \ touched, m.space = "library",
                      Ref(m).here \notin DOMAIN fs, Runs(Ref(m))
               PROVE  m \in runnable
    BY DEF ListsLibrary
  <2>1. FileSystem(fs) /\ ListedAll /\ ToDo
    BY DEF DocInv, DocTypes
  <2>2. m \in Model /\ m \in Own /\ Plain(m)
    BY <2>1, ModelsAre DEF Plain, Own
  <2>3. Resolve(fs, Ref(m)) = Where(m)
    BY <2>2, ResolveIs DEF Where
  <2>4. Good(m)
    BY <2>3 DEF Good, Runs
  <2>5. m \in runnable \/ Ahead(m)
    BY <2>1, <2>2, <2>4 DEF ListedAll, Checks
  <2> QED BY <2>1, <2>5 DEF ToDo, Ahead, AtModel
<1> QED BY <1>1, AlwaysInv, PTL

\* In every store a model's name, its manifest and, for its latest tag, the
\* directory of its manifests name one file: a blob of its manifest.
THEOREM AlwaysSameFile == Spec => []SameFile
<1>1. DocInv => SameFile
  <2> SUFFICES ASSUME DocInv, NEW m \in Models, Ref(m).here \notin DOMAIN fs
               PROVE  LET path == Resolve(fs, Ref(m)) IN
                      /\ path \in {NoPath} \cup BlobsOf(m)
                      /\ path = Resolve(fs, [Ref(m) EXCEPT !.here = Tagged(m)])
                      /\ m.tag = "latest" => path = Resolve(fs, [Ref(m) EXCEPT !.here = Append(Space(m.space), m.name)])
    BY DEF SameFile
  <2> DEFINE t == Tagged(m)
             d == Append(Space(m.space), m.name)
             byManifest == [Ref(m) EXCEPT !.here = t]
             byName == [Ref(m) EXCEPT !.here = d]
  <2>1. FileSystem(fs)
    BY DEF DocInv, DocTypes
  <2>2. m \in Model /\ HasManifest(m)
    BY <2>1, ModelsAre
  <2>3. t \in DOMAIN fs /\ fs[t].kind = "manifest"
    BY <2>2 DEF HasManifest
  <2>4. Resolve(fs, Ref(m)) = FromManifest(fs, t)
    BY <2>2, ResolveIs
  <2>5. FromManifest(fs, t) = IF Named(fs, m) THEN Blob(ModelDigest(fs[t])) ELSE NoPath
    BY <2>2, WhereIs
  <2>6. FromManifest(fs, t) \in {NoPath} \cup BlobsOf(m)
    BY <2>1, <2>2, <2>5, OfBlobs
  <2>7. byManifest.here = t /\ byName.here = d
    BY DEF Ref, RefAs
  <2>8. Resolve(fs, byManifest) = FromManifest(fs, t)
    <3>1. fs[t].kind # "dir" /\ ~HasMagic(fs[t])
      BY <2>3 DEF HasMagic
    <3> HIDE DEF t, byManifest
    <3> QED BY <2>3, <2>7, <3>1, Zenon DEF Resolve
  <2>9. ASSUME m.tag = "latest" PROVE Resolve(fs, byName) = FromManifest(fs, t)
    <3>1. IsDir(d)
      BY <2>1, <2>2, <2>3, Found
    <3>2. Append(d, "latest") = t
      <4> DEFINE a == m.name
                 b == m.tag
                 s == Space(m.space)
      <4>1. a \in Names /\ b \in Names /\ s \in Seq(Names)
        BY <2>2, SpaceIs DEF Model
      <4> HIDE DEF a, b, s
      <4>2. Append(Append(s, a), b) = s \o <<a, b>>
        BY <4>1, TwoAppended
      <4> QED BY <2>9, <4>2 DEF a, b, s, Tagged
    <3> HIDE DEF t, byName, d
    <3>3. d \in DOMAIN fs /\ fs[d].kind = "dir"
      BY <3>1 DEF IsDir
    <3> QED BY <2>7, <3>2, <3>3, Zenon DEF Resolve
  <2> QED BY <2>4, <2>6, <2>8, <2>9
<1> QED BY <1>1, AlwaysInv, PTL

=============================================================================
