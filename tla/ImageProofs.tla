----------------------------- MODULE ImageProofs ----------------------------
(***************************************************************************)
(* Proofs about SystemImages: what a call of the pool does, the types and  *)
(* the totals of hosts, whatever requests meet; and, where requests at the *)
(* vm of an image are apart, that the columns of hosts and the domains are *)
(* those that the rows of images name, and that the snapshot of an image   *)
(* is there to be cloned.                                                  *)
(***************************************************************************)
EXTENDS ImageProperties, HostQuotaProofs, FiniteSetTheorems, TLAPS

-----------------------------------------------------------------------------
(* What ceph makes of a pool.                                              *)

\* Names put aside are no names that are given, and different names are put
\* aside differently.
LEMMA AsideNames ==
    /\ \A n \in RbdNames : n \in Keys /\ Aside(n) \in Keys /\ Aside(n) \notin RbdNames
    /\ \A n, m : Aside(n) = Aside(m) <=> n = m
<1>1. \A n \in RbdNames : n \in Keys /\ Aside(n) \in Keys /\ Aside(n) \notin RbdNames
  BY RbdAssumption DEF Keys
<1>2. ASSUME NEW n, NEW m, Aside(n) = Aside(m)
      PROVE  n = m
  BY <1>2 DEF Aside
<1>3. QED
  BY <1>1, <1>2

\* A call that is made does what it does, or fails and changes nothing: the reason is one of its own, which the
\* setting lets it fail with, or that the call is not possible.
LEMMA CephCases ==
    ASSUME NEW w, NEW call, call # "", NEW possible \in BOOLEAN, NEW done, NEW a, NEW b,
           Ceph(w, Outcomes(call, possible, pool, done), a, b)
    PROVE  \/ possible /\ pool' = done /\ To(w, a)
           \/ pool' = pool /\ To(w, b) /\ (Breaks(call) \/ ~possible)
<1>1. PICK r \in Outcomes(call, possible, pool, done) :
        /\ r.own = "" \/ Breaks(r.own)
        /\ pool' = r.pool
        /\ To(w, IF r.ok THEN a ELSE b)
  BY DEF Ceph
<1>2. CASE r = Outcome(FALSE, call, pool)
  BY <1>1, <1>2 DEF Outcome
<1>3. CASE possible /\ r = Outcome(TRUE, "", done)
  BY <1>1, <1>3 DEF Outcome
<1>4. CASE ~possible /\ r = Outcome(FALSE, "", pool)
  BY <1>1, <1>4 DEF Outcome
<1>5. \/ r = Outcome(FALSE, call, pool)
      \/ possible /\ r = Outcome(TRUE, "", done)
      \/ ~possible /\ r = Outcome(FALSE, "", pool)
  BY <1>1 DEF Outcomes
<1>6. QED
  BY <1>2, <1>3, <1>4, <1>5

\* The pools that the calls make.
Made(p, n, size) == IF image_exists(p, n) THEN p ELSE [p EXCEPT ![n] = [NoImage EXCEPT !.size = size]]

Snapped(p, n, s) == [p EXCEPT ![n].snaps[s] = p[n].size]

Protected(p, n, s) == [Snapped(p, n, s) EXCEPT ![n].protected = @ \cup {s}]

Unsnapped(p, n, s) == [p EXCEPT ![n].snaps[s] = 0, ![n].protected = @ \ {s}]

Unheld(p, n, s) == [p EXCEPT ![n].protected = @ \ {s}]

Cloned(p, n, s, new) ==
    [p EXCEPT ![new] = [NoImage EXCEPT !.size = p[n].snaps[s], !.parent = <<n, s>>]]

Flat(p, n) == [p EXCEPT ![n].parent = NoParent]

Gone(p, n) == [p EXCEPT ![n] = NoImage]

Sized(p, n, size) == [p EXCEPT ![n].size = size]

\* create_image makes the image, or leaves one that is there.
LEMMA CreateImageStep ==
    ASSUME NEW w, NEW n, NEW size, NEW a, NEW b, Ceph(w, create_image(pool, n, size), a, b)
    PROVE  \/ pool' = Made(pool, n, size) /\ To(w, a)
           \/ pool' = pool /\ To(w, b) /\ Breaks("create_image")
<1>1. Ceph(w, Outcomes("create_image", TRUE, pool, Made(pool, n, size)), a, b)
  BY DEF create_image, Made
<1>2. QED
  BY <1>1, CephCases

\* A snapshot that cannot be protected stays.
LEMMA CreateSnapCases ==
    ASSUME NEW p, NEW n, NEW s, NEW protect \in BOOLEAN, NEW r \in create_snap(p, n, s, protect)
    PROVE  \/ /\ r.ok /\ image_exists(p, n)
              /\ r.pool = IF protect THEN Protected(p, n, s) ELSE Snapped(p, n, s)
           \/ ~r.ok /\ r.pool = p /\ (r.own = "create_snap" \/ ~image_exists(p, n))
           \/ ~r.ok /\ r.pool = Snapped(p, n, s) /\ image_exists(p, n) /\ protect /\ r.own = "protect_snap"
<1>0. image_exists(p, n) \in BOOLEAN
  BY DEF image_exists
<1>1. PICK taken \in Outcomes("create_snap", image_exists(p, n), p, Snapped(p, n, s)) :
        r \in IF ~taken.ok \/ ~protect THEN {taken}
              ELSE Outcomes("protect_snap", TRUE, taken.pool,
                            [taken.pool EXCEPT ![n].protected = @ \cup {s}])
  BY DEF create_snap, Snapped
<1>2. \/ taken = Outcome(FALSE, "create_snap", p)
      \/ image_exists(p, n) /\ taken = Outcome(TRUE, "", Snapped(p, n, s))
      \/ ~image_exists(p, n) /\ taken = Outcome(FALSE, "", p)
  BY <1>0, <1>1 DEF Outcomes
<1>3. ASSUME ~taken.ok /\ taken.pool = p /\ (taken.own = "create_snap" \/ ~image_exists(p, n))
      PROVE  ~r.ok /\ r.pool = p /\ (r.own = "create_snap" \/ ~image_exists(p, n))
  BY <1>1, <1>3
<1>5. CASE taken = Outcome(FALSE, "create_snap", p)
  BY <1>3, <1>5 DEF Outcome
<1>6. CASE ~image_exists(p, n) /\ taken = Outcome(FALSE, "", p)
  BY <1>3, <1>6 DEF Outcome
<1>4. CASE image_exists(p, n) /\ taken = Outcome(TRUE, "", Snapped(p, n, s))
  <2>1. taken.ok /\ taken.pool = Snapped(p, n, s)
    BY <1>4 DEF Outcome
  <2>2. CASE ~protect
    BY <1>1, <1>4, <2>1, <2>2
  <2>3. CASE protect
    <3>1. r \in Outcomes("protect_snap", TRUE, Snapped(p, n, s), Protected(p, n, s))
      BY <1>1, <2>1, <2>3 DEF Protected
    <3>2. \/ r = Outcome(FALSE, "protect_snap", Snapped(p, n, s))
          \/ r = Outcome(TRUE, "", Protected(p, n, s))
      BY <3>1 DEF Outcomes
    <3>3. CASE r = Outcome(FALSE, "protect_snap", Snapped(p, n, s))
      BY <1>4, <2>3, <3>3 DEF Outcome
    <3>4. CASE r = Outcome(TRUE, "", Protected(p, n, s))
      BY <1>4, <2>3, <3>4 DEF Outcome
    <3>5. QED
      BY <3>2, <3>3, <3>4
  <2>4. QED
    BY <2>2, <2>3
<1>7. QED
  BY <1>2, <1>4, <1>5, <1>6

\* What is not there counts as removed; a snapshot with clones stays; one without
\* may stay too, and is not protected then.
LEMMA RemoveSnapStep ==
    ASSUME NEW w, NEW n, NEW s, NEW a, NEW b, Ceph(w, remove_snap(pool, n, s), a, b)
    PROVE  \/ ~HasSnap(pool, n, s) /\ pool' = pool /\ To(w, a)
           \/ /\ HasSnap(pool, n, s) /\ Children(pool, n, s) = {}
              /\ pool' = Unsnapped(pool, n, s) /\ To(w, a)
           \/ /\ pool' = pool /\ To(w, b)
              /\ Breaks("remove_snap") \/ (HasSnap(pool, n, s) /\ Children(pool, n, s) # {})
           \/ /\ HasSnap(pool, n, s) /\ pool' = Unheld(pool, n, s) /\ To(w, b) /\ Breaks("remove_snap")
<1>1. CASE ~HasSnap(pool, n, s)
  BY <1>1, CephCases DEF remove_snap
<1>2. CASE HasSnap(pool, n, s)
  <2> DEFINE possible == Children(pool, n, s) = {}
             left == Outcome(FALSE, "remove_snap", IF possible THEN Unheld(pool, n, s) ELSE pool)
  <2>0. remove_snap(pool, n, s)
           = Outcomes("remove_snap", possible, pool, Unsnapped(pool, n, s)) \cup {left}
    BY <1>2 DEF remove_snap, Unsnapped, Unheld
  <2>1. \/ Ceph(w, Outcomes("remove_snap", possible, pool, Unsnapped(pool, n, s)), a, b)
        \/ Ceph(w, {left}, a, b)
    <3> HIDE DEF left, possible
    <3>1. QED
      BY <2>0 DEF Ceph
  <2>2. possible \in BOOLEAN
    OBVIOUS
  <2>3. CASE Ceph(w, {left}, a, b)
    <3>1. /\ left.own = "remove_snap" /\ ~left.ok
          /\ left.pool = IF possible THEN Unheld(pool, n, s) ELSE pool
      BY DEF Outcome
    <3> HIDE DEF left
    <3>2. /\ Breaks("remove_snap") /\ To(w, b)
          /\ pool' = IF possible THEN Unheld(pool, n, s) ELSE pool
      BY <2>3, <3>1 DEF Ceph
    <3>3. QED
      BY <1>2, <3>2
  <2>4. CASE Ceph(w, Outcomes("remove_snap", possible, pool, Unsnapped(pool, n, s)), a, b)
    <3> HIDE DEF possible, left
    <3>1. \/ possible /\ pool' = Unsnapped(pool, n, s) /\ To(w, a)
          \/ pool' = pool /\ To(w, b) /\ (Breaks("remove_snap") \/ ~possible)
      BY <2>2, <2>4, CephCases
    <3>2. QED
      BY <1>2, <3>1 DEF possible
  <2>5. QED
    BY <2>1, <2>3, <2>4
<1>3. QED
  BY <1>1, <1>2

\* clone_image makes a clone of a protected snapshot where no image is.
LEMMA CloneStep ==
    ASSUME NEW w, NEW n, NEW s, NEW new, NEW a, NEW b, Ceph(w, clone_image(pool, n, s, new), a, b)
    PROVE  \/ /\ HasSnap(pool, n, s) /\ s \in pool[n].protected /\ ~image_exists(pool, new)
              /\ pool' = Cloned(pool, n, s, new) /\ To(w, a)
           \/ /\ pool' = pool /\ To(w, b)
              /\ \/ Breaks("clone")
                 \/ ~(HasSnap(pool, n, s) /\ s \in pool[n].protected /\ ~image_exists(pool, new))
<1> DEFINE possible == HasSnap(pool, n, s) /\ s \in pool[n].protected /\ ~image_exists(pool, new)
<1>1. Ceph(w, Outcomes("clone", possible, pool, Cloned(pool, n, s, new)), a, b)
  BY DEF clone_image, Cloned
<1>2. possible \in BOOLEAN
  OBVIOUS
<1> HIDE DEF possible
<1>3. \/ possible /\ pool' = Cloned(pool, n, s, new) /\ To(w, a)
      \/ pool' = pool /\ To(w, b) /\ (Breaks("clone") \/ ~possible)
  BY <1>1, <1>2, CephCases
<1>4. QED
  BY <1>3 DEF possible

\* flatten_image cuts an image from its parent.
LEMMA FlattenStep ==
    ASSUME NEW w, NEW n, NEW a, NEW b, Ceph(w, flatten_image(pool, n), a, b)
    PROVE  \/ image_exists(pool, n) /\ pool' = Flat(pool, n) /\ To(w, a)
           \/ pool' = pool /\ To(w, b) /\ (Breaks("flatten") \/ ~image_exists(pool, n))
<1> DEFINE possible == image_exists(pool, n)
<1>1. Ceph(w, Outcomes("flatten", possible, pool, Flat(pool, n)), a, b)
  BY DEF flatten_image, Flat
<1>2. possible \in BOOLEAN
  BY DEF image_exists
<1> HIDE DEF possible
<1>3. \/ possible /\ pool' = Flat(pool, n) /\ To(w, a)
      \/ pool' = pool /\ To(w, b) /\ (Breaks("flatten") \/ ~possible)
  BY <1>1, <1>2, CephCases
<1>4. QED
  BY <1>3 DEF possible

\* rename_image gives an image a name that is free, or that of what is put aside.
LEMMA RenameStep ==
    ASSUME NEW w, NEW n, NEW m, NEW a, NEW b, Ceph(w, rename_image(pool, n, m), a, b)
    PROVE  \/ /\ image_exists(pool, n) /\ (m \in RbdNames => ~image_exists(pool, m))
              /\ pool' = Renamed(pool, n, m) /\ To(w, a)
           \/ /\ pool' = pool /\ To(w, b)
              /\ \/ Breaks("rename_image")
                 \/ ~(image_exists(pool, n) /\ (m \in RbdNames => ~image_exists(pool, m)))
<1> DEFINE possible == image_exists(pool, n) /\ (m \in RbdNames => ~image_exists(pool, m))
<1>1. Ceph(w, Outcomes("rename_image", possible, pool, Renamed(pool, n, m)), a, b)
  BY DEF rename_image
<1>2. possible \in BOOLEAN
  OBVIOUS
<1> HIDE DEF possible
<1>3. \/ possible /\ pool' = Renamed(pool, n, m) /\ To(w, a)
      \/ pool' = pool /\ To(w, b) /\ (Breaks("rename_image") \/ ~possible)
  BY <1>1, <1>2, CephCases
<1>4. QED
  BY <1>3 DEF possible

\* remove_image removes an image that has no snapshot.
LEMMA RemoveImageStep ==
    ASSUME NEW w, NEW n, NEW a, NEW b, Ceph(w, remove_image(pool, n), a, b)
    PROVE  \/ /\ \A s \in 1 .. MaxTick : ~HasSnap(pool, n, s)
              /\ pool' = Gone(pool, n) /\ To(w, a)
           \/ /\ pool' = pool /\ To(w, b)
              /\ Breaks("remove_image") \/ \E s \in 1 .. MaxTick : HasSnap(pool, n, s)
<1> DEFINE possible == \A s \in 1 .. MaxTick : ~HasSnap(pool, n, s)
<1>1. Ceph(w, Outcomes("remove_image", possible, pool, Gone(pool, n)), a, b)
  BY DEF remove_image, Gone
<1>2. possible \in BOOLEAN
  OBVIOUS
<1> HIDE DEF possible
<1>3. \/ possible /\ pool' = Gone(pool, n) /\ To(w, a)
      \/ pool' = pool /\ To(w, b) /\ (Breaks("remove_image") \/ ~possible)
  BY <1>1, <1>2, CephCases
<1>4. QED
  BY <1>3 DEF possible

\* image_rollback_to_snap gives an image the size of its snapshot.
LEMMA RollbackStep ==
    ASSUME NEW w, NEW n, NEW s, NEW a, NEW b, Ceph(w, image_rollback_to_snap(pool, n, s), a, b)
    PROVE  \/ HasSnap(pool, n, s) /\ pool' = Sized(pool, n, pool[n].snaps[s]) /\ To(w, a)
           \/ pool' = pool /\ To(w, b)
<1> DEFINE possible == HasSnap(pool, n, s)
<1>1. Ceph(w, Outcomes("rollback", possible, pool, Sized(pool, n, pool[n].snaps[s])), a, b)
  BY DEF image_rollback_to_snap, Sized
<1>2. possible \in BOOLEAN
  BY DEF HasSnap
<1> HIDE DEF possible
<1>3. \/ possible /\ pool' = Sized(pool, n, pool[n].snaps[s]) /\ To(w, a)
      \/ pool' = pool /\ To(w, b) /\ (Breaks("rollback") \/ ~possible)
  BY <1>1, <1>2, CephCases
<1>4. QED
  BY <1>3 DEF possible

\* resize_rbd_image makes an image larger.
LEMMA ResizeStep ==
    ASSUME NEW w, NEW n, NEW size, NEW a, NEW b, Ceph(w, resize_rbd_image(pool, n, size), a, b)
    PROVE  \/ /\ image_exists(pool, n) /\ size >= pool[n].size /\ size <= MaxSize
              /\ pool' = Sized(pool, n, size) /\ To(w, a)
           \/ pool' = pool /\ To(w, b)
<1> DEFINE possible == image_exists(pool, n) /\ size >= pool[n].size /\ size <= MaxSize
<1>1. Ceph(w, Outcomes("resize", possible, pool, Sized(pool, n, size)), a, b)
  BY DEF resize_rbd_image, Sized
<1>2. possible \in BOOLEAN
  OBVIOUS
<1> HIDE DEF possible
<1>3. \/ possible /\ pool' = Sized(pool, n, size) /\ To(w, a)
      \/ pool' = pool /\ To(w, b) /\ (Breaks("resize") \/ ~possible)
  BY <1>1, <1>2, CephCases
<1>4. QED
  BY <1>3 DEF possible

\* An image that is not there has nothing; the protected snapshots are there,
\* and no snapshot is younger than t.
Sound(img, t) ==
    /\ img \in RbdImage
    /\ img.size = 0 => img = NoImage
    /\ \A s \in 1 .. MaxTick : /\ s \in img.protected => img.snaps[s] > 0
                               /\ img.snaps[s] > 0 => s <= t

PoolSound(p, t) == p \in [Keys -> RbdImage] /\ \A n \in Keys : Sound(p[n], t)

\* No image at all is sound.
LEMMA NoImageSound ==
    ASSUME NEW t
    PROVE  Sound(NoImage, t)
  BY RbdAssumption DEF Sound, NoImage, RbdImage, NoParent

\* An image without a snapshot is sound.
LEMMA FreshSound ==
    ASSUME NEW t, NEW img \in RbdImage, img.size > 0, img.snaps = NoImage.snaps, img.protected = {}
    PROVE  Sound(img, t)
<1>1. \A s \in 1 .. MaxTick : img.snaps[s] = 0
  BY DEF NoImage
<1>2. img.size # 0
  BY RbdAssumption DEF RbdImage
<1>3. QED
  BY <1>1, <1>2 DEF Sound

\* A sound pool is sound later.
LEMMA LaterSound ==
    ASSUME NEW p, NEW t \in Nat, PoolSound(p, t)
    PROVE  PoolSound(p, t + 1)
  BY RbdAssumption DEF PoolSound, Sound

\* One image of a pool changes.
LEMMA OneImageSound ==
    ASSUME NEW p, NEW t, PoolSound(p, t), NEW n \in Keys, NEW img, Sound(img, t)
    PROVE  PoolSound([p EXCEPT ![n] = img], t)
<1>1. img \in RbdImage
  BY DEF Sound
<1>2. QED
  BY <1>1 DEF PoolSound

\* What a pool is after each call.
LEMMA MadePool ==
    ASSUME NEW p, NEW t, PoolSound(p, t), NEW n \in Keys, NEW size \in 1 .. MaxSize
    PROVE  /\ PoolSound(Made(p, n, size), t)
           /\ \A m \in Keys \ {n} : Made(p, n, size)[m] = p[m]
           /\ image_exists(Made(p, n, size), n)
           /\ image_exists(p, n) => Made(p, n, size)[n] = p[n]
           /\ Made(p, n, size)[n].parent \in {p[n].parent, NoParent}
           /\ \A s \in 1 .. MaxTick :
                 /\ Made(p, n, size)[n].snaps[s] = p[n].snaps[s]
                 /\ Made(p, n, size)[n].protected = p[n].protected
<1> DEFINE img == [NoImage EXCEPT !.size = size]
<1>1. CASE image_exists(p, n)
  BY <1>1 DEF Made
<1>2. CASE ~image_exists(p, n)
  <2>0. NoImage \in RbdImage
    BY NoImageSound DEF Sound
  <2>1. img \in RbdImage /\ img.size > 0
    BY <2>0, RbdAssumption DEF RbdImage
  <2>2. Made(p, n, size) = [p EXCEPT ![n] = img]
    BY <1>2 DEF Made
  <2>3. img.size = size /\ img.snaps = NoImage.snaps /\ img.parent = NoParent /\ img.protected = NoImage.protected
    BY DEF NoImage
  <2>4. p[n] \in RbdImage /\ (p[n].size = 0 => p[n] = NoImage)
    BY DEF PoolSound, Sound
  <2>5. p[n] = NoImage
    BY <1>2, <2>4, RbdAssumption DEF image_exists, RbdImage
  <2> HIDE DEF img
  <2>9. Sound(img, t)
    BY <2>1, <2>3, FreshSound DEF NoImage
  <2>10. PoolSound([p EXCEPT ![n] = img], t)
    BY <2>9, OneImageSound
  <2>6. PoolSound(Made(p, n, size), t)
    BY <2>2, <2>10
  <2>7. Made(p, n, size)[n] = img /\ \A m \in Keys \ {n} : Made(p, n, size)[m] = p[m]
    BY <2>2 DEF PoolSound
  <2>8. QED
    BY <1>2, <2>3, <2>5, <2>6, <2>7 DEF image_exists
<1>3. QED
  BY <1>1, <1>2

\* What a snapshot makes of a sound pool.
LEMMA SnappedPool ==
    ASSUME NEW p, NEW t \in Nat, PoolSound(p, t), t + 1 \in 1 .. MaxTick, NEW n \in Keys, image_exists(p, n)
    PROVE  /\ PoolSound(Snapped(p, n, t + 1), t + 1)
           /\ \A m \in Keys \ {n} : Snapped(p, n, t + 1)[m] = p[m]
           /\ Snapped(p, n, t + 1)[n].size = p[n].size
           /\ Snapped(p, n, t + 1)[n].parent = p[n].parent
           /\ Snapped(p, n, t + 1)[n].protected = p[n].protected
           /\ Snapped(p, n, t + 1)[n].snaps[t + 1] > 0
           /\ \A s \in (1 .. MaxTick) \ {t + 1} : Snapped(p, n, t + 1)[n].snaps[s] = p[n].snaps[s]
<1> DEFINE img == [p[n] EXCEPT !.snaps = [p[n].snaps EXCEPT ![t + 1] = p[n].size]]
<1>1. PoolSound(p, t + 1)
  BY LaterSound
<1>2. p[n] \in RbdImage /\ p[n].size > 0 /\ Sound(p[n], t + 1)
  BY <1>1 DEF PoolSound, image_exists
<1>3. /\ img \in RbdImage
      /\ img.size = p[n].size /\ img.parent = p[n].parent /\ img.protected = p[n].protected
      /\ img.snaps[t + 1] = p[n].size
      /\ \A s \in (1 .. MaxTick) \ {t + 1} : img.snaps[s] = p[n].snaps[s]
  BY <1>2, RbdAssumption DEF RbdImage
<1>4. Snapped(p, n, t + 1) = [p EXCEPT ![n] = img]
  BY DEF Snapped
<1> HIDE DEF img
<1>5. Sound(img, t + 1)
  <2>1. ASSUME NEW s \in 1 .. MaxTick
        PROVE  /\ s \in img.protected => img.snaps[s] > 0
               /\ img.snaps[s] > 0 => s <= t + 1
    BY <1>2, <1>3 DEF Sound
  <2>2. img.size # 0
    BY <1>2, <1>3, RbdAssumption DEF RbdImage
  <2>3. QED
    BY <1>3, <2>1, <2>2 DEF Sound
<1>6. PoolSound(Snapped(p, n, t + 1), t + 1)
  BY <1>1, <1>4, <1>5, OneImageSound
<1>7. Snapped(p, n, t + 1)[n] = img /\ \A m \in Keys \ {n} : Snapped(p, n, t + 1)[m] = p[m]
  BY <1>4 DEF PoolSound
<1>8. QED
  BY <1>2, <1>3, <1>6, <1>7

\* What the protection of a snapshot makes of a sound pool.
LEMMA ProtectedPool ==
    ASSUME NEW p, NEW t \in Nat, PoolSound(p, t), t + 1 \in 1 .. MaxTick, NEW n \in Keys, image_exists(p, n)
    PROVE  /\ PoolSound(Protected(p, n, t + 1), t + 1)
           /\ \A m \in Keys \ {n} : Protected(p, n, t + 1)[m] = p[m]
           /\ Protected(p, n, t + 1)[n].size = p[n].size
           /\ Protected(p, n, t + 1)[n].parent = p[n].parent
           /\ Protected(p, n, t + 1)[n].protected = p[n].protected \cup {t + 1}
           /\ Protected(p, n, t + 1)[n].snaps[t + 1] > 0
           /\ \A s \in (1 .. MaxTick) \ {t + 1} : Protected(p, n, t + 1)[n].snaps[s] = p[n].snaps[s]
<1> DEFINE q == Snapped(p, n, t + 1)
           img == [q[n] EXCEPT !.protected = q[n].protected \cup {t + 1}]
<1>1. /\ PoolSound(q, t + 1)
      /\ \A m \in Keys \ {n} : q[m] = p[m]
      /\ q[n].size = p[n].size /\ q[n].parent = p[n].parent /\ q[n].protected = p[n].protected
      /\ q[n].snaps[t + 1] > 0
      /\ \A s \in (1 .. MaxTick) \ {t + 1} : q[n].snaps[s] = p[n].snaps[s]
  BY SnappedPool
<1>2. Protected(p, n, t + 1) = [q EXCEPT ![n] = img]
  BY DEF Protected
<1> HIDE DEF q
<1>3. q[n] \in RbdImage /\ Sound(q[n], t + 1) /\ q[n].size > 0
  BY <1>1 DEF PoolSound, image_exists
<1>4. /\ img \in RbdImage
      /\ img.size = q[n].size /\ img.parent = q[n].parent /\ img.snaps = q[n].snaps
      /\ img.protected = q[n].protected \cup {t + 1}
  BY <1>3 DEF RbdImage
<1> HIDE DEF img
<1>5. Sound(img, t + 1)
  BY <1>1, <1>3, <1>4, RbdAssumption DEF Sound
<1>6. PoolSound(Protected(p, n, t + 1), t + 1)
  BY <1>1, <1>2, <1>5, OneImageSound
<1>7. Protected(p, n, t + 1)[n] = img /\ \A m \in Keys \ {n} : Protected(p, n, t + 1)[m] = q[m]
  BY <1>1, <1>2 DEF PoolSound
<1>8. QED
  BY <1>1, <1>4, <1>6, <1>7

\* What the removal of a snapshot without clones makes of a sound pool.
LEMMA UnsnappedPool ==
    ASSUME NEW p, NEW t, PoolSound(p, t), NEW n \in Keys, NEW x \in 1 .. MaxTick
    PROVE  /\ PoolSound(Unsnapped(p, n, x), t)
           /\ \A m \in Keys \ {n} : Unsnapped(p, n, x)[m] = p[m]
           /\ Unsnapped(p, n, x)[n].size = p[n].size
           /\ Unsnapped(p, n, x)[n].parent = p[n].parent
           /\ Unsnapped(p, n, x)[n].protected = p[n].protected \ {x}
           /\ Unsnapped(p, n, x)[n].snaps[x] = 0
           /\ \A s \in (1 .. MaxTick) \ {x} : Unsnapped(p, n, x)[n].snaps[s] = p[n].snaps[s]
<1> DEFINE img == [p[n] EXCEPT !.snaps = [p[n].snaps EXCEPT ![x] = 0],
                               !.protected = p[n].protected \ {x}]
<1>1. p[n] \in RbdImage /\ Sound(p[n], t)
  BY DEF PoolSound
<1>2. /\ img \in RbdImage
      /\ img.size = p[n].size /\ img.parent = p[n].parent /\ img.protected = p[n].protected \ {x}
      /\ img.snaps[x] = 0
      /\ \A s \in (1 .. MaxTick) \ {x} : img.snaps[s] = p[n].snaps[s]
  <2> DEFINE snaps == [p[n].snaps EXCEPT ![x] = 0]
             protected == p[n].protected \ {x}
  <2>1. p[n].snaps \in [1 .. MaxTick -> 0 .. MaxSize] /\ p[n].protected \in SUBSET (1 .. MaxTick)
    BY <1>1 DEF RbdImage
  <2>2. snaps \in [1 .. MaxTick -> 0 .. MaxSize] /\ protected \in SUBSET (1 .. MaxTick)
    BY <2>1, RbdAssumption
  <2>3. snaps[x] = 0 /\ \A s \in (1 .. MaxTick) \ {x} : snaps[s] = p[n].snaps[s]
    BY <2>1
  <2>4. img = [p[n] EXCEPT !.snaps = snaps, !.protected = protected]
    OBVIOUS
  <2> HIDE DEF snaps, img
  <2>5. /\ img \in RbdImage
        /\ img.size = p[n].size /\ img.parent = p[n].parent /\ img.protected = protected
        /\ img.snaps = snaps
    BY <1>1, <2>2, <2>4 DEF RbdImage
  <2>6. QED
    BY <2>3, <2>5
<1>3. Unsnapped(p, n, x) = [p EXCEPT ![n] = img]
  BY <1>1 DEF Unsnapped, PoolSound
<1>4. ASSUME p[n].size = 0
      PROVE  img = NoImage
  <2>1. p[n] = NoImage
    BY <1>1, <1>4 DEF Sound
  <2>2. [p[n].snaps EXCEPT ![x] = 0] = NoImage.snaps /\ p[n].protected \ {x} = NoImage.protected
    BY <2>1 DEF NoImage
  <2>3. QED
    BY <2>1, <2>2 DEF NoImage
<1> HIDE DEF img
<1>5. Sound(img, t)
  <2>1. ASSUME NEW s \in 1 .. MaxTick
        PROVE  /\ s \in img.protected => img.snaps[s] > 0
               /\ img.snaps[s] > 0 => s <= t
    BY <1>1, <1>2 DEF Sound
  <2>2. QED
    BY <1>2, <1>4, <2>1 DEF Sound
<1>6. PoolSound([p EXCEPT ![n] = img], t)
  BY <1>5, OneImageSound
<1>7. Unsnapped(p, n, x)[n] = img /\ \A m \in Keys \ {n} : Unsnapped(p, n, x)[m] = p[m]
  BY <1>3 DEF PoolSound
<1>8. QED
  BY <1>2, <1>3, <1>6, <1>7

\* What is left where it is not removed.
LEMMA UnheldPool ==
    ASSUME NEW p, NEW t, PoolSound(p, t), NEW n \in Keys, NEW x
    PROVE  /\ PoolSound(Unheld(p, n, x), t)
           /\ \A m \in Keys \ {n} : Unheld(p, n, x)[m] = p[m]
           /\ Unheld(p, n, x)[n].size = p[n].size /\ Unheld(p, n, x)[n].parent = p[n].parent
           /\ Unheld(p, n, x)[n].protected = p[n].protected \ {x}
           /\ Unheld(p, n, x)[n].snaps = p[n].snaps
           /\ x \notin p[n].protected => Unheld(p, n, x) = p
<1> DEFINE protected == p[n].protected \ {x}
           img == [p[n] EXCEPT !.protected = protected]
<1>1. p[n] \in RbdImage /\ Sound(p[n], t) /\ p \in [Keys -> RbdImage]
  BY DEF PoolSound
<1>2. protected \in SUBSET (1 .. MaxTick) /\ protected \subseteq p[n].protected
  BY <1>1 DEF RbdImage
<1>3. Unheld(p, n, x) = [p EXCEPT ![n] = img]
  BY <1>1 DEF Unheld
<1>4. x \notin p[n].protected => protected = p[n].protected
  OBVIOUS
<1> HIDE DEF protected
<1>5. /\ img \in RbdImage /\ img.size = p[n].size /\ img.parent = p[n].parent
      /\ img.snaps = p[n].snaps /\ img.protected = protected
      /\ protected = p[n].protected => img = p[n]
  BY <1>1, <1>2 DEF RbdImage
<1>6. p[n].size = 0 => img = NoImage
  <2>1. p[n] = NoImage => protected = p[n].protected
    BY <1>2 DEF NoImage
  <2>2. QED
    BY <1>1, <1>5, <2>1 DEF Sound
<1> HIDE DEF img
<1>7. Sound(img, t)
  BY <1>1, <1>2, <1>5, <1>6 DEF Sound
<1>8. PoolSound([p EXCEPT ![n] = img], t)
  BY <1>7, OneImageSound
<1>9. Unheld(p, n, x)[n] = img /\ \A m \in Keys \ {n} : Unheld(p, n, x)[m] = p[m]
  BY <1>1, <1>3
<1>10. x \notin p[n].protected => Unheld(p, n, x) = p
  BY <1>1, <1>3, <1>4, <1>5
<1>11. QED
  BY <1>3, <1>5, <1>8, <1>9, <1>10 DEF protected

\* What a clone makes of a sound pool.
LEMMA ClonedPool ==
    ASSUME NEW p, NEW t, PoolSound(p, t), NEW n \in Keys, NEW x, HasSnap(p, n, x), NEW new \in Keys,
           ~image_exists(p, new)
    PROVE  /\ PoolSound(Cloned(p, n, x, new), t)
           /\ \A m \in Keys \ {new} : Cloned(p, n, x, new)[m] = p[m]
           /\ Cloned(p, n, x, new)[new].size = p[n].snaps[x]
           /\ Cloned(p, n, x, new)[new].size > 0
           /\ Cloned(p, n, x, new)[new].parent = <<n, x>>
           /\ Cloned(p, n, x, new)[new].protected = {}
           /\ \A s \in 1 .. MaxTick : Cloned(p, n, x, new)[new].snaps[s] = 0
           /\ p[new] = NoImage
<1> DEFINE img == [NoImage EXCEPT !.size = p[n].snaps[x], !.parent = <<n, x>>]
<1>1. p[n] \in RbdImage /\ x \in 1 .. MaxTick /\ p[n].snaps[x] > 0 /\ p[n].snaps[x] \in 0 .. MaxSize
  BY DEF PoolSound, HasSnap, RbdImage
<1>2. NoImage \in RbdImage
  BY NoImageSound DEF Sound
<1>3. /\ img \in RbdImage
      /\ img.size = p[n].snaps[x] /\ img.parent = <<n, x>>
      /\ img.protected = NoImage.protected /\ img.snaps = NoImage.snaps
  BY <1>1, <1>2 DEF RbdImage
<1>4. Cloned(p, n, x, new) = [p EXCEPT ![new] = img]
  BY DEF Cloned
<1> HIDE DEF img
<1>5. NoImage.protected = {} /\ \A s \in 1 .. MaxTick : NoImage.snaps[s] = 0
  BY DEF NoImage
<1>6. Sound(img, t)
  BY <1>1, <1>3, <1>5, FreshSound
<1>7. PoolSound([p EXCEPT ![new] = img], t)
  BY <1>6, OneImageSound
<1>8. Cloned(p, n, x, new)[new] = img /\ \A m \in Keys \ {new} : Cloned(p, n, x, new)[m] = p[m]
  BY <1>4 DEF PoolSound
<1>9. p[new] = NoImage
  BY RbdAssumption DEF PoolSound, Sound, image_exists, RbdImage
<1>10. QED
  BY <1>1, <1>3, <1>4, <1>5, <1>7, <1>8, <1>9

\* What a flatten makes of a sound pool.
LEMMA FlatPool ==
    ASSUME NEW p, NEW t, PoolSound(p, t), NEW n \in Keys
    PROVE  /\ PoolSound(Flat(p, n), t)
           /\ \A m \in Keys \ {n} : Flat(p, n)[m] = p[m]
           /\ Flat(p, n)[n].size = p[n].size /\ Flat(p, n)[n].snaps = p[n].snaps
           /\ Flat(p, n)[n].protected = p[n].protected
           /\ Flat(p, n)[n].parent = NoParent
<1> DEFINE img == [p[n] EXCEPT !.parent = NoParent]
<1>1. p[n] \in RbdImage /\ Sound(p[n], t)
  BY DEF PoolSound
<1>2. /\ img \in RbdImage
      /\ img.size = p[n].size /\ img.snaps = p[n].snaps /\ img.protected = p[n].protected
      /\ img.parent = NoParent
  BY <1>1 DEF RbdImage
<1>3. p[n].size = 0 => img = NoImage
  <2>1. ASSUME p[n].size = 0
        PROVE  img = NoImage
    BY <1>1, <2>1 DEF Sound, NoImage
  <2>2. QED
    BY <2>1
<1>4. Flat(p, n) = [p EXCEPT ![n] = img]
  BY DEF Flat
<1> HIDE DEF img
<1>5. Sound(img, t)
  BY <1>1, <1>2, <1>3 DEF Sound
<1>6. PoolSound([p EXCEPT ![n] = img], t)
  BY <1>5, OneImageSound
<1>7. Flat(p, n)[n] = img /\ \A m \in Keys \ {n} : Flat(p, n)[m] = p[m]
  BY <1>4 DEF PoolSound
<1>8. QED
  BY <1>2, <1>4, <1>6, <1>7

\* What the removal of an image makes of a sound pool.
LEMMA GonePool ==
    ASSUME NEW p, NEW t, PoolSound(p, t), NEW n \in Keys
    PROVE  /\ PoolSound(Gone(p, n), t)
           /\ \A m \in Keys \ {n} : Gone(p, n)[m] = p[m]
           /\ Gone(p, n)[n] = NoImage
<1>1. PoolSound(Gone(p, n), t)
  BY NoImageSound, OneImageSound DEF Gone
<1>2. QED
  BY <1>1 DEF Gone, PoolSound

\* What another size of an image makes of a sound pool.
LEMMA SizedPool ==
    ASSUME NEW p, NEW t, PoolSound(p, t), NEW n \in Keys, NEW size \in 1 .. MaxSize
    PROVE  /\ PoolSound(Sized(p, n, size), t)
           /\ \A m \in Keys \ {n} : Sized(p, n, size)[m] = p[m]
           /\ Sized(p, n, size)[n].size = size /\ Sized(p, n, size)[n].snaps = p[n].snaps
           /\ Sized(p, n, size)[n].protected = p[n].protected
           /\ Sized(p, n, size)[n].parent = p[n].parent
<1> DEFINE img == [p[n] EXCEPT !.size = size]
<1>1. p[n] \in RbdImage /\ Sound(p[n], t)
  BY DEF PoolSound
<1>2. /\ img \in RbdImage
      /\ img.size = size /\ img.snaps = p[n].snaps /\ img.protected = p[n].protected
      /\ img.parent = p[n].parent
  BY <1>1, RbdAssumption DEF RbdImage
<1>3. Sized(p, n, size) = [p EXCEPT ![n] = img]
  BY DEF Sized
<1> HIDE DEF img
<1>4. Sound(img, t)
  BY <1>1, <1>2 DEF Sound
<1>5. PoolSound([p EXCEPT ![n] = img], t)
  BY <1>4, OneImageSound
<1>6. Sized(p, n, size)[n] = img /\ \A m \in Keys \ {n} : Sized(p, n, size)[m] = p[m]
  BY <1>3 DEF PoolSound
<1>7. QED
  BY <1>2, <1>3, <1>5, <1>6

\* What becomes of the parent of an image when n takes the name m: it follows.
Reparent(parent, n, m) ==
    IF parent = NoParent THEN NoParent
    ELSE IF parent[1] = n THEN <<m, parent[2]>>
    ELSE IF parent[1] = m THEN NoParent
    ELSE parent

\* What a rename makes of a sound pool: the image has the other name, and its
\* clones follow it.
LEMMA RenamedPool ==
    ASSUME NEW p, NEW t, PoolSound(p, t), NEW n \in Keys, NEW m \in Keys, n # m
    PROVE  /\ PoolSound(Renamed(p, n, m), t)
           /\ Renamed(p, n, m)[n] = NoImage
           /\ \A k \in Keys \ {n} :
                 LET from == IF k = m THEN n ELSE k IN
                 /\ Renamed(p, n, m)[k].size = p[from].size
                 /\ Renamed(p, n, m)[k].snaps = p[from].snaps
                 /\ Renamed(p, n, m)[k].protected = p[from].protected
                 /\ Renamed(p, n, m)[k].parent = Reparent(p[from].parent, n, m)
<1> DEFINE new(img) == IF img.parent = NoParent THEN img
                       ELSE IF img.parent[1] = n THEN [img EXCEPT !.parent[1] = m]
                       ELSE IF img.parent[1] = m THEN [img EXCEPT !.parent = NoParent]
                       ELSE img
<1>1. ASSUME NEW img, Sound(img, t)
      PROVE  /\ Sound(new(img), t)
             /\ new(img).size = img.size /\ new(img).snaps = img.snaps /\ new(img).protected = img.protected
             /\ new(img).parent = Reparent(img.parent, n, m)
  <2>0. img \in RbdImage
    BY <1>1 DEF Sound
  <2>1. CASE img.parent = NoParent
    BY <1>1, <2>1 DEF Reparent
  <2>2. CASE img.parent # NoParent
    <3>1. PICK k \in Keys, s \in 1 .. MaxTick : img.parent = <<k, s>>
      BY <2>0, <2>2 DEF RbdImage
    <3>2. <<k, s>> # NoParent /\ img.parent[1] = k /\ img.parent[2] = s
      BY <2>2, <3>1
    <3>3. img.size # 0
      BY <1>1, <2>2 DEF Sound, NoImage
    <3>4. CASE k = n
      <4>1. new(img) = [img EXCEPT !.parent = <<m, s>>]
        BY <2>2, <3>1, <3>2, <3>4
      <4>2. Reparent(img.parent, n, m) = <<m, s>>
        BY <2>2, <3>2, <3>4 DEF Reparent
      <4> HIDE DEF new
      <4>3. /\ new(img) \in RbdImage
            /\ new(img).size = img.size /\ new(img).snaps = img.snaps /\ new(img).protected = img.protected
            /\ new(img).parent = <<m, s>>
        BY <2>0, <4>1 DEF RbdImage
      <4>4. QED
        BY <1>1, <3>3, <4>2, <4>3 DEF Sound
    <3>5. CASE k # n /\ k = m
      <4>1. new(img) = [img EXCEPT !.parent = NoParent]
        BY <2>2, <3>2, <3>5
      <4>2. Reparent(img.parent, n, m) = NoParent
        BY <3>2, <3>5 DEF Reparent
      <4> HIDE DEF new
      <4>3. /\ new(img) \in RbdImage
            /\ new(img).size = img.size /\ new(img).snaps = img.snaps /\ new(img).protected = img.protected
            /\ new(img).parent = NoParent
        BY <2>0, <4>1 DEF RbdImage
      <4>4. QED
        BY <1>1, <3>3, <4>2, <4>3 DEF Sound
    <3>6. CASE k # n /\ k # m
      BY <1>1, <2>2, <3>2, <3>6 DEF Reparent
    <3>7. QED
      BY <3>4, <3>5, <3>6
  <2>3. QED
    BY <2>1, <2>2
<1>2. Renamed(p, n, m) = [k \in Keys |-> IF k = n THEN NoImage ELSE new(IF k = m THEN p[n] ELSE p[k])]
  BY DEF Renamed
<1> HIDE DEF new
<1>3. Renamed(p, n, m)[n] = NoImage
  BY <1>2
<1>4. ASSUME NEW k \in Keys \ {n}
      PROVE  LET from == IF k = m THEN n ELSE k IN
             /\ Sound(Renamed(p, n, m)[k], t)
             /\ Renamed(p, n, m)[k].size = p[from].size
             /\ Renamed(p, n, m)[k].snaps = p[from].snaps
             /\ Renamed(p, n, m)[k].protected = p[from].protected
             /\ Renamed(p, n, m)[k].parent = Reparent(p[from].parent, n, m)
  <2> DEFINE from == IF k = m THEN n ELSE k
  <2>1. from \in Keys /\ Renamed(p, n, m)[k] = new(p[from])
    BY <1>2
  <2> HIDE DEF from
  <2>2. Sound(p[from], t)
    BY <2>1 DEF PoolSound
  <2>3. /\ Sound(new(p[from]), t)
        /\ new(p[from]).size = p[from].size /\ new(p[from]).snaps = p[from].snaps
        /\ new(p[from]).protected = p[from].protected
        /\ new(p[from]).parent = Reparent(p[from].parent, n, m)
    BY <1>1, <2>2
  <2>4. /\ Sound(Renamed(p, n, m)[k], t)
        /\ Renamed(p, n, m)[k].size = p[from].size
        /\ Renamed(p, n, m)[k].snaps = p[from].snaps
        /\ Renamed(p, n, m)[k].protected = p[from].protected
        /\ Renamed(p, n, m)[k].parent = Reparent(p[from].parent, n, m)
    BY <2>1, <2>3
  <2>5. QED
    BY <2>4 DEF from
<1>5. \A k \in Keys : Sound(Renamed(p, n, m)[k], t)
  BY <1>3, <1>4, NoImageSound
<1>6. Renamed(p, n, m) \in [Keys -> RbdImage]
  BY <1>2, <1>5 DEF Sound
<1>7. PoolSound(Renamed(p, n, m), t)
  BY <1>5, <1>6 DEF PoolSound
<1>8. QED
  BY <1>3, <1>4, <1>7

-----------------------------------------------------------------------------
(* Types, and where a request can be.                                      *)

\* The steps of a request of each kind.
Stages(op) ==
    CASE op = "add_image" -> {"create_image", "create_snap", "insert"}
      [] op = "snap_update" -> {"snap_remove", "snap_create", "save_all"}
      [] op = "enable_update" -> {"save_all"}
      [] op = "delete_image" -> {"rename_base", "undefine", "vm_created_sub", "free", "image_rowdel"}
      [] op = "shelve_image_vm" -> {"undefine", "vm_created_sub", "free", "clear"}
      [] op = "delete_image_vm" -> {"undefine", "vm_created_sub", "free", "clear"}
      [] op = "delshelve_image_vm" -> {"clear"}
      [] op \in {"create_image_vm", "unshelve_image_vm"} ->
           {"claim", "get_image", "save_vm", "define_vm", "reset_vm", "unclaim", "vm_created_add"}
      [] op = "create_machine" -> {"clone_disk", "resize_new", "save_machine", "define_machine",
                                   "remove_disk", "size_read", "size_save"}
      [] op = "change_sys_disk" -> {"rename_disk", "clone_new", "define_new", "save_new",
                                    "remove_new", "rename_back", "remount", "size_read", "size_save"}
      [] op = "create_sys_snap" -> {"sys_snap", "sys_snap_save"}
      [] op = "delete_sys_snap" -> {"remove_sys_snap", "snap_rowdel"}
      [] op = "rollback" -> {"rollback", "size_read", "size_save"}
      [] op = "sys_disk_expand" -> {"resize", "size_read", "size_save"}
      [] op = "release" -> {"rel_exists", "rel_snap", "rel_clone", "rel_flatten", "rel_unsnap",
                            "rel_remove", "rel_unsnap_failed", "create_image", "create_snap", "insert"}
      [] OTHER -> {}

ImageOnly == {"add_image", "snap_update", "enable_update", "delete_image", "shelve_image_vm",
              "delete_image_vm", "delshelve_image_vm", "create_image_vm", "unshelve_image_vm"}

MachineOnly == {"create_sys_snap", "delete_sys_snap", "rollback", "sys_disk_expand"}

Formed(r) ==
    /\ r \in RequestState
    /\ \/ r = NoRequest
       \/ /\ r.pc \in Stages(r.op)
          /\ IF r.op \in MachineOnly THEN r.image = NoOne ELSE r.image \in Images
          /\ IF r.op \in ImageOnly THEN r.machine = NoOne ELSE r.machine \in Machines
          /\ r.op \in {"create_image_vm", "unshelve_image_vm"} => r.host \in Hosts

TInv ==
    /\ setting \in Settings
    /\ HostsInv
    /\ imagerow \in [Images -> ImageRow]
    /\ machine \in [Machines -> MachineRow]
    /\ machdom \in [Machines -> Power]
    /\ snaprow \in [1 .. MaxTick -> Machines \cup {NoOne}]
    /\ PoolSound(pool, tick)
    /\ tick \in 0 .. MaxTick
    /\ imgdom \in [1 .. MaxUuid -> Power]
    /\ last_uuid \in 0 .. MaxUuid
    /\ json_status_code \in {200, 400}
    /\ request \in [Threads -> RequestState]
    /\ \A w \in Threads : Formed(request[w])

\* A request goes on or ends, or one arrives that the setting lets meet those
\* that are about the same image or machine; a change of the system of a
\* machine looks at those about the machine alone.
Kept(r, q) == q = NoRequest \/ (q.op = r.op /\ q.image = r.image /\ q.machine = r.machine)

Meet(op, other) == {<<op, other>>, <<other, op>>} \cap setting.overlaps # {}

Admitted(w, q) ==
    /\ request[w] = NoRequest
    /\ q.op \in setting.ops
    /\ \A x \in Engaged(IF q.op = "change_sys_disk" THEN NoOne ELSE q.image, q.machine) :
          Meet(request[x].op, q.op)

Moved(w) ==
    /\ request' \in [Threads -> RequestState]
    /\ \A x \in Threads \ {w} : request'[x] = request[x]
    /\ Formed(request'[w])
    /\ Kept(request[w], request'[w]) \/ Admitted(w, request'[w])

\* What the constants give.
LEMMA Names ==
    /\ Images \subseteq Keys /\ Machines \subseteq Keys
    /\ \A n \in Images \cup Machines : n # NoOne /\ Aside(n) \in Keys /\ Aside(n) \notin Images \cup Machines
    /\ \A i \in Images : i \notin Machines
    /\ NoOne \notin Hosts
  BY AsideNames, ImageAssumption

\* A thread without a request is as it should be.
LEMMA NoRequestFormed == Formed(NoRequest)
<1>1. NoImageRow \in ImageRow
  BY RbdAssumption, ImageAssumption DEF NoImageRow, ImageRow
<1>2. NoRequest \in RequestState
  BY <1>1, RbdAssumption DEF NoRequest, RequestState, ImagePcs
<1>3. QED
  BY <1>2 DEF Formed

\* The steps of a request are steps at which there is one.
LEMMA StagesAreSteps ==
    ASSUME NEW op
    PROVE  Stages(op) \subseteq ImagePcs \ {"idle"}
<1>1. CASE op \in {"add_image", "snap_update", "enable_update", "delete_image", "shelve_image_vm",
                   "delete_image_vm", "delshelve_image_vm"}
  BY <1>1 DEF Stages, ImagePcs
<1>2. CASE op \in {"create_image_vm", "unshelve_image_vm"}
  BY <1>2 DEF Stages, ImagePcs
<1>3. CASE op \in {"create_machine", "change_sys_disk"}
  BY <1>3 DEF Stages, ImagePcs
<1>4. CASE op \in {"create_sys_snap", "delete_sys_snap", "rollback", "sys_disk_expand", "release"}
  BY <1>4 DEF Stages, ImagePcs
<1>5. CASE op \notin {"add_image", "snap_update", "enable_update", "delete_image", "shelve_image_vm",
                      "delete_image_vm", "delshelve_image_vm", "create_image_vm", "unshelve_image_vm",
                      "create_machine", "change_sys_disk",
                      "create_sys_snap", "delete_sys_snap", "rollback", "sys_disk_expand", "release"}
  BY <1>5 DEF Stages
<1>6. QED
  BY <1>1, <1>2, <1>3, <1>4, <1>5

\* A request that is not idle is of a kind, and at a step of that kind.
LEMMA AtWork ==
    ASSUME NEW r, Formed(r), r.pc # "idle"
    PROVE  /\ r # NoRequest /\ r.op \in ImageOps /\ r.pc \in Stages(r.op)
           /\ IF r.op \in MachineOnly THEN r.image = NoOne ELSE r.image \in Images
           /\ IF r.op \in ImageOnly THEN r.machine = NoOne ELSE r.machine \in Machines
<1>1. r # NoRequest
  BY DEF NoRequest
<1>2. r.pc \in Stages(r.op) /\ r.op \in ImageOps \cup {"none"}
  BY <1>1 DEF Formed, RequestState
<1>3. Stages("none") = {}
  BY DEF Stages
<1>4. QED
  BY <1>1, <1>2, <1>3 DEF Formed

\* A thread at "idle" has no request.
LEMMA IdleRequest ==
    ASSUME NEW r, Formed(r), r.pc = "idle"
    PROVE  r = NoRequest
  BY StagesAreSteps DEF Formed

\* The kinds of request that are at a step.
LEMMA OpsAt ==
    ASSUME NEW r, Formed(r)
    PROVE  /\ r.pc \in {"create_image", "create_snap", "insert"} => r.op \in {"add_image", "release"}
           /\ r.pc \in {"snap_remove", "snap_create"} => r.op = "snap_update"
           /\ r.pc = "save_all" => r.op \in {"snap_update", "enable_update"}
           /\ r.pc \in {"rename_base", "image_rowdel"} => r.op = "delete_image"
           /\ r.pc \in {"undefine", "vm_created_sub", "free"}
              => r.op \in {"delete_image", "shelve_image_vm", "delete_image_vm"}
           /\ r.pc = "clear" => r.op \in {"shelve_image_vm", "delete_image_vm", "delshelve_image_vm"}
           /\ r.pc \in {"claim", "get_image", "save_vm", "define_vm", "reset_vm", "unclaim", "vm_created_add"}
              => r.op \in {"create_image_vm", "unshelve_image_vm"}
           /\ r.pc \in {"clone_disk", "resize_new", "save_machine", "define_machine", "remove_disk"}
              => r.op = "create_machine"
           /\ r.pc \in {"rename_disk", "clone_new", "define_new", "save_new", "remove_new", "rename_back",
                        "remount"}
              => r.op = "change_sys_disk"
           /\ r.pc \in {"size_read", "size_save"}
              => r.op \in {"create_machine", "change_sys_disk", "rollback", "sys_disk_expand"}
           /\ r.pc \in {"sys_snap", "sys_snap_save"} => r.op = "create_sys_snap"
           /\ r.pc \in {"remove_sys_snap", "snap_rowdel"} => r.op = "delete_sys_snap"
           /\ r.pc = "rollback" => r.op = "rollback"
           /\ r.pc = "resize" => r.op = "sys_disk_expand"
           /\ r.pc \in {"rel_exists", "rel_snap", "rel_clone", "rel_flatten", "rel_unsnap", "rel_remove",
                        "rel_unsnap_failed"} => r.op = "release"
<1>1. CASE r.pc = "idle"
  BY <1>1
<1>2. CASE r.pc # "idle"
  <2>1. r.op \in ImageOps /\ r.pc \in Stages(r.op)
    BY <1>2, AtWork
  <2>2. CASE r.op \in {"add_image", "snap_update", "enable_update"}
    BY <2>1, <2>2 DEF Stages
  <2>3. CASE r.op \in {"delete_image", "shelve_image_vm", "delete_image_vm", "delshelve_image_vm"}
    BY <2>1, <2>3 DEF Stages
  <2>4. CASE r.op \in {"create_image_vm", "unshelve_image_vm"}
    BY <2>1, <2>4 DEF Stages
  <2>5. CASE r.op \in {"create_machine", "change_sys_disk"}
    BY <2>1, <2>5 DEF Stages
  <2>6. CASE r.op \in {"create_sys_snap", "delete_sys_snap", "rollback", "sys_disk_expand"}
    BY <2>1, <2>6 DEF Stages
  <2>7. CASE r.op = "release"
    BY <2>1, <2>7 DEF Stages
  <2>8. r.op \in {"power", "image_vm_power"} => Stages(r.op) = {}
    BY DEF Stages
  <2>9. QED
    BY <2>1, <2>2, <2>3, <2>4, <2>5, <2>6, <2>7, <2>8 DEF ImageOps
<1>3. QED
  BY <1>1, <1>2

\* Where `To` leads.
LEMMA ToMoves ==
    ASSUME TInv, NEW w \in Threads, NEW pc, To(w, pc),
           pc = "idle" \/ (request[w].pc # "idle" /\ pc \in Stages(request[w].op))
    PROVE  /\ Moved(w)
           /\ request'[w] = IF pc = "idle" THEN NoRequest ELSE [request[w] EXCEPT !.pc = pc]
<1> DEFINE q == IF pc = "idle" THEN NoRequest ELSE [request[w] EXCEPT !.pc = pc]
<1>1. request[w] \in RequestState /\ Formed(request[w]) /\ request \in [Threads -> RequestState]
  BY DEF TInv
<1>2. request' = [request EXCEPT ![w] = q]
  BY DEF To
<1>3. Formed(q) /\ Kept(request[w], q)
  <2>1. CASE pc = "idle"
    BY <2>1, NoRequestFormed DEF Kept
  <2>2. CASE pc # "idle"
    <3>1. q = [request[w] EXCEPT !.pc = pc]
      BY <2>2
    <3>2. request[w] # NoRequest /\ pc \in ImagePcs
      BY <2>2, StagesAreSteps DEF NoRequest
    <3> HIDE DEF q
    <3>3. /\ q \in RequestState /\ q.pc = pc /\ q.op = request[w].op
          /\ q.image = request[w].image /\ q.machine = request[w].machine /\ q.host = request[w].host
      BY <1>1, <3>1, <3>2 DEF RequestState
    <3>4. QED
      BY <1>1, <2>2, <3>2, <3>3 DEF Formed, Kept
  <2>3. QED
    BY <2>1, <2>2
<1> HIDE DEF q
<1>4. q \in RequestState
  BY <1>3 DEF Formed
<1>5. request'[w] = q /\ request' \in [Threads -> RequestState]
      /\ \A x \in Threads \ {w} : request'[x] = request[x]
  BY <1>1, <1>2, <1>4
<1>6. Moved(w)
  BY <1>3, <1>5 DEF Moved
<1>7. QED
  BY <1>5, <1>6 DEF q

\* Where another assignment to the request leads.
LEMMA SetMoves ==
    ASSUME TInv, NEW w \in Threads, NEW q, Formed(q), request' = [request EXCEPT ![w] = q],
           Kept(request[w], q) \/ Admitted(w, q)
    PROVE  Moved(w) /\ request'[w] = q
<1>1. request \in [Threads -> RequestState] /\ q \in RequestState
  BY DEF TInv, Formed
<1>2. QED
  BY <1>1 DEF Moved

\* A request that arrives is one that the setting lets meet the others.
LEMMA ArrivesAdmitted ==
    ASSUME TInv, NEW w \in Threads, NEW op, NEW i, NEW v, Arrives(w, op, i, v),
           NEW q, q.op = op, q.machine = v,
           i = IF op = "change_sys_disk" THEN NoOne ELSE q.image
    PROVE  Admitted(w, q) /\ request[w] = NoRequest
<1>1. request[w] = NoRequest
  BY IdleRequest DEF TInv, Arrives, InStep
<1>2. QED
  BY <1>1 DEF Admitted, Arrives, Meet

\* A request that loads an image arrives.
LEMMA ReceiveMoves ==
    ASSUME TInv, NEW w \in Threads, NEW op \in ImageOps, NEW i, NEW v, NEW pc,
           Arrives(w, op, i, v), Receive(w, op, i, v, pc), pc \in Stages(op),
           op \notin {"create_image_vm", "unshelve_image_vm", "change_sys_disk"},
           IF op \in MachineOnly THEN i = NoOne ELSE i \in Images,
           IF op \in ImageOnly THEN v = NoOne ELSE v \in Machines
    PROVE  /\ Moved(w)
           /\ request[w] = NoRequest
           /\ request'[w] = [NoRequest EXCEPT !.op = op, !.image = i, !.machine = v, !.pc = pc,
                                              !.row = IF i = NoOne THEN NoImageRow ELSE imagerow[i]]
<1> DEFINE row == IF i = NoOne THEN NoImageRow ELSE imagerow[i]
           q == [NoRequest EXCEPT !.op = op, !.image = i, !.machine = v, !.pc = pc, !.row = row]
<1>1. row \in ImageRow
  BY RbdAssumption, ImageAssumption DEF NoImageRow, ImageRow, TInv
<1>2. request' = [request EXCEPT ![w] = q]
  BY DEF Receive
<1> HIDE DEF row
<1>3. /\ q \in RequestState
      /\ q.op = op /\ q.image = i /\ q.machine = v /\ q.pc = pc
  BY <1>1, NoRequestFormed, StagesAreSteps DEF Formed, RequestState
<1> HIDE DEF q
<1>4. Formed(q)
  BY <1>3 DEF Formed
<1>5. Admitted(w, q) /\ request[w] = NoRequest
  BY <1>3, ArrivesAdmitted
<1>6. Moved(w) /\ request'[w] = q
  BY <1>2, <1>4, <1>5, SetMoves
<1>7. QED
  BY <1>5, <1>6 DEF q, row

\* What has its type after a step.
LEMMA TypedAfter ==
    ASSUME TInv, NEW w \in Threads, UNCHANGED setting, Moved(w), HostsInv',
           imagerow' \in [Images -> ImageRow], machine' \in [Machines -> MachineRow],
           machdom' \in [Machines -> Power], snaprow' \in [1 .. MaxTick -> Machines \cup {NoOne}],
           PoolSound(pool', tick'), tick' \in 0 .. MaxTick, imgdom' \in [1 .. MaxUuid -> Power],
           last_uuid' \in 0 .. MaxUuid, json_status_code' \in {200, 400}
    PROVE  TInv'
<1>1. setting' \in Settings
  BY DEF TInv
<1>2. \A x \in Threads : Formed(request'[x])
  BY DEF TInv, Moved
<1>3. QED
  BY <1>1, <1>2 DEF TInv, Moved

\* The types after a step that changes its request alone.
LEMMA RequestTyped ==
    ASSUME TInv, NEW w \in Threads, UNCHANGED setting, Moved(w), OnlyRequest
    PROVE  TInv'
<1>1. HostsInv'
  BY HostsKept DEF TInv, OnlyRequest, OnlyCeph
<1>2. UNCHANGED <<imagerow, machine, snaprow, machdom, imgdom, last_uuid, pool, tick, json_status_code>>
  BY DEF OnlyRequest, OnlyCeph, ImageRowsSame, MachineRowsSame, DomainsSame, CephSame, AnswersSame
<1>3. QED
  BY <1>1, <1>2, TypedAfter DEF TInv

\* The types after a step that changes the pool besides.
LEMMA CephTyped ==
    ASSUME TInv, NEW w \in Threads, UNCHANGED setting, Moved(w), OnlyCeph,
           PoolSound(pool', tick'), tick' \in 0 .. MaxTick
    PROVE  TInv'
<1>1. HostsInv'
  BY HostsKept DEF TInv, OnlyCeph
<1>2. UNCHANGED <<imagerow, machine, snaprow, machdom, imgdom, last_uuid, json_status_code>>
  BY DEF OnlyCeph, ImageRowsSame, MachineRowsSame, DomainsSame, AnswersSame
<1>3. QED
  BY <1>1, <1>2, TypedAfter DEF TInv

\* The types after a step that changes image rows besides.
LEMMA ImageRowTyped ==
    ASSUME TInv, NEW w \in Threads, UNCHANGED setting, Moved(w), OnlyImageRow,
           imagerow' \in [Images -> ImageRow]
    PROVE  TInv'
<1>1. HostsInv'
  BY HostsKept DEF TInv, OnlyImageRow
<1>2. UNCHANGED <<machine, snaprow, machdom, imgdom, last_uuid, pool, tick, json_status_code>>
  BY DEF OnlyImageRow, MachineRowsSame, DomainsSame, CephSame, AnswersSame
<1>3. QED
  BY <1>1, <1>2, TypedAfter DEF TInv

\* The types after a step that changes rows of machines or snapshots besides.
LEMMA MachineRowTyped ==
    ASSUME TInv, NEW w \in Threads, UNCHANGED setting, Moved(w), OnlyMachineRow,
           machine' \in [Machines -> MachineRow], snaprow' \in [1 .. MaxTick -> Machines \cup {NoOne}]
    PROVE  TInv'
<1>1. HostsInv'
  BY HostsKept DEF TInv, OnlyMachineRow
<1>2. UNCHANGED <<imagerow, machdom, imgdom, last_uuid, pool, tick, json_status_code>>
  BY DEF OnlyMachineRow, ImageRowsSame, DomainsSame, CephSame, AnswersSame
<1>3. QED
  BY <1>1, <1>2, TypedAfter DEF TInv

\* The types after a step that changes the columns of a host besides.
LEMMA HostTyped ==
    ASSUME TInv, NEW w \in Threads, UNCHANGED setting, Moved(w), HostsInv',
           ImageRowsSame, MachineRowsSame, DomainsSame, CephSame, AnswersSame
    PROVE  TInv'
<1>1. UNCHANGED <<imagerow, machine, snaprow, machdom, imgdom, last_uuid, pool, tick, json_status_code>>
  BY DEF ImageRowsSame, MachineRowsSame, DomainsSame, CephSame, AnswersSame
<1>2. QED
  BY <1>1, TypedAfter DEF TInv

\* What a request is about, at each step.
LEMMA AboutAt ==
    ASSUME NEW r, Formed(r), r.pc # "idle"
    PROVE  /\ r.op \notin MachineOnly => r.image \in Images /\ r.image \in Keys
           /\ r.op \notin ImageOnly => r.machine \in Machines /\ r.machine \in Keys
           /\ r.op \in MachineOnly => r.image = NoOne
           /\ r.op \in ImageOnly => r.machine = NoOne
           /\ r.op \in {"create_image_vm", "unshelve_image_vm"} => r.host \in Hosts
  BY AtWork, Names DEF Formed

-----------------------------------------------------------------------------
(* Each step keeps the types and moves the one request.                    *)

\* Image rows.
LEMMA AddImageTyped ==
    ASSUME TInv, UNCHANGED setting, NEW w \in Threads, NEW i \in Images, AddImage(w, i)
    PROVE  TInv' /\ Moved(w)
<1>1. Arrives(w, "add_image", i, NoOne) /\ Receive(w, "add_image", i, NoOne, "create_image") /\ OnlyRequest
  BY DEF AddImage
<1>2. "create_image" \in Stages("add_image") /\ "add_image" \in ImageOps
  BY DEF Stages, ImageOps
<1>3. Moved(w)
  BY <1>1, <1>2, ReceiveMoves DEF ImageOnly, MachineOnly
<1>4. QED
  BY <1>1, <1>3, RequestTyped

\* An update of the snapshot that arrives.
LEMMA SnapUpdateTyped ==
    ASSUME TInv, UNCHANGED setting, NEW w \in Threads, NEW i \in Images, SnapUpdate(w, i)
    PROVE  TInv' /\ Moved(w)
<1>1. /\ Arrives(w, "snap_update", i, NoOne) /\ Receive(w, "snap_update", i, NoOne, "snap_remove")
      /\ OnlyRequest
  BY DEF SnapUpdate
<1>2. "snap_remove" \in Stages("snap_update") /\ "snap_update" \in ImageOps
  BY DEF Stages, ImageOps
<1>3. Moved(w)
  BY <1>1, <1>2, ReceiveMoves DEF ImageOnly, MachineOnly
<1>4. QED
  BY <1>1, <1>3, RequestTyped

\* A deletion that arrives.
LEMMA DeleteImageTyped ==
    ASSUME TInv, UNCHANGED setting, NEW w \in Threads, NEW i \in Images, DeleteImage(w, i)
    PROVE  TInv' /\ Moved(w)
<1>1. /\ Arrives(w, "delete_image", i, NoOne) /\ Receive(w, "delete_image", i, NoOne, "rename_base")
      /\ OnlyRequest
  BY DEF DeleteImage
<1>2. "rename_base" \in Stages("delete_image") /\ "delete_image" \in ImageOps
  BY DEF Stages, ImageOps
<1>3. Moved(w)
  BY <1>1, <1>2, ReceiveMoves DEF ImageOnly, MachineOnly
<1>4. QED
  BY <1>1, <1>3, RequestTyped

\* A shelve, delete or delshelve that arrives.
LEMMA EndImageVmTyped ==
    ASSUME TInv, UNCHANGED setting, NEW w \in Threads, NEW i \in Images, NEW op, EndImageVm(w, op, i)
    PROVE  TInv' /\ Moved(w)
<1> DEFINE pc == IF op = "delshelve_image_vm" THEN "clear" ELSE "undefine"
<1>1. /\ op \in {"shelve_image_vm", "delete_image_vm", "delshelve_image_vm"}
      /\ Arrives(w, op, i, NoOne) /\ Receive(w, op, i, NoOne, pc) /\ OnlyRequest
  BY DEF EndImageVm
<1>2. pc \in Stages(op) /\ op \in ImageOps
  BY <1>1 DEF Stages, ImageOps
<1> HIDE DEF pc
<1>3. Moved(w)
  BY <1>1, <1>2, ReceiveMoves DEF ImageOnly, MachineOnly
<1>4. QED
  BY <1>1, <1>3, RequestTyped

\* A switch that arrives, with the other value.
LEMMA EnableUpdateTyped ==
    ASSUME TInv, UNCHANGED setting, NEW w \in Threads, NEW i \in Images, EnableUpdate(w, i)
    PROVE  /\ TInv' /\ Moved(w)
           /\ request'[w] = [NoRequest EXCEPT !.op = "enable_update", !.image = i, !.pc = "save_all",
                                              !.row = [imagerow[i] EXCEPT !.enable = ~imagerow[i].enable]]
<1> DEFINE row == [imagerow[i] EXCEPT !.enable = ~imagerow[i].enable]
           q == [NoRequest EXCEPT !.op = "enable_update", !.image = i, !.pc = "save_all", !.row = row]
<1>1. Arrives(w, "enable_update", i, NoOne) /\ OnlyRequest
  BY DEF EnableUpdate
<1>2. request' = [request EXCEPT ![w] = q]
  BY DEF EnableUpdate
<1>3. row \in ImageRow
  <2> DEFINE enable == ~imagerow[i].enable
  <2>1. imagerow[i] \in ImageRow
    BY DEF TInv
  <2>2. enable \in BOOLEAN /\ row = [imagerow[i] EXCEPT !.enable = enable]
    OBVIOUS
  <2> HIDE DEF enable, row
  <2>3. QED
    BY <2>1, <2>2 DEF ImageRow
<1> HIDE DEF row
<1>4. /\ NoRequest \in RequestState /\ NoRequest.machine = NoOne
      /\ "enable_update" \in ImageOps /\ "save_all" \in ImagePcs
  BY NoRequestFormed DEF Formed, NoRequest, ImageOps, ImagePcs
<1>5. q \in RequestState /\ q.op = "enable_update" /\ q.image = i /\ q.machine = NoOne /\ q.pc = "save_all"
  BY <1>3, <1>4 DEF RequestState
<1> HIDE DEF q
<1>6. Formed(q)
  BY <1>5 DEF Formed, Stages, ImageOnly, MachineOnly
<1>7. Moved(w) /\ request'[w] = q
  BY <1>1, <1>2, <1>5, <1>6, ArrivesAdmitted, SetMoves
<1>8. QED
  BY <1>1, <1>7, RequestTyped DEF q, row

\* A create or unshelve of the vm of an image that arrives.
LEMMA StartImageVmTyped ==
    ASSUME TInv, UNCHANGED setting, NEW w \in Threads, NEW i \in Images, NEW op, NEW h \in Hosts,
           StartImageVm(w, op, i, h)
    PROVE  /\ TInv' /\ Moved(w)
           /\ request'[w] = [NoRequest EXCEPT !.op = op, !.image = i, !.host = h, !.pc = "claim"]
<1> DEFINE q == [NoRequest EXCEPT !.op = op, !.image = i, !.host = h, !.pc = "claim"]
<1>1. op \in {"create_image_vm", "unshelve_image_vm"} /\ Arrives(w, op, i, NoOne) /\ OnlyRequest
  BY DEF StartImageVm
<1>2. request' = [request EXCEPT ![w] = q]
  BY DEF StartImageVm
<1>3. /\ NoRequest \in RequestState /\ NoRequest.machine = NoOne
      /\ op \in ImageOps /\ "claim" \in ImagePcs
  BY <1>1, NoRequestFormed DEF Formed, NoRequest, ImageOps, ImagePcs
<1>4. /\ q \in RequestState /\ q.op = op /\ q.image = i /\ q.machine = NoOne /\ q.pc = "claim"
      /\ q.host = h
  BY <1>3 DEF RequestState
<1> HIDE DEF q
<1>5. Formed(q)
  BY <1>1, <1>4 DEF Formed, Stages, ImageOnly, MachineOnly
<1>6. Moved(w) /\ request'[w] = q
  BY <1>1, <1>2, <1>4, <1>5, ArrivesAdmitted, SetMoves
<1>7. QED
  BY <1>1, <1>6, RequestTyped DEF q

\* A start or stop of the vm of an image.
LEMMA ImageVmPowerTyped ==
    ASSUME TInv, UNCHANGED setting, NEW w \in Threads, NEW i \in Images, ImageVmPower(w, i)
    PROVE  TInv' /\ request' = request
<1>1. imgdom' \in [1 .. MaxUuid -> Power]
  BY DEF ImageVmPower, TInv, Power
<1>2. UNCHANGED <<machdom, last_uuid, request, host, imagerow, machine, snaprow, pool, tick, json_status_code>>
  BY DEF ImageVmPower, ImageRowsSame, MachineRowsSame, CephSame, AnswersSame
<1>3. HostsInv'
  BY <1>2, HostsKept DEF TInv
<1>4. QED
  BY <1>1, <1>2, <1>3 DEF TInv

\* The base image is made, or left as it is.
LEMMA CreateBaseImageTyped ==
    ASSUME TInv, UNCHANGED setting, NEW w \in Threads, CreateBaseImage(w)
    PROVE  /\ TInv' /\ Moved(w)
           /\ \/ /\ pool' = Made(pool, request[w].image, 1)
                 /\ request'[w] = [request[w] EXCEPT !.pc = "create_snap"]
              \/ pool' = pool /\ request'[w] = NoRequest
<1> DEFINE n == request[w].image
<1>1. /\ Formed(request[w]) /\ request[w].pc = "create_image"
      /\ Ceph(w, create_image(pool, n, 1), "create_snap", "idle")
      /\ UNCHANGED <<tick, imagerow, machine, snaprow, machdom, imgdom, last_uuid, host>>
      /\ json_status_code' \in {200, 400}
  BY DEF CreateBaseImage, InStep, TInv, Refused, AnswersSame, ImageRowsSame, MachineRowsSame, DomainsSame
<1>2. n \in Keys /\ "create_snap" \in Stages(request[w].op)
  BY <1>1, OpsAt, AboutAt DEF Stages, MachineOnly
<1> HIDE DEF n
<1>3. \/ pool' = Made(pool, n, 1) /\ To(w, "create_snap")
      \/ pool' = pool /\ To(w, "idle")
  BY <1>1, CreateImageStep
<1>4. /\ Moved(w)
      /\ \/ pool' = Made(pool, n, 1) /\ request'[w] = [request[w] EXCEPT !.pc = "create_snap"]
         \/ pool' = pool /\ request'[w] = NoRequest
  <2>1. CASE pool' = Made(pool, n, 1) /\ To(w, "create_snap")
    BY <1>1, <1>2, <2>1, ToMoves
  <2>2. CASE pool' = pool /\ To(w, "idle")
    BY <2>2, ToMoves
  <2>3. QED
    BY <1>3, <2>1, <2>2
<1>5. PoolSound(pool', tick')
  BY <1>1, <1>2, <1>3, RbdAssumption, MadePool DEF TInv
<1>6. HostsInv'
  BY <1>1, HostsKept DEF TInv
<1>7. TInv'
  BY <1>1, <1>4, <1>5, <1>6, TypedAfter DEF TInv
<1>8. QED
  BY <1>4, <1>7 DEF n

\* The snapshot is made and protected, or made alone, or nothing is done.
LEMMA CreateSnapTyped ==
    ASSUME TInv, UNCHANGED setting, NEW w \in Threads, CreateSnap(w)
    PROVE  /\ TInv' /\ Moved(w)
           /\ tick' = tick + 1 /\ tick' \in 1 .. MaxTick
           /\ UNCHANGED <<imagerow, machine, snaprow, machdom, imgdom, last_uuid, host>>
           /\ request[w].pc \in {"create_snap", "snap_create"}
           /\ request[w].image \in Images
           /\ \/ /\ pool' = Protected(pool, request[w].image, tick + 1)
                 /\ image_exists(pool, request[w].image)
                 /\ request'[w] = [request[w] EXCEPT !.row.snap = tick + 1,
                                      !.pc = IF request[w].pc = "create_snap" THEN "insert" ELSE "save_all"]
              \/ /\ pool' = pool /\ request'[w] = NoRequest
                 /\ Breaks("create_snap") \/ ~image_exists(pool, request[w].image)
              \/ /\ pool' = Snapped(pool, request[w].image, tick + 1) /\ request'[w] = NoRequest
                 /\ image_exists(pool, request[w].image) /\ Breaks("protect_snap")
<1> DEFINE n == request[w].image
           next == IF request[w].pc = "create_snap" THEN "insert" ELSE "save_all"
           good == [request[w] EXCEPT !.row.snap = tick + 1, !.pc = next]
<1>1. /\ Formed(request[w]) /\ request[w].pc \in {"create_snap", "snap_create"}
      /\ tick \in 0 .. MaxTick /\ tick < MaxTick /\ tick' = tick + 1
      /\ PoolSound(pool, tick)
      /\ UNCHANGED <<imagerow, machine, snaprow, machdom, imgdom, last_uuid, host>>
  BY DEF CreateSnap, TInv, ImageRowsSame, MachineRowsSame, DomainsSame
<1>2. PICK r \in create_snap(pool, n, tick + 1, TRUE) :
          /\ r.own = "" \/ Breaks(r.own)
          /\ pool' = r.pool
          /\ request' = [request EXCEPT ![w] =
                           IF r.ok THEN [@ EXCEPT !.row.snap = tick + 1, !.pc = next]
                           ELSE NoRequest]
          /\ IF r.ok THEN AnswersSame ELSE Refused(w)
  BY DEF CreateSnap
<1>0. json_status_code' \in {200, 400}
  <2>1. json_status_code' \in {json_status_code, 400}
    BY <1>2 DEF Refused, AnswersSame
  <2>2. QED
    BY <2>1 DEF TInv
<1>3. tick + 1 \in 1 .. MaxTick /\ tick \in Nat
  BY <1>1, RbdAssumption
<1>4. /\ n \in Keys /\ n \in Images /\ request[w].pc # "idle"
      /\ request[w].pc = "create_snap" => "insert" \in Stages(request[w].op)
      /\ request[w].pc = "snap_create" => "save_all" \in Stages(request[w].op)
  BY <1>1, OpsAt, AboutAt DEF Stages, MachineOnly
<1>5. Formed(good) /\ Kept(request[w], good)
  <2>1. request[w] \in RequestState /\ request[w].row \in ImageRow
    BY <1>1 DEF Formed, RequestState
  <2>2. good.pc \in Stages(request[w].op) /\ good.pc \in ImagePcs
    BY <1>1, <1>4, <2>1 DEF ImagePcs, RequestState
  <2>3. /\ good \in RequestState /\ good.op = request[w].op /\ good.image = request[w].image
        /\ good.machine = request[w].machine /\ good.host = request[w].host
    <3> DEFINE row == [request[w].row EXCEPT !.snap = tick + 1]
    <3>1. row \in ImageRow
      BY <1>3, <2>1 DEF ImageRow
    <3>2. good = [request[w] EXCEPT !.row = row, !.pc = next]
      OBVIOUS
    <3>3. next \in ImagePcs
      BY DEF ImagePcs
    <3> HIDE DEF row, next, good
    <3>4. QED
      BY <2>1, <3>1, <3>2, <3>3 DEF RequestState
  <2> HIDE DEF good
  <2>4. request[w] # NoRequest
    BY <1>4 DEF NoRequest
  <2>5. QED
    BY <1>1, <2>2, <2>3, <2>4 DEF Formed, Kept
<1> HIDE DEF n, good
<1>6. \/ r.ok /\ image_exists(pool, n) /\ r.pool = Protected(pool, n, tick + 1)
      \/ ~r.ok /\ r.pool = pool /\ (r.own = "create_snap" \/ ~image_exists(pool, n))
      \/ /\ ~r.ok /\ r.pool = Snapped(pool, n, tick + 1) /\ image_exists(pool, n)
         /\ r.own = "protect_snap"
  BY CreateSnapCases
<1>7. CASE r.ok /\ image_exists(pool, n) /\ r.pool = Protected(pool, n, tick + 1)
  <2>1. request' = [request EXCEPT ![w] = good]
    BY <1>2, <1>7 DEF good
  <2>2. Moved(w) /\ request'[w] = good
    BY <1>5, <2>1, SetMoves
  <2>7. PoolSound(Protected(pool, n, tick + 1), tick + 1)
    BY <1>1, <1>3, <1>4, <1>7, ProtectedPool
  <2>3. pool' = Protected(pool, n, tick + 1) /\ PoolSound(pool', tick')
    BY <1>1, <1>2, <1>7, <2>7
  <2>4. HostsInv'
    BY <1>1, HostsKept DEF TInv
  <2>5. TInv'
    BY <1>0, <1>1, <1>3, <2>2, <2>3, <2>4, TypedAfter DEF TInv
  <2>6. QED
    BY <1>1, <1>3, <1>4, <1>7, <2>2, <2>3, <2>5 DEF n, good
<1>8. CASE ~r.ok /\ r.pool = pool /\ (r.own = "create_snap" \/ ~image_exists(pool, n))
  <2>1. request' = [request EXCEPT ![w] = NoRequest]
    BY <1>2, <1>8
  <2>2. Moved(w) /\ request'[w] = NoRequest
    BY <2>1, NoRequestFormed, SetMoves DEF Kept
  <2>3. pool' = pool /\ PoolSound(pool', tick')
    BY <1>1, <1>2, <1>3, <1>8, LaterSound
  <2>4. HostsInv'
    BY <1>1, HostsKept DEF TInv
  <2>5. TInv'
    BY <1>0, <1>1, <1>3, <2>2, <2>3, <2>4, TypedAfter DEF TInv
  <2>6. Breaks("create_snap") \/ ~image_exists(pool, n)
    BY <1>2, <1>8
  <2>7. QED
    BY <1>1, <1>3, <1>4, <2>2, <2>3, <2>5, <2>6 DEF n
<1>9. CASE /\ ~r.ok /\ r.pool = Snapped(pool, n, tick + 1) /\ image_exists(pool, n)
           /\ r.own = "protect_snap"
  <2>1. request' = [request EXCEPT ![w] = NoRequest]
    BY <1>2, <1>9
  <2>2. Moved(w) /\ request'[w] = NoRequest
    BY <2>1, NoRequestFormed, SetMoves DEF Kept
  <2>3. pool' = Snapped(pool, n, tick + 1) /\ PoolSound(pool', tick')
    BY <1>1, <1>2, <1>3, <1>4, <1>9, SnappedPool
  <2>4. HostsInv'
    BY <1>1, HostsKept DEF TInv
  <2>5. TInv'
    BY <1>0, <1>1, <1>3, <2>2, <2>3, <2>4, TypedAfter DEF TInv
  <2>6. Breaks("protect_snap")
    BY <1>2, <1>9
  <2>7. QED
    BY <1>1, <1>3, <1>4, <1>9, <2>2, <2>3, <2>5, <2>6 DEF n
<1>10. QED
  BY <1>6, <1>7, <1>8, <1>9

\* The row is inserted where there is none.
LEMMA InsertImageTyped ==
    ASSUME TInv, UNCHANGED setting, NEW w \in Threads, InsertImage(w)
    PROVE  /\ TInv' /\ Moved(w) /\ request'[w] = NoRequest
           /\ request[w].pc = "insert" /\ request[w].image \in Images
           /\ UNCHANGED <<machine, snaprow, machdom, imgdom, last_uuid, host, pool, tick>>
           /\ IF imagerow[request[w].image].live THEN imagerow' = imagerow
              ELSE imagerow' = [imagerow EXCEPT ![request[w].image] =
                                   [request[w].row EXCEPT !.live = TRUE, !.enable = TRUE]]
<1> DEFINE row == [request[w].row EXCEPT !.live = TRUE, !.enable = TRUE]
<1>1. /\ Formed(request[w]) /\ request[w].pc = "insert" /\ To(w, "idle")
      /\ UNCHANGED <<machine, snaprow, machdom, imgdom, last_uuid, host, pool, tick>>
      /\ IF imagerow[request[w].image].live THEN imagerow' = imagerow /\ Refused(w)
         ELSE imagerow' = [imagerow EXCEPT ![request[w].image] = row] /\ AnswersSame
  BY DEF InsertImage, InStep, TInv, MachineRowsSame, DomainsSame, CephSame
<1>2. row \in ImageRow
  BY <1>1 DEF Formed, RequestState, ImageRow
<1>3. request[w].image \in Images
  BY <1>1, OpsAt, AboutAt DEF MachineOnly
<1> HIDE DEF row
<1>4. imagerow' \in [Images -> ImageRow]
  BY <1>1, <1>2 DEF TInv
<1>5. json_status_code' \in {200, 400}
  BY <1>1 DEF Refused, AnswersSame, TInv
<1>6. Moved(w) /\ request'[w] = NoRequest
  BY <1>1, ToMoves
<1>7. HostsInv'
  BY <1>1, HostsKept DEF TInv
<1>8. TInv'
  BY <1>1, <1>4, <1>5, <1>6, <1>7, TypedAfter DEF TInv
<1>9. QED
  BY <1>1, <1>3, <1>6, <1>8 DEF row

\* The snapshot in force is removed, or stays.
LEMMA RemoveOldSnapTyped ==
    ASSUME TInv, UNCHANGED setting, NEW w \in Threads, RemoveOldSnap(w)
    PROVE  /\ TInv' /\ Moved(w) /\ request'[w] = [request[w] EXCEPT !.pc = "snap_create"]
           /\ request[w].pc = "snap_remove" /\ request[w].image \in Images
           /\ UNCHANGED <<imagerow, machine, snaprow, machdom, imgdom, last_uuid, host, tick>>
           /\ \/ pool' = pool
              \/ /\ HasSnap(pool, request[w].image, request[w].row.snap)
                 /\ \/ pool' = Unsnapped(pool, request[w].image, request[w].row.snap)
                    \/ pool' = Unheld(pool, request[w].image, request[w].row.snap)
<1> DEFINE n == request[w].image
           s == request[w].row.snap
<1>1. /\ Formed(request[w]) /\ request[w].pc = "snap_remove" /\ PoolSound(pool, tick)
      /\ Ceph(w, remove_snap(pool, n, s), "snap_create", "snap_create")
      /\ OnlyCeph /\ UNCHANGED tick
      /\ UNCHANGED <<imagerow, machine, snaprow, machdom, imgdom, last_uuid, host>>
  BY DEF RemoveOldSnap, InStep, TInv, OnlyCeph, ImageRowsSame, MachineRowsSame, DomainsSame
<1>2. n \in Keys /\ n \in Images /\ "snap_create" \in Stages(request[w].op)
  BY <1>1, OpsAt, AboutAt DEF Stages, MachineOnly
<1> HIDE DEF n, s
<1>3. /\ To(w, "snap_create")
      /\ \/ pool' = pool
         \/ HasSnap(pool, n, s) /\ (pool' = Unsnapped(pool, n, s) \/ pool' = Unheld(pool, n, s))
  BY <1>1, RemoveSnapStep
<1>4. Moved(w) /\ request'[w] = [request[w] EXCEPT !.pc = "snap_create"]
  BY <1>1, <1>2, <1>3, ToMoves
<1>5. PoolSound(pool', tick')
  BY <1>1, <1>2, <1>3, UnsnappedPool, UnheldPool DEF HasSnap
<1>6. TInv'
  BY <1>1, <1>4, <1>5, CephTyped DEF TInv
<1>7. QED
  BY <1>1, <1>2, <1>3, <1>4, <1>6 DEF n, s

\* Every column is saved as the request holds it.
LEMMA SaveImageTyped ==
    ASSUME TInv, UNCHANGED setting, NEW w \in Threads, SaveImage(w)
    PROVE  /\ TInv' /\ Moved(w) /\ request'[w] = NoRequest
           /\ request[w].pc = "save_all" /\ request[w].image \in Images
           /\ imagerow' = [imagerow EXCEPT ![request[w].image] = request[w].row]
<1>1. /\ Formed(request[w]) /\ request[w].pc = "save_all" /\ To(w, "idle") /\ OnlyImageRow
      /\ imagerow' = [imagerow EXCEPT ![request[w].image] = request[w].row]
  BY DEF SaveImage, InStep, TInv
<1>2. request[w].row \in ImageRow /\ request[w].image \in Images
  BY <1>1, OpsAt, AboutAt DEF Formed, RequestState, MachineOnly
<1>3. imagerow' \in [Images -> ImageRow]
  BY <1>1, <1>2 DEF TInv
<1>4. Moved(w) /\ request'[w] = NoRequest
  BY <1>1, ToMoves
<1>5. QED
  BY <1>1, <1>2, <1>3, <1>4, ImageRowTyped

\* The base image is put aside where there is one.
LEMMA RenameBaseTyped ==
    ASSUME TInv, UNCHANGED setting, NEW w \in Threads, RenameBase(w)
    PROVE  /\ TInv' /\ Moved(w)
           /\ request[w].pc = "rename_base" /\ request[w].image \in Images
           /\ UNCHANGED <<imagerow, machine, snaprow, machdom, imgdom, last_uuid, host, tick>>
           /\ \/ /\ request'[w] = [request[w] EXCEPT !.pc = RemoveVm(request[w].row, "image_rowdel")]
                 /\ \/ ~image_exists(pool, request[w].image) /\ pool' = pool
                    \/ pool' = Renamed(pool, request[w].image, Aside(request[w].image))
              \/ /\ request'[w] = NoRequest /\ pool' = pool
<1> DEFINE n == request[w].image
           next == RemoveVm(request[w].row, "image_rowdel")
<1>1. /\ Formed(request[w]) /\ request[w].pc = "rename_base" /\ PoolSound(pool, tick)
      /\ OnlyCeph
      /\ UNCHANGED <<imagerow, machine, snaprow, machdom, imgdom, last_uuid, host>>
      /\ IF image_exists(pool, n)
         THEN Ceph(w, rename_image(pool, n, Aside(n)), next, "idle") /\ UNCHANGED tick
         ELSE To(w, next) /\ CephSame
  BY DEF RenameBase, InStep, TInv, OnlyCeph, ImageRowsSame, MachineRowsSame, DomainsSame
<1>2. /\ n \in Keys /\ n \in Images /\ Aside(n) \in Keys /\ n # Aside(n)
      /\ next \in Stages(request[w].op) /\ next # "idle"
  BY <1>1, OpsAt, AboutAt, Names DEF MachineOnly, Stages, RemoveVm
<1> HIDE DEF n, next
<1>3. /\ UNCHANGED tick
      /\ \/ ~image_exists(pool, n) /\ pool' = pool /\ To(w, next)
         \/ pool' = Renamed(pool, n, Aside(n)) /\ To(w, next)
         \/ pool' = pool /\ To(w, "idle")
  BY <1>1, RenameStep DEF CephSame
<1>4. /\ Moved(w)
      /\ \/ /\ request'[w] = [request[w] EXCEPT !.pc = next]
            /\ (~image_exists(pool, n) /\ pool' = pool) \/ pool' = Renamed(pool, n, Aside(n))
         \/ request'[w] = NoRequest /\ pool' = pool
  <2>1. CASE To(w, next)
    <3>1. Moved(w) /\ request'[w] = [request[w] EXCEPT !.pc = next]
      BY <1>1, <1>2, <2>1, ToMoves
    <3>2. CASE To(w, "idle")
      BY <1>3, <3>1, <3>2, ToMoves
    <3>3. QED
      BY <1>3, <3>1, <3>2
  <2>2. CASE pool' = pool /\ To(w, "idle")
    BY <2>2, ToMoves
  <2>3. QED
    BY <1>3, <2>1, <2>2
<1>5. PoolSound(pool', tick')
  BY <1>1, <1>2, <1>3, RenamedPool
<1>6. TInv'
  BY <1>1, <1>3, <1>4, <1>5, CephTyped DEF TInv
<1>7. QED
  BY <1>1, <1>2, <1>3, <1>4, <1>6 DEF n, next

\* The row is deleted, and machines name no image where they named it.
LEMMA DeleteImageRowTyped ==
    ASSUME TInv, UNCHANGED setting, NEW w \in Threads, DeleteImageRow(w)
    PROVE  /\ TInv' /\ Moved(w) /\ request'[w] = NoRequest
           /\ request[w].pc = "image_rowdel" /\ request[w].image \in Images
           /\ UNCHANGED <<snaprow, machdom, imgdom, last_uuid, host, pool, tick>>
           /\ imagerow' = [imagerow EXCEPT ![request[w].image] = NoImageRow]
<1> DEFINE n == request[w].image
<1>1. /\ Formed(request[w]) /\ request[w].pc = "image_rowdel" /\ To(w, "idle")
      /\ UNCHANGED <<snaprow, machdom, imgdom, last_uuid, host, pool, tick, json_status_code>>
      /\ imagerow' = [imagerow EXCEPT ![n] = NoImageRow]
      /\ machine' = [v \in Machines |-> IF machine[v].image = n
                                         THEN [machine[v] EXCEPT !.image = NoOne] ELSE machine[v]]
  BY DEF DeleteImageRow, InStep, TInv, DomainsSame, CephSame, AnswersSame
<1>2. n \in Images
  BY <1>1, OpsAt, AboutAt DEF MachineOnly
<1> HIDE DEF n
<1>3. imagerow' \in [Images -> ImageRow]
  <2>1. NoImageRow \in ImageRow
    BY RbdAssumption, ImageAssumption DEF NoImageRow, ImageRow
  <2>2. QED
    BY <1>1, <2>1 DEF TInv
<1>4. machine' \in [Machines -> MachineRow]
  <2>1. ASSUME NEW v \in Machines
        PROVE  (IF machine[v].image = n THEN [machine[v] EXCEPT !.image = NoOne] ELSE machine[v])
               \in MachineRow
    <3>1. machine[v] \in MachineRow
      BY DEF TInv
    <3>2. QED
      BY <3>1 DEF MachineRow
  <2>2. QED
    BY <1>1, <2>1
<1>5. Moved(w) /\ request'[w] = NoRequest
  BY <1>1, ToMoves
<1>6. HostsInv'
  BY <1>1, HostsKept DEF TInv
<1>7. TInv'
  BY <1>1, <1>3, <1>4, <1>5, <1>6, TypedAfter DEF TInv
<1>8. QED
  BY <1>1, <1>2, <1>5, <1>7 DEF n

\* The vm of an image.
LEMMA UndefineImageVmTyped ==
    ASSUME TInv, UNCHANGED setting, NEW w \in Threads, UndefineImageVm(w)
    PROVE  /\ TInv' /\ Moved(w)
           /\ request[w].pc = "undefine" /\ request[w].image \in Images
           /\ UNCHANGED <<imagerow, machine, snaprow, machdom, last_uuid, host, pool, tick>>
           /\ \/ /\ request'[w] = NoRequest
                 /\ request[w].row.vm_host = NoOne \/ Breaks("undefine")
                 /\ \E dom \in Power :
                       /\ dom # "none" \/ dom = imgdom[request[w].row.vm_uuid]
                       /\ imgdom' = [imgdom EXCEPT ![request[w].row.vm_uuid] = IF @ = "none" THEN "none" ELSE dom]
              \/ /\ request[w].row.vm_host # NoOne
                 /\ request'[w] = [request[w] EXCEPT !.pc = "vm_created_sub", !.host = request[w].row.vm_host]
                 /\ \E dom \in Power :
                       /\ dom = "none" \/ Breaks("host_down")
                       /\ imgdom' = [imgdom EXCEPT ![request[w].row.vm_uuid] = IF @ = "none" THEN "none" ELSE dom]
<1> DEFINE row == request[w].row
           next == IF row.vm_host = NoOne THEN {"idle"}
                   ELSE {"vm_created_sub"} \cup (IF Breaks("undefine") THEN {"idle"} ELSE {})
           doms(pc) == CASE row.vm_host = NoOne -> {imgdom[row.vm_uuid]}
                         [] pc = "idle" -> {imgdom[row.vm_uuid]} \cup {"off"}
                         [] OTHER -> {"none"} \cup (IF Breaks("host_down") THEN {imgdom[row.vm_uuid], "off"}
                                                  ELSE {})
<1>1. /\ Formed(request[w]) /\ request[w].pc = "undefine"
      /\ UNCHANGED <<imagerow, machine, snaprow, machdom, last_uuid, host, pool, tick, json_status_code>>
  BY DEF UndefineImageVm, InStep, TInv, ImageRowsSame, MachineRowsSame, CephSame, AnswersSame
<1>2. PICK pc \in next, dom \in Power :
          /\ dom \in doms(pc)
          /\ imgdom' = [imgdom EXCEPT ![row.vm_uuid] = IF @ = "none" THEN "none" ELSE dom]
          /\ request' = [request EXCEPT ![w] = IF pc = "idle" THEN NoRequest
                                              ELSE [@ EXCEPT !.pc = pc, !.host = row.vm_host]]
  BY DEF UndefineImageVm
<1>3. /\ row \in ImageRow /\ request[w] \in RequestState /\ request[w].image \in Images
      /\ "vm_created_sub" \in Stages(request[w].op)
      /\ request[w].op \notin {"create_image_vm", "unshelve_image_vm"}
      /\ request[w] # NoRequest
  BY <1>1, OpsAt, AboutAt, AtWork DEF Stages, Formed, RequestState, MachineOnly
<1>4. imgdom' \in [1 .. MaxUuid -> Power]
  BY <1>2 DEF TInv, Power
<1>5. HostsInv'
  BY <1>1, HostsKept DEF TInv
<1>6. CASE pc = "idle"
  <2>1. request' = [request EXCEPT ![w] = NoRequest]
    BY <1>2, <1>6
  <2>2. Moved(w) /\ request'[w] = NoRequest
    BY <2>1, NoRequestFormed, SetMoves DEF Kept
  <2>3. row.vm_host = NoOne \/ Breaks("undefine")
    BY <1>2, <1>6
  <2>4. dom # "none" \/ dom = imgdom[row.vm_uuid]
    BY <1>2, <1>6
  <2>5. TInv'
    BY <1>1, <1>4, <1>5, <2>2, TypedAfter DEF TInv
  <2>6. QED
    BY <1>1, <1>2, <1>3, <2>2, <2>3, <2>4, <2>5
<1>7. CASE pc # "idle"
  <2>1. pc = "vm_created_sub" /\ row.vm_host # NoOne
    BY <1>2, <1>7
  <2> DEFINE q == [request[w] EXCEPT !.pc = "vm_created_sub", !.host = row.vm_host]
  <2>2. request' = [request EXCEPT ![w] = q]
    BY <1>2, <2>1
  <2>3. row.vm_host \in Hosts \cup {NoOne} /\ "vm_created_sub" \in ImagePcs
    BY <1>3 DEF ImageRow, ImagePcs
  <2> HIDE DEF row
  <2>4. /\ q \in RequestState /\ q.pc = "vm_created_sub" /\ q.op = request[w].op
        /\ q.image = request[w].image /\ q.machine = request[w].machine
    BY <1>3, <2>3 DEF RequestState
  <2> HIDE DEF q
  <2>5. Formed(q) /\ Kept(request[w], q)
    BY <1>1, <1>3, <2>4 DEF Formed, Kept
  <2>6. Moved(w) /\ request'[w] = q
    BY <2>2, <2>5, SetMoves
  <2>7. dom = "none" \/ Breaks("host_down")
    BY <1>2, <2>1
  <2>8. TInv'
    BY <1>1, <1>4, <1>5, <2>6, TypedAfter DEF TInv
  <2>9. /\ request'[w] = [request[w] EXCEPT !.pc = "vm_created_sub", !.host = row.vm_host]
        /\ row.vm_host # NoOne
        /\ imgdom' = [imgdom EXCEPT ![row.vm_uuid] = IF @ = "none" THEN "none" ELSE dom]
    BY <1>2, <2>1, <2>6 DEF q
  <2>10. QED
    BY <1>1, <1>3, <2>6, <2>7, <2>8, <2>9 DEF row
<1>8. QED
  BY <1>6, <1>7

\* A row with another vm and place.
LEMMA PlacedRow ==
    ASSUME NEW row \in ImageRow, NEW u \in 0 .. MaxUuid, NEW h \in Hosts \cup {NoOne}
    PROVE  [row EXCEPT !.vm_uuid = u, !.vm_host = h] \in ImageRow
  BY DEF ImageRow

\* The host that an image row names.
LEMMA PlacedRows ==
    ASSUME NEW rows \in [Images -> ImageRow], NEW i \in Images, NEW u, NEW h
    PROVE  [rows EXCEPT ![i].vm_uuid = u, ![i].vm_host = h]
           = [rows EXCEPT ![i] = [rows[i] EXCEPT !.vm_uuid = u, !.vm_host = h]]
  OBVIOUS

\* The host has one vm less.
LEMMA RemovedImageVmTyped ==
    ASSUME TInv, UNCHANGED setting, NEW w \in Threads, RemovedImageVm(w)
    PROVE  /\ TInv' /\ Moved(w) /\ request'[w] = [request[w] EXCEPT !.pc = "free"]
           /\ request[w].pc = "vm_created_sub" /\ vm_created_num_sub_1(request[w].host)
           /\ UNCHANGED <<imagerow, machine, snaprow, machdom, imgdom, last_uuid, pool, tick>>
<1>1. /\ Formed(request[w]) /\ request[w].pc = "vm_created_sub" /\ To(w, "free")
      /\ vm_created_num_sub_1(request[w].host) /\ HostsInv
      /\ ImageRowsSame /\ MachineRowsSame /\ DomainsSame /\ CephSame /\ AnswersSame
  BY DEF RemovedImageVm, InStep, TInv
<1>2. "free" \in Stages(request[w].op)
  BY <1>1, OpsAt DEF Stages
<1>3. Moved(w) /\ request'[w] = [request[w] EXCEPT !.pc = "free"]
  BY <1>1, <1>2, ToMoves
<1>4. HostsInv'
  BY <1>1, CountKeepsTotals
<1>5. QED
  BY <1>1, <1>3, <1>4, HostTyped DEF ImageRowsSame, MachineRowsSame, DomainsSame, CephSame

\* The host gets back what the vm had.
LEMMA FreeImageVmTyped ==
    ASSUME TInv, UNCHANGED setting, NEW w \in Threads, FreeImageVm(w)
    PROVE  /\ TInv' /\ Moved(w)
           /\ request'[w] = [request[w] EXCEPT !.pc = AfterRemoval(request[w].op)]
           /\ request[w].pc = "free" /\ free(request[w].host, 1, 1)
           /\ UNCHANGED <<imagerow, machine, snaprow, machdom, imgdom, last_uuid, pool, tick>>
<1>1. /\ Formed(request[w]) /\ request[w].pc = "free" /\ To(w, AfterRemoval(request[w].op))
      /\ free(request[w].host, 1, 1) /\ HostsInv
      /\ ImageRowsSame /\ MachineRowsSame /\ DomainsSame /\ CephSame /\ AnswersSame
  BY DEF FreeImageVm, InStep, TInv
<1>2. AfterRemoval(request[w].op) \in Stages(request[w].op) /\ AfterRemoval(request[w].op) # "idle"
  BY <1>1, OpsAt DEF Stages, AfterRemoval
<1>3. Moved(w) /\ request'[w] = [request[w] EXCEPT !.pc = AfterRemoval(request[w].op)]
  BY <1>1, <1>2, ToMoves
<1>4. HostsInv'
  BY <1>1, FreeKeepsTotals
<1>5. QED
  BY <1>1, <1>3, <1>4, HostTyped DEF ImageRowsSame, MachineRowsSame, DomainsSame, CephSame

\* The columns are cleared where the row is there.
LEMMA ClearImageVmTyped ==
    ASSUME TInv, UNCHANGED setting, NEW w \in Threads, ClearImageVm(w)
    PROVE  /\ TInv' /\ Moved(w) /\ request'[w] = NoRequest
           /\ request[w].pc = "clear" /\ request[w].image \in Images
           /\ OnlyImageRow
           /\ \A j \in Images \ {request[w].image} : imagerow'[j] = imagerow[j]
           /\ LET i == request[w].image IN
              /\ ~imagerow[i].live => imagerow'[i] = imagerow[i]
              /\ imagerow[i].live => imagerow'[i] =
                    [imagerow[i] EXCEPT
                       !.vm_uuid = IF request[w].op = "delshelve_image_vm" THEN imagerow[i].vm_uuid ELSE 0,
                       !.vm_host = IF request[w].op = "shelve_image_vm" THEN imagerow[i].vm_host ELSE NoOne]
<1> DEFINE i == request[w].image
           row == imagerow[i]
           uuid == IF request[w].op = "delshelve_image_vm" THEN row.vm_uuid ELSE 0
           h == IF request[w].op = "shelve_image_vm" THEN row.vm_host ELSE NoOne
           new == IF ~row.live THEN row ELSE [row EXCEPT !.vm_uuid = uuid, !.vm_host = h]
<1>1. /\ Formed(request[w]) /\ request[w].pc = "clear" /\ To(w, "idle") /\ OnlyImageRow
      /\ imagerow' = [imagerow EXCEPT ![i] = new]
  BY DEF ClearImageVm, InStep, TInv
<1>2. i \in Images
  BY <1>1, OpsAt, AboutAt DEF MachineOnly
<1>3. row \in ImageRow
  BY <1>2 DEF TInv
<1>4. uuid \in 0 .. MaxUuid /\ h \in Hosts \cup {NoOne}
  BY <1>3, ImageAssumption DEF ImageRow
<1>5. new \in ImageRow
  <2> HIDE DEF uuid, h, row
  <2>1. QED
    BY <1>3, <1>4 DEF ImageRow
<1>6. Moved(w) /\ request'[w] = NoRequest
  BY <1>1, ToMoves
<1>7. /\ imagerow' \in [Images -> ImageRow] /\ imagerow'[i] = new
      /\ \A j \in Images \ {i} : imagerow'[j] = imagerow[j]
  <2> HIDE DEF new, i
  <2>1. QED
    BY <1>1, <1>2, <1>5 DEF TInv
<1>8. TInv'
  BY <1>1, <1>6, <1>7, ImageRowTyped
<1>9. QED
  BY <1>1, <1>2, <1>6, <1>7, <1>8

\* The host has one vm more to carry, or the request ends.
LEMMA ClaimForImageTyped ==
    ASSUME TInv, UNCHANGED setting, NEW w \in Threads, ClaimForImage(w)
    PROVE  /\ TInv' /\ Moved(w)
           /\ request[w].pc = "claim"
           /\ UNCHANGED <<imagerow, machine, snaprow, machdom, imgdom, last_uuid, pool, tick>>
           /\ \/ /\ deduct_delta(request[w].host, 1, 1)
                 /\ request'[w] = [request[w] EXCEPT !.pc = "get_image"]
              \/ /\ deduct_delta(request[w].host, 1, 1) /\ Breaks("no_address")
                 /\ request'[w] = NoRequest
              \/ host' = host /\ request'[w] = NoRequest
<1> DEFINE h == request[w].host
<1>1. /\ Formed(request[w]) /\ request[w].pc = "claim" /\ HostsInv
      /\ \/ /\ can_claim(h, 1, 1) /\ deduct_delta(h, 1, 1)
            /\ To(w, "get_image") \/ (Breaks("no_address") /\ To(w, "idle"))
         \/ host' = host /\ To(w, "idle")
      /\ ImageRowsSame /\ MachineRowsSame /\ DomainsSame /\ CephSame /\ AnswersSame
  BY DEF ClaimForImage, InStep, TInv
<1>2. "get_image" \in Stages(request[w].op)
  BY <1>1, OpsAt DEF Stages
<1>3. /\ To(w, "get_image") => Moved(w) /\ request'[w] = [request[w] EXCEPT !.pc = "get_image"]
      /\ To(w, "idle") => Moved(w) /\ request'[w] = NoRequest
  BY <1>1, <1>2, ToMoves
<1>4. HostsInv'
  <2>1. CASE can_claim(h, 1, 1) /\ deduct_delta(h, 1, 1)
    BY <1>1, <2>1, DeductKeepsTotals DEF can_claim
  <2>2. CASE host' = host
    BY <1>1, <2>2, HostsKept
  <2>3. QED
    BY <1>1, <2>1, <2>2
<1>5. Moved(w)
  BY <1>1, <1>3
<1>6. TInv'
  BY <1>1, <1>4, <1>5, HostTyped
<1>7. QED
  BY <1>1, <1>3, <1>5, <1>6 DEF ImageRowsSame, MachineRowsSame, DomainsSame, CephSame

\* The row is loaded.
LEMMA GetImageTyped ==
    ASSUME TInv, UNCHANGED setting, NEW w \in Threads, GetImage(w)
    PROVE  /\ TInv' /\ Moved(w) /\ OnlyRequest
           /\ request[w].pc = "get_image" /\ request[w].image \in Images
           /\ request'[w] = [request[w] EXCEPT !.row = imagerow[request[w].image],
                               !.pc = IF imagerow[request[w].image].live THEN "save_vm" ELSE "unclaim"]
<1> DEFINE row == imagerow[request[w].image]
           pc == IF row.live THEN "save_vm" ELSE "unclaim"
           q == [request[w] EXCEPT !.row = row, !.pc = pc]
<1>1. /\ Formed(request[w]) /\ request[w].pc = "get_image" /\ OnlyRequest
      /\ request' = [request EXCEPT ![w].row = row, ![w].pc = pc]
  BY DEF GetImage, InStep, TInv
<1>2. /\ request[w].image \in Images /\ request[w] \in RequestState /\ pc \in ImagePcs
      /\ pc \in Stages(request[w].op) /\ request[w] # NoRequest
      /\ request \in [Threads -> RequestState]
  BY <1>1, OpsAt, AboutAt, AtWork DEF Formed, Stages, MachineOnly, ImagePcs, TInv
<1>3. row \in ImageRow
  BY <1>2 DEF TInv
<1> HIDE DEF row, pc
<1>4. /\ q \in RequestState /\ q.pc = pc /\ q.op = request[w].op
      /\ q.image = request[w].image /\ q.machine = request[w].machine /\ q.host = request[w].host
  BY <1>2, <1>3 DEF RequestState
<1>5. request' = [request EXCEPT ![w] = q]
  BY <1>1, <1>2
<1> HIDE DEF q
<1>6. Formed(q) /\ Kept(request[w], q)
  BY <1>1, <1>2, <1>4 DEF Formed, Kept
<1>7. Moved(w) /\ request'[w] = q
  BY <1>5, <1>6, SetMoves
<1>8. TInv'
  BY <1>1, <1>7, RequestTyped
<1>9. QED
  BY <1>1, <1>2, <1>7, <1>8 DEF q, pc, row

\* The row names a new vm.
LEMMA SaveImageVmTyped ==
    ASSUME TInv, UNCHANGED setting, NEW w \in Threads, SaveImageVm(w)
    PROVE  /\ TInv' /\ Moved(w)
           /\ request[w].pc = "save_vm" /\ request[w].image \in Images /\ request[w].host \in Hosts
           /\ UNCHANGED <<machine, snaprow, machdom, imgdom, host, pool, tick>>
           /\ \/ /\ imagerow[request[w].image].live
                 /\ last_uuid' = last_uuid + 1 /\ last_uuid' \in 1 .. MaxUuid
                 /\ imagerow' = [imagerow EXCEPT ![request[w].image].vm_uuid = last_uuid + 1,
                                                 ![request[w].image].vm_host = request[w].host]
                 /\ request'[w] = [request[w] EXCEPT !.row.vm_uuid = last_uuid + 1, !.pc = "define_vm"]
              \/ /\ ~imagerow[request[w].image].live
                 /\ UNCHANGED <<imagerow, last_uuid>>
                 /\ request'[w] = [request[w] EXCEPT !.pc = "unclaim"]
<1> DEFINE i == request[w].image
           u == last_uuid + 1
           q == [request[w] EXCEPT !.row.vm_uuid = u, !.pc = "define_vm"]
<1>1. /\ Formed(request[w]) /\ request[w].pc = "save_vm" /\ last_uuid < MaxUuid
      /\ UNCHANGED <<machine, snaprow, machdom, imgdom, host, pool, tick, json_status_code>>
      /\ \/ /\ imagerow[i].live
            /\ imagerow' = [imagerow EXCEPT ![i].vm_uuid = u, ![i].vm_host = request[w].host]
            /\ request' = [request EXCEPT ![w].row.vm_uuid = u, ![w].pc = "define_vm"]
            /\ last_uuid' = u
         \/ ~imagerow[i].live /\ UNCHANGED <<imagerow, last_uuid>> /\ To(w, "unclaim")
  BY DEF SaveImageVm, InStep, TInv, MachineRowsSame, CephSame, AnswersSame
<1>2. /\ i \in Images /\ request[w] \in RequestState /\ request[w].row \in ImageRow
      /\ request[w].host \in Hosts
      /\ "define_vm" \in Stages(request[w].op) /\ "unclaim" \in Stages(request[w].op)
      /\ request[w] # NoRequest
      /\ request \in [Threads -> RequestState] /\ imagerow[i] \in ImageRow
  BY <1>1, OpsAt, AboutAt, AtWork DEF Formed, RequestState, Stages, MachineOnly, TInv
<1>3. u \in 1 .. MaxUuid
  BY <1>1, ImageAssumption DEF TInv
<1>4. HostsInv'
  BY <1>1, HostsKept DEF TInv
<1>5. CASE imagerow[i].live /\ last_uuid' = u
  <2>1. imagerow' \in [Images -> ImageRow]
    <3> DEFINE row == [imagerow[i] EXCEPT !.vm_uuid = u, !.vm_host = request[w].host]
    <3>0. request[w].host \in Hosts \cup {NoOne} /\ u \in 0 .. MaxUuid /\ imagerow \in [Images -> ImageRow]
      BY <1>2, <1>3 DEF TInv
    <3>4. imagerow' = [imagerow EXCEPT ![i].vm_uuid = u, ![i].vm_host = request[w].host]
      BY <1>1, <1>5
    <3> HIDE DEF u, i
    <3>1. row \in ImageRow
      BY <1>2, <3>0, PlacedRow
    <3>2. imagerow' = [imagerow EXCEPT ![i] = row]
      BY <1>2, <3>0, <3>4, PlacedRows
    <3> HIDE DEF row
    <3>3. QED
      BY <3>1, <3>2 DEF TInv
  <2>2. q \in RequestState
    <3> DEFINE row == [request[w].row EXCEPT !.vm_uuid = u]
    <3>1. row \in ImageRow
      BY <1>2, <1>3 DEF ImageRow
    <3>2. q = [request[w] EXCEPT !.row = row, !.pc = "define_vm"] /\ "define_vm" \in ImagePcs
      BY DEF ImagePcs
    <3> HIDE DEF row, q
    <3>3. QED
      BY <1>2, <3>1, <3>2 DEF RequestState
  <2>3. /\ q.pc = "define_vm" /\ q.op = request[w].op
        /\ q.image = request[w].image /\ q.machine = request[w].machine /\ q.host = request[w].host
    BY <1>2 DEF RequestState
  <2>4. request' = [request EXCEPT ![w] = q]
    BY <1>1, <1>2, <1>5
  <2> HIDE DEF q
  <2>5. Formed(q) /\ Kept(request[w], q)
    BY <1>1, <1>2, <2>2, <2>3 DEF Formed, Kept
  <2>6. Moved(w) /\ request'[w] = q
    BY <2>4, <2>5, SetMoves
  <2>7. last_uuid' \in 0 .. MaxUuid
    BY <1>3, <1>5
  <2>8. TInv'
    BY <1>1, <1>4, <2>1, <2>6, <2>7, TypedAfter DEF TInv
  <2>9. QED
    BY <1>1, <1>2, <1>3, <1>5, <2>6, <2>8 DEF q
<1>6. CASE ~imagerow[i].live /\ UNCHANGED <<imagerow, last_uuid>> /\ To(w, "unclaim")
  BY <1>1, <1>2, <1>4, <1>6, ToMoves, TypedAfter DEF TInv
<1>7. QED
  BY <1>1, <1>5, <1>6

\* The new vm gets its domain, or not.
LEMMA DefineImageVmTyped ==
    ASSUME TInv, UNCHANGED setting, NEW w \in Threads, DefineImageVm(w)
    PROVE  /\ TInv' /\ Moved(w)
           /\ request[w].pc = "define_vm"
           /\ UNCHANGED <<imagerow, machine, snaprow, machdom, last_uuid, host, pool, tick>>
           /\ \/ /\ imgdom' = [imgdom EXCEPT ![request[w].row.vm_uuid] = "off"]
                 /\ request'[w] = [request[w] EXCEPT !.pc = "vm_created_add"]
              \/ imgdom' = imgdom /\ request'[w] = [request[w] EXCEPT !.pc = "reset_vm"]
<1>1. /\ Formed(request[w]) /\ request[w].pc = "define_vm"
      /\ UNCHANGED <<imagerow, machine, snaprow, machdom, last_uuid, host, pool, tick, json_status_code>>
      /\ \/ imgdom' = [imgdom EXCEPT ![request[w].row.vm_uuid] = "off"] /\ To(w, "vm_created_add")
         \/ imgdom' = imgdom /\ To(w, "reset_vm")
  BY DEF DefineImageVm, InStep, TInv, ImageRowsSame, MachineRowsSame, CephSame, AnswersSame
<1>2. "vm_created_add" \in Stages(request[w].op) /\ "reset_vm" \in Stages(request[w].op)
  BY <1>1, OpsAt DEF Stages
<1>3. imgdom' \in [1 .. MaxUuid -> Power]
  BY <1>1 DEF TInv, Power
<1>4. HostsInv'
  BY <1>1, HostsKept DEF TInv
<1>5. /\ To(w, "vm_created_add") => Moved(w) /\ request'[w] = [request[w] EXCEPT !.pc = "vm_created_add"]
      /\ To(w, "reset_vm") => Moved(w) /\ request'[w] = [request[w] EXCEPT !.pc = "reset_vm"]
  BY <1>1, <1>2, ToMoves
<1>6. Moved(w)
  BY <1>1, <1>5
<1>7. TInv'
  BY <1>1, <1>3, <1>4, <1>6, TypedAfter DEF TInv
<1>8. QED
  BY <1>1, <1>5, <1>6, <1>7

\* The row names no vm, all else as it was loaded.
LEMMA ResetImageVmTyped ==
    ASSUME TInv, UNCHANGED setting, NEW w \in Threads, ResetImageVm(w)
    PROVE  /\ TInv' /\ Moved(w) /\ request'[w] = [request[w] EXCEPT !.pc = "unclaim"]
           /\ request[w].pc = "reset_vm" /\ request[w].image \in Images /\ OnlyImageRow
           /\ imagerow' = [imagerow EXCEPT ![request[w].image] =
                             [request[w].row EXCEPT !.vm_uuid = 0, !.vm_host = NoOne]]
<1> DEFINE row == [request[w].row EXCEPT !.vm_uuid = 0, !.vm_host = NoOne]
<1>1. /\ Formed(request[w]) /\ request[w].pc = "reset_vm" /\ To(w, "unclaim") /\ OnlyImageRow
      /\ imagerow' = [imagerow EXCEPT ![request[w].image] = row]
  BY DEF ResetImageVm, InStep, TInv
<1>2. /\ request[w].row \in ImageRow /\ request[w].image \in Images
      /\ "unclaim" \in Stages(request[w].op)
  BY <1>1, OpsAt, AboutAt DEF Formed, RequestState, MachineOnly, Stages
<1>3. row \in ImageRow
  <2>1. 0 \in 0 .. MaxUuid /\ NoOne \in Hosts \cup {NoOne}
    BY ImageAssumption
  <2>2. QED
    BY <1>2, <2>1, PlacedRow
<1> HIDE DEF row
<1>4. imagerow' \in [Images -> ImageRow]
  BY <1>1, <1>3 DEF TInv
<1>5. Moved(w) /\ request'[w] = [request[w] EXCEPT !.pc = "unclaim"]
  BY <1>1, <1>2, ToMoves
<1>6. QED
  BY <1>1, <1>2, <1>4, <1>5, ImageRowTyped DEF row

\* The host gets back what was claimed.
LEMMA UnclaimForImageTyped ==
    ASSUME TInv, UNCHANGED setting, NEW w \in Threads, UnclaimForImage(w)
    PROVE  /\ TInv' /\ Moved(w) /\ request'[w] = NoRequest
           /\ request[w].pc = "unclaim" /\ free(request[w].host, 1, 1)
           /\ UNCHANGED <<imagerow, machine, snaprow, machdom, imgdom, last_uuid, pool, tick>>
<1>1. /\ Formed(request[w]) /\ request[w].pc = "unclaim" /\ To(w, "idle")
      /\ free(request[w].host, 1, 1) /\ HostsInv
      /\ ImageRowsSame /\ MachineRowsSame /\ DomainsSame /\ CephSame /\ AnswersSame
  BY DEF UnclaimForImage, InStep, TInv
<1>2. Moved(w) /\ request'[w] = NoRequest
  BY <1>1, ToMoves
<1>3. HostsInv'
  BY <1>1, FreeKeepsTotals
<1>4. QED
  BY <1>1, <1>2, <1>3, HostTyped DEF ImageRowsSame, MachineRowsSame, DomainsSame, CephSame

\* The host has one vm more.
LEMMA CreatedImageVmTyped ==
    ASSUME TInv, UNCHANGED setting, NEW w \in Threads, CreatedImageVm(w)
    PROVE  /\ TInv' /\ Moved(w) /\ request'[w] = NoRequest
           /\ request[w].pc = "vm_created_add" /\ vm_created_num_add_1(request[w].host)
           /\ UNCHANGED <<imagerow, machine, snaprow, machdom, imgdom, last_uuid, pool, tick>>
<1>1. /\ Formed(request[w]) /\ request[w].pc = "vm_created_add" /\ To(w, "idle")
      /\ vm_created_num_add_1(request[w].host) /\ HostsInv
      /\ ImageRowsSame /\ MachineRowsSame /\ DomainsSame /\ CephSame /\ AnswersSame
  BY DEF CreatedImageVm, InStep, TInv
<1>2. Moved(w) /\ request'[w] = NoRequest
  BY <1>1, ToMoves
<1>3. HostsInv'
  BY <1>1, CountKeepsTotals
<1>4. QED
  BY <1>1, <1>2, <1>3, HostTyped DEF ImageRowsSame, MachineRowsSame, DomainsSame, CephSame

\* Machines and their disks.
LEMMA CreateMachineTyped ==
    ASSUME TInv, UNCHANGED setting, NEW w \in Threads, NEW v \in Machines, NEW i \in Images,
           NEW size \in 1 .. MaxSize, CreateMachine(w, v, i, size)
    PROVE  /\ TInv' /\ Moved(w) /\ OnlyRequest /\ request[w] = NoRequest
           /\ request'[w] = [NoRequest EXCEPT !.op = "create_machine", !.image = i, !.machine = v,
                                       !.row = imagerow[i], !.size = size, !.pc = "clone_disk"]
<1> DEFINE q == [NoRequest EXCEPT !.op = "create_machine", !.image = i, !.machine = v,
                                  !.row = imagerow[i], !.size = size, !.pc = "clone_disk"]
<1>1. Arrives(w, "create_machine", i, v) /\ OnlyRequest
  BY DEF CreateMachine
<1>2. request' = [request EXCEPT ![w] = q]
  BY DEF CreateMachine
<1>3. /\ NoRequest \in RequestState /\ imagerow[i] \in ImageRow /\ size \in 0 .. MaxSize
      /\ "create_machine" \in ImageOps /\ "clone_disk" \in ImagePcs
  BY NoRequestFormed DEF Formed, ImageOps, ImagePcs, TInv
<1>4. /\ q \in RequestState /\ q.op = "create_machine" /\ q.image = i /\ q.machine = v
      /\ q.pc = "clone_disk"
  BY <1>3 DEF RequestState
<1> HIDE DEF q
<1>5. Formed(q)
  BY <1>4 DEF Formed, Stages, ImageOnly, MachineOnly
<1>6. Admitted(w, q) /\ request[w] = NoRequest
  BY <1>1, <1>4, ArrivesAdmitted
<1>7. Moved(w) /\ request'[w] = q
  BY <1>2, <1>5, <1>6, SetMoves
<1>8. QED
  BY <1>1, <1>6, <1>7, RequestTyped DEF q

\* A call of ceph for a machine: the pool it makes is sound.
LEMMA CallTyped ==
    ASSUME TInv, UNCHANGED setting, NEW w \in Threads, NEW a, NEW b, NEW done,
           OnlyCeph, UNCHANGED tick,
           PoolSound(done, tick),
           \/ pool' = done /\ To(w, a)
           \/ pool' = pool /\ To(w, b),
           a = "idle" \/ (request[w].pc # "idle" /\ a \in Stages(request[w].op)),
           b = "idle" \/ (request[w].pc # "idle" /\ b \in Stages(request[w].op))
    PROVE  TInv' /\ Moved(w)
<1>1. Moved(w)
  BY ToMoves
<1>2. PoolSound(pool', tick') /\ tick' \in 0 .. MaxTick
  BY DEF TInv
<1>3. QED
  BY <1>1, <1>2, CephTyped

\* The disk of a new machine is cloned.
LEMMA CloneDiskTyped ==
    ASSUME TInv, UNCHANGED setting, NEW w \in Threads, CloneDisk(w)
    PROVE  /\ TInv' /\ Moved(w) /\ OnlyCeph /\ UNCHANGED tick
           /\ request[w].pc = "clone_disk"
           /\ LET i == request[w].image
                  v == request[w].machine
                  s == request[w].row.snap
              IN
              /\ i \in Images /\ v \in Machines
              /\ \/ /\ HasSnap(pool, i, s) /\ s \in pool[i].protected /\ ~image_exists(pool, v)
                    /\ pool' = Cloned(pool, i, s, v)
                    /\ request'[w] = [request[w] EXCEPT !.pc = "resize_new"]
                 \/ pool' = pool /\ request'[w] = NoRequest
<1> DEFINE i == request[w].image
           v == request[w].machine
           s == request[w].row.snap
<1>1. /\ Formed(request[w]) /\ request[w].pc = "clone_disk" /\ PoolSound(pool, tick)
      /\ Ceph(w, clone_image(pool, i, s, v), "resize_new", "idle")
      /\ OnlyCeph /\ UNCHANGED tick
  BY DEF CloneDisk, InStep, TInv
<1>2. /\ i \in Images /\ i \in Keys /\ v \in Machines /\ v \in Keys
      /\ "resize_new" \in Stages(request[w].op)
  BY <1>1, OpsAt, AboutAt DEF Stages, MachineOnly, ImageOnly
<1> HIDE DEF i, v, s
<1>3. \/ /\ HasSnap(pool, i, s) /\ s \in pool[i].protected /\ ~image_exists(pool, v)
         /\ pool' = Cloned(pool, i, s, v) /\ To(w, "resize_new")
      \/ pool' = pool /\ To(w, "idle")
  BY <1>1, CloneStep
<1>4. CASE /\ HasSnap(pool, i, s) /\ s \in pool[i].protected /\ ~image_exists(pool, v)
           /\ pool' = Cloned(pool, i, s, v) /\ To(w, "resize_new")
  BY <1>1, <1>2, <1>4, ClonedPool, CallTyped, ToMoves DEF i, v, s
<1>5. CASE pool' = pool /\ To(w, "idle")
  BY <1>1, <1>2, <1>5, CallTyped, ToMoves DEF i, v, s
<1>6. QED
  BY <1>3, <1>4, <1>5

\* It is made as large as was asked for.
LEMMA ResizeNewDiskTyped ==
    ASSUME TInv, UNCHANGED setting, NEW w \in Threads, ResizeNewDisk(w)
    PROVE  /\ TInv' /\ Moved(w) /\ OnlyCeph /\ UNCHANGED tick
           /\ request[w].pc = "resize_new" /\ request[w].machine \in Machines
           /\ \/ /\ image_exists(pool, request[w].machine) /\ request[w].size \in 1 .. MaxSize
                 /\ pool' = Sized(pool, request[w].machine, request[w].size)
                 /\ request'[w] = [request[w] EXCEPT !.pc = "save_machine"]
              \/ pool' = pool /\ request'[w] = [request[w] EXCEPT !.pc = "remove_disk"]
<1> DEFINE v == request[w].machine
           size == request[w].size
<1>1. /\ Formed(request[w]) /\ request[w].pc = "resize_new" /\ PoolSound(pool, tick)
      /\ Ceph(w, resize_rbd_image(pool, v, size), "save_machine", "remove_disk")
      /\ OnlyCeph /\ UNCHANGED tick
  BY DEF ResizeNewDisk, InStep, TInv
<1>2. /\ v \in Machines /\ v \in Keys /\ size \in 0 .. MaxSize
      /\ "save_machine" \in Stages(request[w].op) /\ "remove_disk" \in Stages(request[w].op)
  BY <1>1, OpsAt, AboutAt DEF Stages, MachineOnly, ImageOnly, Formed, RequestState
<1> HIDE DEF v, size
<1>3. \/ /\ image_exists(pool, v) /\ size >= pool[v].size /\ size <= MaxSize
         /\ pool' = Sized(pool, v, size) /\ To(w, "save_machine")
      \/ pool' = pool /\ To(w, "remove_disk")
  BY <1>1, ResizeStep
<1>4. CASE /\ image_exists(pool, v) /\ size >= pool[v].size /\ size <= MaxSize
           /\ pool' = Sized(pool, v, size) /\ To(w, "save_machine")
  <2>1. size \in 1 .. MaxSize
    BY <1>1, <1>2, <1>4, RbdAssumption DEF PoolSound, image_exists, RbdImage
  <2>2. PoolSound(Sized(pool, v, size), tick)
    BY <1>1, <1>2, <2>1, SizedPool
  <2>3. TInv' /\ Moved(w)
    BY <1>1, <1>2, <1>4, <2>2, CallTyped
  <2>4. request'[w] = [request[w] EXCEPT !.pc = "save_machine"]
    BY <1>1, <1>2, <1>4, ToMoves
  <2>5. QED
    BY <1>1, <1>2, <1>4, <2>1, <2>3, <2>4 DEF v, size
<1>5. CASE pool' = pool /\ To(w, "remove_disk")
  BY <1>1, <1>2, <1>5, CallTyped, ToMoves DEF v, size
<1>6. QED
  BY <1>3, <1>4, <1>5

\* The row of the new machine.
LEMMA SaveMachineTyped ==
    ASSUME TInv, UNCHANGED setting, NEW w \in Threads, SaveMachine(w)
    PROVE  /\ TInv' /\ Moved(w) /\ OnlyMachineRow /\ UNCHANGED snaprow
           /\ request[w].pc = "save_machine" /\ request[w].machine \in Machines /\ request[w].image \in Images
           /\ machine' = [machine EXCEPT ![request[w].machine] =
                            [live |-> TRUE, image |-> request[w].image, image_parent |-> request[w].image,
                             image_snap |-> request[w].row.snap, sys_disk_size |-> request[w].size]]
           /\ request'[w] = [request[w] EXCEPT !.pc = "define_machine"]
<1> DEFINE row == [live |-> TRUE, image |-> request[w].image, image_parent |-> request[w].image,
                   image_snap |-> request[w].row.snap, sys_disk_size |-> request[w].size]
<1>1. /\ Formed(request[w]) /\ request[w].pc = "save_machine" /\ To(w, "define_machine")
      /\ machine' = [machine EXCEPT ![request[w].machine] = row]
      /\ UNCHANGED snaprow /\ OnlyMachineRow
  BY DEF SaveMachine, InStep, TInv
<1>2. /\ request[w].machine \in Machines /\ request[w].image \in Images
      /\ request[w].row \in ImageRow /\ request[w].size \in 0 .. MaxSize
      /\ "define_machine" \in Stages(request[w].op)
  BY <1>1, OpsAt, AboutAt DEF Stages, MachineOnly, ImageOnly, Formed, RequestState
<1>3. row \in MachineRow
  BY <1>2 DEF MachineRow, ImageRow
<1> HIDE DEF row
<1>4. machine' \in [Machines -> MachineRow]
  BY <1>1, <1>3 DEF TInv
<1>5. Moved(w) /\ request'[w] = [request[w] EXCEPT !.pc = "define_machine"]
  BY <1>1, <1>2, ToMoves
<1>6. snaprow' \in [1 .. MaxTick -> Machines \cup {NoOne}]
  BY <1>1 DEF TInv
<1>7. TInv'
  BY <1>1, <1>4, <1>5, <1>6, MachineRowTyped
<1>8. QED
  BY <1>1, <1>2, <1>5, <1>7 DEF row

\* Its domain, or the row is deleted again.
LEMMA DefineMachineTyped ==
    ASSUME TInv, UNCHANGED setting, NEW w \in Threads, DefineMachine(w)
    PROVE  /\ TInv' /\ Moved(w)
           /\ request[w].pc = "define_machine" /\ request[w].machine \in Machines
           /\ UNCHANGED <<imagerow, snaprow, imgdom, last_uuid, host, pool, tick>>
           /\ \/ UNCHANGED machine /\ request'[w] = [request[w] EXCEPT !.pc = "size_read"]
              \/ /\ machine' = [machine EXCEPT ![request[w].machine] = NoMachine]
                 /\ request'[w] = [request[w] EXCEPT !.pc = "remove_disk"]
<1> DEFINE v == request[w].machine
<1>1. /\ Formed(request[w]) /\ request[w].pc = "define_machine"
      /\ UNCHANGED <<imagerow, snaprow, imgdom, last_uuid, host, pool, tick, json_status_code>>
      /\ \/ machdom' = [machdom EXCEPT ![v] = "off"] /\ To(w, "size_read") /\ UNCHANGED machine
         \/ /\ UNCHANGED machdom /\ machine' = [machine EXCEPT ![v] = NoMachine]
            /\ To(w, "remove_disk")
  BY DEF DefineMachine, InStep, TInv, ImageRowsSame, CephSame, AnswersSame
<1>2. /\ v \in Machines
      /\ "size_read" \in Stages(request[w].op) /\ "remove_disk" \in Stages(request[w].op)
  BY <1>1, OpsAt, AboutAt DEF Stages, ImageOnly
<1> HIDE DEF v
<1>3. machdom' \in [Machines -> Power] /\ machine' \in [Machines -> MachineRow]
  <2>1. NoMachine \in MachineRow
    BY RbdAssumption DEF NoMachine, MachineRow
  <2>2. QED
    BY <1>1, <2>1 DEF TInv, Power
<1>4. HostsInv'
  BY <1>1, HostsKept DEF TInv
<1>5. /\ To(w, "size_read") => Moved(w) /\ request'[w] = [request[w] EXCEPT !.pc = "size_read"]
      /\ To(w, "remove_disk") => Moved(w) /\ request'[w] = [request[w] EXCEPT !.pc = "remove_disk"]
  BY <1>1, <1>2, ToMoves
<1>6. Moved(w)
  BY <1>1, <1>5
<1>7. TInv'
  BY <1>1, <1>3, <1>4, <1>6, TypedAfter DEF TInv
<1>8. QED
  BY <1>1, <1>2, <1>5, <1>6, <1>7 DEF v

\* A disk of a machine is removed, if nothing keeps it.
LEMMA RemoveDiskTyped ==
    ASSUME TInv, UNCHANGED setting, NEW w \in Threads, NEW a, request[w].pc # "idle",
           request[w].machine \in Machines, OnlyCeph, UNCHANGED tick,
           Ceph(w, remove_image(pool, request[w].machine), a, a),
           a = "idle" \/ a \in Stages(request[w].op)
    PROVE  /\ TInv' /\ Moved(w)
           /\ request'[w] = IF a = "idle" THEN NoRequest ELSE [request[w] EXCEPT !.pc = a]
           /\ \/ /\ \A s \in 1 .. MaxTick : ~HasSnap(pool, request[w].machine, s)
                 /\ pool' = Gone(pool, request[w].machine)
              \/ /\ pool' = pool
                 /\ \/ Breaks("remove_image")
                    \/ \E s \in 1 .. MaxTick : HasSnap(pool, request[w].machine, s)
<1> DEFINE v == request[w].machine
<1>1. v \in Keys /\ PoolSound(pool, tick)
  BY Names DEF TInv
<1> HIDE DEF v
<1>2. \/ /\ \A s \in 1 .. MaxTick : ~HasSnap(pool, v, s)
         /\ pool' = Gone(pool, v) /\ To(w, a)
      \/ /\ pool' = pool /\ To(w, a)
         /\ Breaks("remove_image") \/ \E s \in 1 .. MaxTick : HasSnap(pool, v, s)
  BY RemoveImageStep DEF v
<1>3. PoolSound(Gone(pool, v), tick)
  BY <1>1, GonePool
<1>4. TInv' /\ Moved(w)
  BY <1>2, <1>3, CallTyped
<1>5. request'[w] = IF a = "idle" THEN NoRequest ELSE [request[w] EXCEPT !.pc = a]
  BY <1>2, ToMoves
<1>6. QED
  BY <1>2, <1>4, <1>5 DEF v

\* The disk of a machine that could not be made is removed, or stays.
LEMMA RemoveNewDiskTyped ==
    ASSUME TInv, UNCHANGED setting, NEW w \in Threads, RemoveNewDisk(w)
    PROVE  /\ TInv' /\ Moved(w) /\ OnlyCeph /\ UNCHANGED tick
           /\ request[w].pc = "remove_disk" /\ request[w].machine \in Machines
           /\ request'[w] = NoRequest
           /\ \/ /\ \A s \in 1 .. MaxTick : ~HasSnap(pool, request[w].machine, s)
                 /\ pool' = Gone(pool, request[w].machine)
              \/ pool' = pool
<1>1. /\ Formed(request[w]) /\ request[w].pc = "remove_disk"
      /\ Ceph(w, remove_image(pool, request[w].machine), "idle", "idle")
      /\ OnlyCeph /\ UNCHANGED tick
  BY DEF RemoveNewDisk, InStep, TInv
<1>2. request[w].machine \in Machines
  BY <1>1, OpsAt, AboutAt DEF ImageOnly
<1>3. QED
  BY <1>1, <1>2, RemoveDiskTyped

\* The new disk of a change that failed is removed, or stays.
LEMMA RemoveNewTyped ==
    ASSUME TInv, UNCHANGED setting, NEW w \in Threads, RemoveNew(w)
    PROVE  /\ TInv' /\ Moved(w) /\ OnlyCeph /\ UNCHANGED tick
           /\ request[w].pc = "remove_new" /\ request[w].machine \in Machines
           /\ request'[w] = [request[w] EXCEPT !.pc = "rename_back"]
           /\ \/ /\ \A s \in 1 .. MaxTick : ~HasSnap(pool, request[w].machine, s)
                 /\ pool' = Gone(pool, request[w].machine)
              \/ /\ pool' = pool
                 /\ \/ Breaks("remove_image")
                    \/ \E s \in 1 .. MaxTick : HasSnap(pool, request[w].machine, s)
<1>1. /\ Formed(request[w]) /\ request[w].pc = "remove_new"
      /\ Ceph(w, remove_image(pool, request[w].machine), "rename_back", "rename_back")
      /\ OnlyCeph /\ UNCHANGED tick
  BY DEF RemoveNew, InStep, TInv
<1>2. request[w].machine \in Machines /\ "rename_back" \in Stages(request[w].op)
  BY <1>1, OpsAt, AboutAt DEF ImageOnly, Stages
<1>3. QED
  BY <1>1, <1>2, RemoveDiskTyped

\* A call of ceph whatever becomes of it: the request goes on at a or at b.
LEMMA CalledTyped ==
    ASSUME TInv, UNCHANGED setting, NEW w \in Threads, NEW a, NEW b,
           OnlyCeph, UNCHANGED tick, PoolSound(pool', tick), To(w, a) \/ To(w, b),
           a = "idle" \/ (request[w].pc # "idle" /\ a \in Stages(request[w].op)),
           b = "idle" \/ (request[w].pc # "idle" /\ b \in Stages(request[w].op))
    PROVE  /\ TInv' /\ Moved(w)
           /\ To(w, a) => request'[w] = IF a = "idle" THEN NoRequest ELSE [request[w] EXCEPT !.pc = a]
           /\ To(w, b) => request'[w] = IF b = "idle" THEN NoRequest ELSE [request[w] EXCEPT !.pc = b]
<1>1. Moved(w)
  BY ToMoves
<1>2. /\ To(w, a) => request'[w] = IF a = "idle" THEN NoRequest ELSE [request[w] EXCEPT !.pc = a]
      /\ To(w, b) => request'[w] = IF b = "idle" THEN NoRequest ELSE [request[w] EXCEPT !.pc = b]
  BY ToMoves
<1>3. PoolSound(pool', tick') /\ tick' \in 0 .. MaxTick
  BY DEF TInv
<1>4. TInv'
  BY <1>1, <1>3, CephTyped
<1>5. QED
  BY <1>1, <1>2, <1>4

\* A change of a machine's system.
LEMMA RenameSysDiskTyped ==
    ASSUME TInv, UNCHANGED setting, NEW w \in Threads, RenameSysDisk(w)
    PROVE  /\ TInv' /\ Moved(w) /\ OnlyCeph /\ UNCHANGED tick
           /\ request[w].pc = "rename_disk" /\ request[w].machine \in Machines
           /\ \/ /\ image_exists(pool, request[w].machine)
                 /\ pool' = Renamed(pool, request[w].machine, Aside(request[w].machine))
                 /\ request'[w] = [request[w] EXCEPT !.pc = "clone_new"]
              \/ pool' = pool /\ request'[w] = NoRequest
<1> DEFINE v == request[w].machine
<1>1. /\ Formed(request[w]) /\ request[w].pc = "rename_disk" /\ PoolSound(pool, tick)
      /\ Ceph(w, rename_image(pool, v, Aside(v)), "clone_new", "idle")
      /\ OnlyCeph /\ UNCHANGED tick
  BY DEF RenameSysDisk, InStep, TInv
<1>2. /\ v \in Machines /\ v \in Keys /\ Aside(v) \in Keys /\ v # Aside(v)
      /\ "clone_new" \in Stages(request[w].op)
  BY <1>1, OpsAt, AboutAt, Names DEF ImageOnly, Stages
<1> HIDE DEF v
<1>3. \/ image_exists(pool, v) /\ pool' = Renamed(pool, v, Aside(v)) /\ To(w, "clone_new")
      \/ pool' = pool /\ To(w, "idle")
  BY <1>1, RenameStep
<1>4. PoolSound(pool', tick)
  BY <1>1, <1>2, <1>3, RenamedPool
<1>5. /\ TInv' /\ Moved(w)
      /\ To(w, "clone_new") => request'[w] = [request[w] EXCEPT !.pc = "clone_new"]
      /\ To(w, "idle") => request'[w] = NoRequest
  BY <1>1, <1>2, <1>3, <1>4, CalledTyped
<1>6. QED
  BY <1>1, <1>2, <1>3, <1>5 DEF v

\* The old disk is put back, or stays aside.
LEMMA RenameBackTyped ==
    ASSUME TInv, UNCHANGED setting, NEW w \in Threads, RenameBack(w)
    PROVE  /\ TInv' /\ Moved(w) /\ OnlyCeph /\ UNCHANGED tick
           /\ request[w].pc = "rename_back" /\ request[w].machine \in Machines
           /\ request'[w] = NoRequest
           /\ LET v == request[w].machine IN
              \/ /\ image_exists(pool, Aside(v)) /\ ~image_exists(pool, v)
                 /\ pool' = Renamed(pool, Aside(v), v)
              \/ /\ pool' = pool
                 /\ \/ Breaks("rename_image")
                    \/ ~(image_exists(pool, Aside(v)) /\ ~image_exists(pool, v))
<1> DEFINE v == request[w].machine
<1>1. /\ Formed(request[w]) /\ request[w].pc = "rename_back" /\ PoolSound(pool, tick)
      /\ Ceph(w, rename_image(pool, Aside(v), v), "idle", "idle")
      /\ OnlyCeph /\ UNCHANGED tick
  BY DEF RenameBack, InStep, TInv
<1>2. v \in Machines /\ v \in Keys /\ Aside(v) \in Keys /\ v # Aside(v) /\ v \in RbdNames
  BY <1>1, OpsAt, AboutAt, Names, ImageAssumption DEF ImageOnly
<1> HIDE DEF v
<1>3. \/ /\ image_exists(pool, Aside(v)) /\ (v \in RbdNames => ~image_exists(pool, v))
         /\ pool' = Renamed(pool, Aside(v), v) /\ To(w, "idle")
      \/ /\ pool' = pool /\ To(w, "idle")
         /\ \/ Breaks("rename_image")
            \/ ~(image_exists(pool, Aside(v)) /\ (v \in RbdNames => ~image_exists(pool, v)))
  BY <1>1, RenameStep
<1>4. PoolSound(pool', tick)
  BY <1>1, <1>2, <1>3, RenamedPool
<1>5. TInv' /\ Moved(w) /\ request'[w] = NoRequest
  BY <1>1, <1>3, <1>4, CalledTyped
<1>6. QED
  BY <1>1, <1>2, <1>3, <1>5 DEF v

\* The new disk of a change is cloned, or is there.
LEMMA CloneNewDiskTyped ==
    ASSUME TInv, UNCHANGED setting, NEW w \in Threads, CloneNewDisk(w)
    PROVE  /\ TInv' /\ Moved(w) /\ OnlyCeph /\ UNCHANGED tick
           /\ request[w].pc = "clone_new"
           /\ LET i == request[w].image
                  v == request[w].machine
                  s == request[w].row.snap
              IN
              /\ i \in Images /\ v \in Machines
              /\ \/ /\ image_exists(pool, v) /\ pool' = pool
                    /\ request'[w] = [request[w] EXCEPT !.pc = "define_new"]
                 \/ /\ HasSnap(pool, i, s) /\ s \in pool[i].protected /\ ~image_exists(pool, v)
                    /\ pool' = Cloned(pool, i, s, v)
                    /\ request'[w] = [request[w] EXCEPT !.pc = "define_new"]
                 \/ /\ pool' = pool /\ ~image_exists(pool, v)
                    /\ request'[w] = [request[w] EXCEPT !.pc = "rename_back"]
<1> DEFINE i == request[w].image
           v == request[w].machine
           s == request[w].row.snap
<1>1. /\ Formed(request[w]) /\ request[w].pc = "clone_new" /\ PoolSound(pool, tick)
      /\ IF image_exists(pool, v)
         THEN To(w, "define_new") /\ UNCHANGED pool
         ELSE Ceph(w, clone_image(pool, i, s, v), "define_new", "rename_back")
      /\ OnlyCeph /\ UNCHANGED tick
  BY DEF CloneNewDisk, InStep, TInv
<1>2. /\ i \in Images /\ i \in Keys /\ v \in Machines /\ v \in Keys
      /\ "define_new" \in Stages(request[w].op) /\ "rename_back" \in Stages(request[w].op)
  BY <1>1, OpsAt, AboutAt DEF Stages, MachineOnly, ImageOnly
<1> HIDE DEF i, v, s
<1>3. \/ image_exists(pool, v) /\ pool' = pool /\ To(w, "define_new")
      \/ /\ HasSnap(pool, i, s) /\ s \in pool[i].protected /\ ~image_exists(pool, v)
         /\ pool' = Cloned(pool, i, s, v) /\ To(w, "define_new")
      \/ ~image_exists(pool, v) /\ pool' = pool /\ To(w, "rename_back")
  BY <1>1, CloneStep
<1>4. PoolSound(pool', tick)
  BY <1>1, <1>2, <1>3, ClonedPool
<1>5. /\ TInv' /\ Moved(w)
      /\ To(w, "define_new") => request'[w] = [request[w] EXCEPT !.pc = "define_new"]
      /\ To(w, "rename_back") => request'[w] = [request[w] EXCEPT !.pc = "rename_back"]
  BY <1>1, <1>2, <1>3, <1>4, CalledTyped
<1>6. QED
  BY <1>1, <1>2, <1>3, <1>5 DEF i, v, s

\* The domain with the new disk.
LEMMA DefineNewTyped ==
    ASSUME TInv, UNCHANGED setting, NEW w \in Threads, DefineNew(w)
    PROVE  /\ TInv' /\ Moved(w) /\ OnlyRequest
           /\ request[w].pc = "define_new" /\ request[w].machine \in Machines
           /\ \/ request'[w] = [request[w] EXCEPT !.pc = "save_new"]
              \/ request'[w] = [request[w] EXCEPT !.pc = "remove_new"]
<1>1. /\ Formed(request[w]) /\ request[w].pc = "define_new"
      /\ To(w, "save_new") \/ To(w, "remove_new")
      /\ OnlyRequest
  BY DEF DefineNew, InStep, TInv
<1>2. /\ request[w].machine \in Machines
      /\ "save_new" \in Stages(request[w].op) /\ "remove_new" \in Stages(request[w].op)
  BY <1>1, OpsAt, AboutAt DEF Stages, ImageOnly
<1>3. /\ Moved(w)
      /\ \/ request'[w] = [request[w] EXCEPT !.pc = "save_new"]
         \/ request'[w] = [request[w] EXCEPT !.pc = "remove_new"]
  BY <1>1, <1>2, ToMoves
<1>4. QED
  BY <1>1, <1>2, <1>3, RequestTyped

\* The row names the new image.
LEMMA SaveNewTyped ==
    ASSUME TInv, UNCHANGED setting, NEW w \in Threads, SaveNew(w)
    PROVE  /\ TInv' /\ Moved(w) /\ OnlyMachineRow /\ UNCHANGED snaprow
           /\ request[w].pc = "save_new" /\ request[w].machine \in Machines /\ request[w].image \in Images
           /\ machine' = [machine EXCEPT ![request[w].machine] =
                            [machine[request[w].machine] EXCEPT
                               !.image = request[w].image, !.image_parent = request[w].image,
                               !.image_snap = request[w].row.snap]]
           /\ request'[w] = [request[w] EXCEPT !.pc = "remount"]
<1> DEFINE v == request[w].machine
           row == [machine[v] EXCEPT !.image = request[w].image, !.image_parent = request[w].image,
                                     !.image_snap = request[w].row.snap]
<1>1. /\ Formed(request[w]) /\ request[w].pc = "save_new" /\ To(w, "remount")
      /\ machine' = [machine EXCEPT ![v] = row]
      /\ UNCHANGED snaprow /\ OnlyMachineRow
  BY DEF SaveNew, InStep, TInv
<1>2. /\ v \in Machines /\ request[w].image \in Images
      /\ request[w].row.snap \in 0 .. MaxTick /\ machine[v] \in MachineRow
      /\ "remount" \in Stages(request[w].op)
  BY <1>1, OpsAt, AboutAt DEF Stages, MachineOnly, ImageOnly, Formed, RequestState, ImageRow, TInv
<1> HIDE DEF v
<1>3. row \in MachineRow
  BY <1>2 DEF MachineRow
<1> HIDE DEF row
<1>4. machine' \in [Machines -> MachineRow] /\ snaprow' \in [1 .. MaxTick -> Machines \cup {NoOne}]
  BY <1>1, <1>3 DEF TInv
<1>5. Moved(w) /\ request'[w] = [request[w] EXCEPT !.pc = "remount"]
  BY <1>1, <1>2, ToMoves
<1>6. TInv'
  BY <1>1, <1>4, <1>5, MachineRowTyped
<1>7. QED
  BY <1>1, <1>2, <1>5, <1>6 DEF row, v

\* What the machine had is mounted again, or the request ends.
LEMMA RemountTyped ==
    ASSUME TInv, UNCHANGED setting, NEW w \in Threads, RemountDevices(w)
    PROVE  /\ TInv' /\ Moved(w) /\ OnlyRequest
           /\ request[w].pc = "remount" /\ request[w].machine \in Machines
           /\ \/ request'[w] = [request[w] EXCEPT !.pc = "size_read"]
              \/ Breaks("remount") /\ request'[w] = NoRequest
<1>1. /\ Formed(request[w]) /\ request[w].pc = "remount"
      /\ To(w, "size_read") \/ (Breaks("remount") /\ To(w, "idle"))
      /\ OnlyRequest
  BY DEF RemountDevices, InStep, TInv
<1>2. request[w].machine \in Machines /\ "size_read" \in Stages(request[w].op)
  BY <1>1, OpsAt, AboutAt DEF Stages, ImageOnly
<1>3. /\ Moved(w)
      /\ \/ request'[w] = [request[w] EXCEPT !.pc = "size_read"]
         \/ Breaks("remount") /\ request'[w] = NoRequest
  BY <1>1, <1>2, ToMoves
<1>4. QED
  BY <1>1, <1>2, <1>3, RequestTyped

\* The size is read of a disk that is there, or it is not.
LEMMA ReadSizeTyped ==
    ASSUME TInv, UNCHANGED setting, NEW w \in Threads, ReadSize(w)
    PROVE  /\ TInv' /\ Moved(w) /\ OnlyRequest
           /\ request[w].pc = "size_read" /\ request[w].machine \in Machines
           /\ \/ /\ image_exists(pool, request[w].machine)
                 /\ request'[w] = [request[w] EXCEPT !.size = pool[request[w].machine].size,
                                                     !.pc = "size_save"]
              \/ /\ ~image_exists(pool, request[w].machine) \/ Breaks("get_size")
                 /\ request'[w] = NoRequest
<1> DEFINE v == request[w].machine
           q == [request[w] EXCEPT !.size = pool[v].size, !.pc = "size_save"]
<1>1. /\ Formed(request[w]) /\ request[w] \in RequestState /\ request[w].pc = "size_read"
      /\ OnlyRequest
      /\ \/ /\ image_exists(pool, v)
            /\ request' = [request EXCEPT ![w].size = pool[v].size, ![w].pc = "size_save"]
         \/ (~image_exists(pool, v) \/ Breaks("get_size")) /\ To(w, "idle")
  BY DEF ReadSize, InStep, TInv
<1>2. v \in Machines /\ v \in Keys /\ "size_save" \in Stages(request[w].op) /\ request[w] # NoRequest
  BY <1>1, OpsAt, AboutAt, AtWork DEF ImageOnly, Stages
<1>3. Formed(q) /\ Kept(request[w], q)
  <2>1. pool[v].size \in 0 .. MaxSize /\ "size_save" \in ImagePcs
    BY <1>2 DEF TInv, PoolSound, RbdImage, ImagePcs
  <2> HIDE DEF v
  <2>2. /\ q \in RequestState /\ q.op = request[w].op /\ q.image = request[w].image
        /\ q.machine = request[w].machine /\ q.pc = "size_save" /\ q.host = request[w].host
    BY <1>1, <2>1 DEF RequestState
  <2> HIDE DEF q
  <2>3. QED
    BY <1>1, <1>2, <2>2 DEF Formed, Kept
<1>4. request \in [Threads -> RequestState]
  BY DEF TInv
<1>5. \/ image_exists(pool, v) /\ request' = [request EXCEPT ![w] = q]
      \/ (~image_exists(pool, v) \/ Breaks("get_size")) /\ To(w, "idle")
  BY <1>1, <1>4
<1> HIDE DEF q, v
<1>6. /\ Moved(w)
      /\ \/ image_exists(pool, v) /\ request'[w] = q
         \/ (~image_exists(pool, v) \/ Breaks("get_size")) /\ request'[w] = NoRequest
  BY <1>3, <1>5, SetMoves, ToMoves
<1>7. QED
  BY <1>1, <1>2, <1>6, RequestTyped DEF q, v

\* The size that was read is saved.
LEMMA SaveSizeTyped ==
    ASSUME TInv, UNCHANGED setting, NEW w \in Threads, SaveSize(w)
    PROVE  /\ TInv' /\ Moved(w) /\ OnlyMachineRow /\ UNCHANGED snaprow
           /\ request[w].pc = "size_save" /\ request[w].machine \in Machines
           /\ machine' = [machine EXCEPT ![request[w].machine] =
                            IF machine[request[w].machine].live
                            THEN [machine[request[w].machine] EXCEPT !.sys_disk_size = request[w].size]
                            ELSE machine[request[w].machine]]
           /\ request'[w] = NoRequest
<1> DEFINE v == request[w].machine
           row == IF machine[v].live THEN [machine[v] EXCEPT !.sys_disk_size = request[w].size]
                  ELSE machine[v]
<1>1. /\ Formed(request[w]) /\ request[w].pc = "size_save" /\ To(w, "idle")
      /\ machine' = [machine EXCEPT ![v] = row]
      /\ UNCHANGED snaprow /\ OnlyMachineRow
  BY DEF SaveSize, InStep, TInv
<1>2. v \in Machines /\ request[w].size \in 0 .. MaxSize /\ machine[v] \in MachineRow
  BY <1>1, OpsAt, AboutAt DEF ImageOnly, Formed, RequestState, TInv
<1> HIDE DEF v
<1>3. row \in MachineRow
  BY <1>2 DEF MachineRow
<1> HIDE DEF row
<1>4. machine' \in [Machines -> MachineRow] /\ snaprow' \in [1 .. MaxTick -> Machines \cup {NoOne}]
  BY <1>1, <1>3 DEF TInv
<1>5. Moved(w) /\ request'[w] = NoRequest
  BY <1>1, ToMoves
<1>6. TInv'
  BY <1>1, <1>4, <1>5, MachineRowTyped
<1>7. QED
  BY <1>1, <1>2, <1>5, <1>6 DEF row, v

\* The disk is made larger.
LEMMA ResizeSysDiskTyped ==
    ASSUME TInv, UNCHANGED setting, NEW w \in Threads, ResizeSysDisk(w)
    PROVE  /\ TInv' /\ Moved(w) /\ OnlyCeph /\ UNCHANGED tick
           /\ request[w].pc = "resize" /\ request[w].machine \in Machines
           /\ \/ /\ image_exists(pool, request[w].machine) /\ request[w].size \in 1 .. MaxSize
                 /\ pool' = Sized(pool, request[w].machine, request[w].size)
                 /\ request'[w] = [request[w] EXCEPT !.pc = "size_read"]
              \/ pool' = pool /\ request'[w] = NoRequest
<1> DEFINE v == request[w].machine
           size == request[w].size
<1>1. /\ Formed(request[w]) /\ request[w].pc = "resize" /\ PoolSound(pool, tick)
      /\ Ceph(w, resize_rbd_image(pool, v, size), "size_read", "idle")
      /\ OnlyCeph /\ UNCHANGED tick
  BY DEF ResizeSysDisk, InStep, TInv
<1>2. /\ v \in Machines /\ v \in Keys /\ size \in 0 .. MaxSize
      /\ "size_read" \in Stages(request[w].op)
  BY <1>1, OpsAt, AboutAt DEF Stages, ImageOnly, Formed, RequestState
<1> HIDE DEF v, size
<1>3. \/ /\ image_exists(pool, v) /\ size >= pool[v].size /\ size <= MaxSize
         /\ pool' = Sized(pool, v, size) /\ To(w, "size_read")
      \/ pool' = pool /\ To(w, "idle")
  BY <1>1, ResizeStep
<1>4. image_exists(pool, v) /\ size >= pool[v].size => size \in 1 .. MaxSize
  BY <1>1, <1>2, RbdAssumption DEF PoolSound, image_exists, RbdImage
<1>5. PoolSound(pool', tick)
  BY <1>1, <1>2, <1>3, <1>4, SizedPool
<1>6. /\ TInv' /\ Moved(w)
      /\ To(w, "size_read") => request'[w] = [request[w] EXCEPT !.pc = "size_read"]
      /\ To(w, "idle") => request'[w] = NoRequest
  BY <1>1, <1>2, <1>3, <1>5, CalledTyped
<1>7. QED
  BY <1>1, <1>2, <1>3, <1>4, <1>6 DEF v, size

\* An expansion that arrives.
LEMMA ExpandSysDiskTyped ==
    ASSUME TInv, UNCHANGED setting, NEW w \in Threads, NEW v \in Machines, NEW more \in 1 .. MaxSize,
           ExpandSysDisk(w, v, more)
    PROVE  /\ TInv' /\ Moved(w) /\ OnlyRequest /\ request[w] = NoRequest
           /\ machine[v].live
           /\ request'[w] = [NoRequest EXCEPT !.op = "sys_disk_expand", !.machine = v,
                               !.size = machine[v].sys_disk_size + more, !.pc = "resize"]
<1> DEFINE size == machine[v].sys_disk_size + more
           q == [NoRequest EXCEPT !.op = "sys_disk_expand", !.machine = v, !.size = size, !.pc = "resize"]
<1>1. Arrives(w, "sys_disk_expand", NoOne, v) /\ OnlyRequest /\ machine[v].live /\ size <= MaxSize
  BY DEF ExpandSysDisk, AboutMachine
<1>2. request' = [request EXCEPT ![w] = q]
  BY DEF ExpandSysDisk
<1>3. machine[v] \in MachineRow
  BY DEF TInv
<1>4. size \in 0 .. MaxSize
  BY <1>1, <1>3, RbdAssumption DEF MachineRow
<1> HIDE DEF size
<1>5. /\ NoRequest \in RequestState /\ "sys_disk_expand" \in ImageOps /\ "resize" \in ImagePcs
      /\ NoRequest.image = NoOne
  BY NoRequestFormed DEF Formed, ImageOps, ImagePcs, NoRequest
<1>6. /\ q \in RequestState /\ q.op = "sys_disk_expand" /\ q.image = NoOne /\ q.machine = v
      /\ q.pc = "resize"
  BY <1>4, <1>5 DEF RequestState
<1> HIDE DEF q
<1>7. Formed(q)
  BY <1>6 DEF Formed, Stages, ImageOnly, MachineOnly
<1>8. Admitted(w, q) /\ request[w] = NoRequest
  BY <1>1, <1>6, ArrivesAdmitted
<1>9. Moved(w) /\ request'[w] = q
  BY <1>2, <1>7, <1>8, SetMoves
<1>10. QED
  BY <1>1, <1>8, <1>9, RequestTyped DEF q, size

\* A change of the system that arrives, which deletes the rows of the snapshots.
LEMMA ChangeSysDiskTyped ==
    ASSUME TInv, UNCHANGED setting, NEW w \in Threads, NEW v \in Machines, NEW i \in Images,
           ChangeSysDisk(w, v, i)
    PROVE  /\ TInv' /\ Moved(w) /\ OnlyMachineRow /\ request[w] = NoRequest
           /\ machine[v].live /\ imagerow[i].live /\ UNCHANGED machine
           /\ snaprow' = [s \in 1 .. MaxTick |-> IF snaprow[s] = v THEN NoOne ELSE snaprow[s]]
           /\ request'[w] = [NoRequest EXCEPT !.op = "change_sys_disk", !.image = i, !.machine = v,
                               !.pc = "rename_disk", !.row = imagerow[i]]
<1> DEFINE q == [NoRequest EXCEPT !.op = "change_sys_disk", !.image = i, !.machine = v,
                               !.pc = "rename_disk", !.row = imagerow[i]]
<1>1. /\ Arrives(w, "change_sys_disk", NoOne, v)
      /\ OnlyMachineRow /\ machine[v].live /\ imagerow[i].live /\ UNCHANGED machine
      /\ snaprow' = [s \in DOMAIN snaprow |-> IF snaprow[s] = v THEN NoOne ELSE snaprow[s]]
  BY DEF ChangeSysDisk, AboutMachine
<1>2. request' = [request EXCEPT ![w] = q]
  BY Names DEF ChangeSysDisk, Receive
<1>3. /\ NoRequest \in RequestState /\ imagerow[i] \in ImageRow
      /\ "change_sys_disk" \in ImageOps /\ "rename_disk" \in ImagePcs
  BY NoRequestFormed DEF Formed, ImageOps, ImagePcs, TInv
<1>4. /\ q \in RequestState /\ q.op = "change_sys_disk" /\ q.image = i /\ q.machine = v
      /\ q.pc = "rename_disk"
  BY <1>3 DEF RequestState
<1> HIDE DEF q
<1>5. Formed(q)
  BY <1>4 DEF Formed, Stages, ImageOnly, MachineOnly
<1>6. Admitted(w, q) /\ request[w] = NoRequest
  BY <1>1, <1>4, ArrivesAdmitted
<1>7. Moved(w) /\ request'[w] = q
  BY <1>2, <1>5, <1>6, SetMoves
<1>8. /\ machine' \in [Machines -> MachineRow]
      /\ snaprow' \in [1 .. MaxTick -> Machines \cup {NoOne}]
      /\ snaprow' = [s \in 1 .. MaxTick |-> IF snaprow[s] = v THEN NoOne ELSE snaprow[s]]
  BY <1>1 DEF TInv
<1>9. TInv'
  BY <1>1, <1>7, <1>8, MachineRowTyped
<1>10. QED
  BY <1>1, <1>6, <1>7, <1>8, <1>9 DEF q

\* A start or stop of a machine.
LEMMA MachinePowerTyped ==
    ASSUME TInv, UNCHANGED setting, NEW w \in Threads, NEW v \in Machines, MachinePower(w, v)
    PROVE  /\ TInv' /\ request' = request
           /\ UNCHANGED <<imagerow, machine, snaprow, imgdom, last_uuid, host, pool, tick>>
<1>1. machdom' \in [Machines -> Power]
  BY DEF MachinePower, TInv, Power
<1>2. UNCHANGED <<imgdom, last_uuid, request, host, imagerow, machine, snaprow, pool, tick, json_status_code>>
  BY DEF MachinePower, ImageRowsSame, MachineRowsSame, CephSame, AnswersSame
<1>3. HostsInv'
  BY <1>2, HostsKept DEF TInv
<1>4. QED
  BY <1>1, <1>2, <1>3 DEF TInv

\* Snapshots of a system disk.
LEMMA CreateSysSnapTyped ==
    ASSUME TInv, UNCHANGED setting, NEW w \in Threads, NEW v \in Machines, CreateSysSnap(w, v)
    PROVE  /\ TInv' /\ Moved(w) /\ OnlyRequest /\ request[w] = NoRequest /\ machine[v].live
           /\ request'[w] = [NoRequest EXCEPT !.op = "create_sys_snap", !.image = NoOne, !.machine = v,
                               !.pc = "sys_snap", !.row = NoImageRow]
<1>1. /\ Arrives(w, "create_sys_snap", NoOne, v)
      /\ Receive(w, "create_sys_snap", NoOne, v, "sys_snap")
      /\ OnlyRequest /\ machine[v].live
  BY DEF CreateSysSnap, AboutMachine
<1>2. "create_sys_snap" \in ImageOps /\ "sys_snap" \in Stages("create_sys_snap")
      /\ "create_sys_snap" \in MachineOnly /\ "create_sys_snap" \notin ImageOnly
  BY DEF ImageOps, Stages, MachineOnly, ImageOnly
<1>3. Moved(w) /\ request[w] = NoRequest
  BY <1>1, <1>2, ReceiveMoves DEF MachineOnly, ImageOnly
<1>4. request'[w] = [NoRequest EXCEPT !.op = "create_sys_snap", !.image = NoOne, !.machine = v,
                       !.pc = "sys_snap", !.row = NoImageRow]
  BY <1>1 DEF Receive, TInv
<1>5. TInv'
  BY <1>1, <1>3, RequestTyped
<1>6. QED
  BY <1>1, <1>3, <1>4, <1>5

\* A snapshot of the disk.
LEMMA TakeSysSnapTyped ==
    ASSUME TInv, UNCHANGED setting, NEW w \in Threads, TakeSysSnap(w)
    PROVE  /\ TInv' /\ Moved(w) /\ OnlyCeph
           /\ tick' = tick + 1 /\ tick' \in 1 .. MaxTick
           /\ request[w].pc = "sys_snap" /\ request[w].machine \in Machines
           /\ \/ /\ pool' = Snapped(pool, request[w].machine, tick + 1)
                 /\ image_exists(pool, request[w].machine)
                 /\ request'[w] = [request[w] EXCEPT !.snap = tick + 1, !.pc = "sys_snap_save"]
              \/ pool' = pool /\ request'[w] = NoRequest
<1> DEFINE v == request[w].machine
           good == [request[w] EXCEPT !.snap = tick + 1, !.pc = "sys_snap_save"]
<1>1. /\ Formed(request[w]) /\ request[w] \in RequestState /\ request[w].pc = "sys_snap"
      /\ tick \in 0 .. MaxTick /\ tick < MaxTick /\ tick' = tick + 1
      /\ PoolSound(pool, tick) /\ OnlyCeph
  BY DEF TakeSysSnap, InStep, TInv
<1>2. PICK r \in create_snap(pool, v, tick + 1, FALSE) :
          /\ r.own = "" \/ Breaks(r.own)
          /\ pool' = r.pool
          /\ request' = [request EXCEPT ![w] = IF r.ok THEN good ELSE NoRequest]
  BY DEF TakeSysSnap
<1>3. tick + 1 \in 1 .. MaxTick /\ tick \in Nat
  BY <1>1, RbdAssumption
<1>4. v \in Machines /\ v \in Keys /\ "sys_snap_save" \in Stages(request[w].op) /\ request[w] # NoRequest
  BY <1>1, OpsAt, AboutAt, AtWork DEF Stages, ImageOnly
<1>5. Formed(good) /\ Kept(request[w], good)
  <2>1. "sys_snap_save" \in ImagePcs /\ tick + 1 \in 0 .. MaxTick
    BY <1>3 DEF ImagePcs
  <2>2. /\ good \in RequestState /\ good.op = request[w].op /\ good.image = request[w].image
        /\ good.machine = request[w].machine /\ good.host = request[w].host
        /\ good.pc = "sys_snap_save"
    BY <1>1, <2>1 DEF RequestState
  <2> HIDE DEF good
  <2>3. QED
    BY <1>1, <1>4, <2>2 DEF Formed, Kept
<1> HIDE DEF v, good
<1>6. \/ r.ok /\ image_exists(pool, v) /\ r.pool = Snapped(pool, v, tick + 1)
      \/ ~r.ok /\ r.pool = pool
  BY CreateSnapCases
<1>7. \/ /\ pool' = Snapped(pool, v, tick + 1) /\ image_exists(pool, v)
         /\ request' = [request EXCEPT ![w] = good]
      \/ pool' = pool /\ request' = [request EXCEPT ![w] = NoRequest]
  BY <1>2, <1>6
<1>8. Formed(NoRequest) /\ Kept(request[w], NoRequest)
  BY NoRequestFormed DEF Kept
<1>9. /\ Moved(w)
      /\ \/ /\ pool' = Snapped(pool, v, tick + 1) /\ image_exists(pool, v)
            /\ request'[w] = good
         \/ pool' = pool /\ request'[w] = NoRequest
  BY <1>5, <1>7, <1>8, SetMoves
<1>10. PoolSound(pool', tick')
  BY <1>1, <1>3, <1>4, <1>7, SnappedPool, LaterSound
<1>11. TInv'
  BY <1>1, <1>3, <1>9, <1>10, CephTyped
<1>12. QED
  BY <1>1, <1>3, <1>4, <1>9, <1>11 DEF v, good

\* Its row.
LEMMA SaveSysSnapTyped ==
    ASSUME TInv, UNCHANGED setting, NEW w \in Threads, SaveSysSnap(w)
    PROVE  /\ TInv' /\ Moved(w) /\ OnlyMachineRow /\ UNCHANGED machine
           /\ request[w].pc = "sys_snap_save" /\ request[w].machine \in Machines
           /\ snaprow' = [snaprow EXCEPT ![request[w].snap] = request[w].machine]
           /\ request'[w] = NoRequest
<1>1. /\ Formed(request[w]) /\ request[w].pc = "sys_snap_save" /\ To(w, "idle")
      /\ snaprow' = [snaprow EXCEPT ![request[w].snap] = request[w].machine]
      /\ UNCHANGED machine /\ OnlyMachineRow
  BY DEF SaveSysSnap, InStep, TInv
<1>2. request[w].machine \in Machines
  BY <1>1, OpsAt, AboutAt DEF ImageOnly
<1>3. machine' \in [Machines -> MachineRow] /\ snaprow' \in [1 .. MaxTick -> Machines \cup {NoOne}]
  BY <1>1, <1>2 DEF TInv
<1>4. Moved(w) /\ request'[w] = NoRequest
  BY <1>1, ToMoves
<1>5. QED
  BY <1>1, <1>2, <1>3, <1>4, MachineRowTyped

\* A deletion of a snapshot, or a rollback to it, that arrives.
LEMMA AboutSysSnapTyped ==
    ASSUME TInv, UNCHANGED setting, NEW w \in Threads, NEW v \in Machines, NEW op, NEW s \in 1 .. MaxTick,
           AboutSysSnap(w, op, v, s)
    PROVE  /\ TInv' /\ Moved(w) /\ OnlyRequest /\ request[w] = NoRequest
           /\ op \in {"delete_sys_snap", "rollback"} /\ machine[v].live /\ snaprow[s] = v
           /\ request'[w] = [NoRequest EXCEPT !.op = op, !.machine = v, !.snap = s,
                               !.pc = IF op = "rollback" THEN "rollback" ELSE "remove_sys_snap"]
<1> DEFINE pc == IF op = "rollback" THEN "rollback" ELSE "remove_sys_snap"
           q == [NoRequest EXCEPT !.op = op, !.machine = v, !.snap = s, !.pc = pc]
<1>1. /\ Arrives(w, op, NoOne, v) /\ OnlyRequest /\ machine[v].live /\ snaprow[s] = v
      /\ op \in {"delete_sys_snap", "rollback"}
  BY DEF AboutSysSnap, AboutMachine
<1>2. request' = [request EXCEPT ![w] = q]
  BY DEF AboutSysSnap
<1>3. /\ NoRequest \in RequestState /\ op \in ImageOps /\ pc \in ImagePcs /\ s \in 0 .. MaxTick
      /\ NoRequest.image = NoOne
  BY <1>1, NoRequestFormed DEF Formed, ImageOps, ImagePcs, NoRequest
<1>4. pc \in Stages(op)
  BY <1>1 DEF Stages
<1> HIDE DEF pc
<1>5. /\ q \in RequestState /\ q.op = op /\ q.image = NoOne /\ q.machine = v
      /\ q.pc = pc
  BY <1>3 DEF RequestState
<1> HIDE DEF q
<1>6. Formed(q)
  BY <1>1, <1>4, <1>5 DEF Formed, ImageOnly, MachineOnly
<1>7. Admitted(w, q) /\ request[w] = NoRequest
  BY <1>1, <1>5, ArrivesAdmitted
<1>8. Moved(w) /\ request'[w] = q
  BY <1>2, <1>6, <1>7, SetMoves
<1>9. QED
  BY <1>1, <1>7, <1>8, RequestTyped DEF q, pc

\* The snapshot is removed.
LEMMA RemoveSysSnapTyped ==
    ASSUME TInv, UNCHANGED setting, NEW w \in Threads, RemoveSysSnap(w)
    PROVE  /\ TInv' /\ Moved(w) /\ OnlyCeph /\ UNCHANGED tick
           /\ request[w].pc = "remove_sys_snap" /\ request[w].machine \in Machines
           /\ \/ /\ ~HasSnap(pool, request[w].machine, request[w].snap) /\ pool' = pool
                 /\ request'[w] = [request[w] EXCEPT !.pc = "snap_rowdel"]
              \/ /\ HasSnap(pool, request[w].machine, request[w].snap)
                 /\ pool' = Unsnapped(pool, request[w].machine, request[w].snap)
                 /\ request'[w] = [request[w] EXCEPT !.pc = "snap_rowdel"]
              \/ /\ pool' = pool \/ pool' = Unheld(pool, request[w].machine, request[w].snap)
                 /\ request'[w] = NoRequest
<1> DEFINE v == request[w].machine
           s == request[w].snap
<1>1. /\ Formed(request[w]) /\ request[w].pc = "remove_sys_snap" /\ PoolSound(pool, tick)
      /\ Ceph(w, remove_snap(pool, v, s), "snap_rowdel", "idle")
      /\ OnlyCeph /\ UNCHANGED tick
  BY DEF RemoveSysSnap, InStep, TInv
<1>2. v \in Machines /\ v \in Keys /\ "snap_rowdel" \in Stages(request[w].op)
  BY <1>1, OpsAt, AboutAt DEF Stages, ImageOnly
<1> HIDE DEF v, s
<1>3. \/ ~HasSnap(pool, v, s) /\ pool' = pool /\ To(w, "snap_rowdel")
      \/ HasSnap(pool, v, s) /\ pool' = Unsnapped(pool, v, s) /\ To(w, "snap_rowdel")
      \/ (pool' = pool \/ pool' = Unheld(pool, v, s)) /\ To(w, "idle")
  BY <1>1, RemoveSnapStep
<1>4. PoolSound(pool', tick)
  BY <1>1, <1>2, <1>3, UnsnappedPool, UnheldPool DEF HasSnap
<1>5. /\ TInv' /\ Moved(w)
      /\ To(w, "snap_rowdel") => request'[w] = [request[w] EXCEPT !.pc = "snap_rowdel"]
      /\ To(w, "idle") => request'[w] = NoRequest
  BY <1>1, <1>2, <1>3, <1>4, CalledTyped
<1>6. QED
  BY <1>1, <1>2, <1>3, <1>5 DEF v, s

\* Its row is deleted.
LEMMA DeleteSysSnapRowTyped ==
    ASSUME TInv, UNCHANGED setting, NEW w \in Threads, DeleteSysSnapRow(w)
    PROVE  /\ TInv' /\ Moved(w) /\ OnlyMachineRow /\ UNCHANGED machine
           /\ request[w].pc = "snap_rowdel" /\ request[w].machine \in Machines
           /\ snaprow' = [snaprow EXCEPT ![request[w].snap] = NoOne]
           /\ request'[w] = NoRequest
<1>1. /\ Formed(request[w]) /\ request[w].pc = "snap_rowdel" /\ To(w, "idle")
      /\ snaprow' = [snaprow EXCEPT ![request[w].snap] = NoOne]
      /\ UNCHANGED machine /\ OnlyMachineRow
  BY DEF DeleteSysSnapRow, InStep, TInv
<1>2. request[w].machine \in Machines
  BY <1>1, OpsAt, AboutAt DEF ImageOnly
<1>3. machine' \in [Machines -> MachineRow] /\ snaprow' \in [1 .. MaxTick -> Machines \cup {NoOne}]
  BY <1>1 DEF TInv
<1>4. Moved(w) /\ request'[w] = NoRequest
  BY <1>1, ToMoves
<1>5. QED
  BY <1>1, <1>2, <1>3, <1>4, MachineRowTyped

\* The disk is as it was in the snapshot.
LEMMA RollbackDiskTyped ==
    ASSUME TInv, UNCHANGED setting, NEW w \in Threads, RollbackDisk(w)
    PROVE  /\ TInv' /\ Moved(w) /\ OnlyCeph /\ UNCHANGED tick
           /\ request[w].pc = "rollback" /\ request[w].machine \in Machines
           /\ \/ /\ HasSnap(pool, request[w].machine, request[w].snap)
                 /\ pool[request[w].machine].snaps[request[w].snap] \in 1 .. MaxSize
                 /\ pool' = Sized(pool, request[w].machine, pool[request[w].machine].snaps[request[w].snap])
                 /\ request'[w] = [request[w] EXCEPT !.pc = "size_read"]
              \/ pool' = pool /\ request'[w] = NoRequest
<1> DEFINE v == request[w].machine
           s == request[w].snap
           size == pool[v].snaps[s]
<1>1. /\ Formed(request[w]) /\ request[w].pc = "rollback" /\ PoolSound(pool, tick)
      /\ Ceph(w, image_rollback_to_snap(pool, v, s), "size_read", "idle")
      /\ OnlyCeph /\ UNCHANGED tick
  BY DEF RollbackDisk, InStep, TInv
<1>2. v \in Machines /\ v \in Keys /\ "size_read" \in Stages(request[w].op)
  BY <1>1, OpsAt, AboutAt DEF Stages, ImageOnly
<1> HIDE DEF v, s
<1>3. \/ HasSnap(pool, v, s) /\ pool' = Sized(pool, v, size) /\ To(w, "size_read")
      \/ pool' = pool /\ To(w, "idle")
  BY <1>1, RollbackStep
<1>4. HasSnap(pool, v, s) => size \in 1 .. MaxSize
  BY <1>1, <1>2, RbdAssumption DEF PoolSound, HasSnap, RbdImage
<1> HIDE DEF size
<1>5. PoolSound(pool', tick)
  BY <1>1, <1>2, <1>3, <1>4, SizedPool
<1>6. /\ TInv' /\ Moved(w)
      /\ To(w, "size_read") => request'[w] = [request[w] EXCEPT !.pc = "size_read"]
      /\ To(w, "idle") => request'[w] = NoRequest
  BY <1>1, <1>2, <1>3, <1>5, CalledTyped
<1>7. QED
  BY <1>1, <1>2, <1>3, <1>4, <1>6 DEF v, s, size

\* Releases.
LEMMA ReleaseImageTyped ==
    ASSUME TInv, UNCHANGED setting, NEW w \in Threads, NEW v \in Machines, NEW i \in Images,
           ReleaseImage(w, v, i)
    PROVE  /\ TInv' /\ machine[v].live
           /\ UNCHANGED <<imagerow, machine, snaprow, machdom, imgdom, last_uuid, host, pool, tick>>
           /\ \/ request' = request
              \/ /\ Moved(w) /\ request[w] = NoRequest
                 /\ request'[w] = [NoRequest EXCEPT !.op = "release", !.image = i, !.machine = v,
                                     !.pc = "rel_exists"]
<1> DEFINE q == [NoRequest EXCEPT !.op = "release", !.image = i, !.machine = v, !.pc = "rel_exists"]
<1>1. /\ Arrives(w, "release", i, v) /\ machine[v].live
      /\ UNCHANGED <<imagerow, machine, snaprow, machdom, imgdom, last_uuid, host, pool, tick>>
      /\ json_status_code' \in {json_status_code, 400}
      /\ \/ request' = [request EXCEPT ![w] = q]
         \/ request' = request
  BY DEF ReleaseImage, ImageRowsSame, MachineRowsSame, DomainsSame, CephSame, AnswersSame
<1>2. HostsInv' /\ json_status_code' \in {200, 400}
  BY <1>1, HostsKept DEF TInv
<1>3. CASE request' = request
  BY <1>1, <1>2, <1>3 DEF TInv
<1>4. CASE request' = [request EXCEPT ![w] = q]
  <2>1. /\ NoRequest \in RequestState /\ "release" \in ImageOps /\ "rel_exists" \in ImagePcs
    BY NoRequestFormed DEF Formed, ImageOps, ImagePcs
  <2>2. q \in RequestState /\ q.op = "release" /\ q.image = i /\ q.machine = v /\ q.pc = "rel_exists"
    BY <2>1 DEF RequestState
  <2> HIDE DEF q
  <2>3. Formed(q)
    BY <2>2 DEF Formed, Stages, MachineOnly, ImageOnly
  <2>4. Admitted(w, q) /\ request[w] = NoRequest
    BY <1>1, <2>2, ArrivesAdmitted
  <2>5. Moved(w) /\ request'[w] = q
    BY <1>4, <2>3, <2>4, SetMoves
  <2>6. TInv'
    BY <1>1, <1>2, <2>5, TypedAfter DEF TInv
  <2>7. QED
    BY <1>1, <2>4, <2>5, <2>6 DEF q
<1>5. QED
  BY <1>1, <1>3, <1>4

\* A call of a release, whatever becomes of it.
LEMMA ReleaseCallTyped ==
    ASSUME TInv, UNCHANGED setting, NEW w \in Threads, NEW pc, NEW outcomes, NEW a, NEW b,
           ReleaseCall(w, pc, outcomes, a, b), PoolSound(pool', tick),
           request[w].pc # "idle",
           a = "idle" \/ a \in Stages("release"), b = "idle" \/ b \in Stages("release"),
           request[w].op = "release",
           To(w, a) \/ To(w, b)
    PROVE  /\ TInv' /\ Moved(w)
           /\ UNCHANGED <<imagerow, machine, snaprow, machdom, imgdom, last_uuid, host, tick>>
           /\ To(w, a) /\ a # "idle" => request'[w] = [request[w] EXCEPT !.pc = a]
           /\ To(w, b) /\ b # "idle" => request'[w] = [request[w] EXCEPT !.pc = b]
           /\ To(w, "idle") => request'[w] = NoRequest
<1>1. /\ request[w].pc # "idle"
      /\ json_status_code' \in {json_status_code, 400}
      /\ UNCHANGED <<imagerow, machine, snaprow, machdom, imgdom, last_uuid, host, tick>>
  BY DEF ReleaseCall, InStep, ImageRowsSame, MachineRowsSame, DomainsSame
<1>7. /\ a = "idle" \/ (request[w].pc # "idle" /\ a \in Stages(request[w].op))
      /\ b = "idle" \/ (request[w].pc # "idle" /\ b \in Stages(request[w].op))
  BY <1>1
<1>2. Moved(w)
  BY <1>7, ToMoves
<1>3. /\ To(w, a) => request'[w] = IF a = "idle" THEN NoRequest ELSE [request[w] EXCEPT !.pc = a]
      /\ To(w, b) => request'[w] = IF b = "idle" THEN NoRequest ELSE [request[w] EXCEPT !.pc = b]
  BY <1>7, ToMoves
<1>4. HostsInv' /\ json_status_code' \in {200, 400} /\ PoolSound(pool', tick')
  BY <1>1, HostsKept DEF TInv
<1>5. TInv'
  BY <1>1, <1>2, <1>4, TypedAfter DEF TInv
<1>8. To(w, "idle") => request'[w] = NoRequest
  BY ToMoves
<1>6. QED
  BY <1>1, <1>2, <1>3, <1>5, <1>8

\* What a release is about.
LEMMA ReleaseAt ==
    ASSUME TInv, NEW w \in Threads,
           request[w].pc \in {"rel_exists", "rel_snap", "rel_clone", "rel_flatten", "rel_unsnap",
                              "rel_remove", "rel_unsnap_failed"}
    PROVE  /\ request[w].op = "release" /\ Formed(request[w]) /\ PoolSound(pool, tick)
           /\ request[w].image \in Images /\ request[w].image \in Keys
           /\ request[w].machine \in Machines /\ request[w].machine \in Keys
<1>1. Formed(request[w]) /\ PoolSound(pool, tick)
  BY DEF TInv
<1>2. request[w].op = "release"
  BY <1>1, OpsAt
<1>3. QED
  BY <1>1, <1>2, AboutAt DEF MachineOnly, ImageOnly

\* A release turns back where there is an image of that name.
LEMMA ReleaseExistsTyped ==
    ASSUME TInv, UNCHANGED setting, NEW w \in Threads, ReleaseExists(w)
    PROVE  /\ TInv' /\ Moved(w)
           /\ UNCHANGED <<imagerow, machine, snaprow, machdom, imgdom, last_uuid, host, tick, pool>>
           /\ request[w].pc = "rel_exists" /\ request[w].image \in Images
           /\ \/ /\ ~image_exists(pool, request[w].image)
                 /\ request'[w] = [request[w] EXCEPT !.pc = "rel_snap"]
              \/ request'[w] = NoRequest
<1> DEFINE no == ~image_exists(pool, request[w].image)
           outcomes == {Outcome(no, "", pool)}
           last == "idle"
<1>1. ReleaseCall(w, "rel_exists", outcomes, "rel_snap", last)
  BY DEF ReleaseExists
<1>2. Ceph(w, outcomes, "rel_snap", last) /\ request[w].pc = "rel_exists"
  BY <1>1 DEF ReleaseCall, InStep
<1>3. no \in BOOLEAN
  BY DEF image_exists
<1>4. pool' = pool /\ ((no /\ To(w, "rel_snap")) \/ To(w, last))
  <2>1. PICK r \in outcomes : pool' = r.pool /\ To(w, IF r.ok THEN "rel_snap" ELSE last)
    BY <1>2 DEF Ceph
  <2>2. CASE no
    <3>1. r = Outcome(TRUE, "", pool)
      BY <2>1, <2>2
    <3>2. QED
      BY <2>1, <2>2, <3>1 DEF Outcome
  <2>3. CASE ~no
    <3>1. r = Outcome(FALSE, "", pool)
      BY <2>1, <2>3
    <3>2. QED
      BY <2>1, <2>3, <3>1 DEF Outcome
  <2>4. QED
    BY <2>2, <2>3
<1>0. last = "idle"
  OBVIOUS
<1> HIDE DEF last, no, outcomes
<1>5. "rel_snap" \in Stages("release")
  BY DEF Stages
<1>6. /\ request[w].op = "release" /\ PoolSound(pool', tick) /\ request[w].image \in Images
  BY <1>2, <1>4, ReleaseAt
<1>9. (To(w, "rel_snap") \/ To(w, last)) /\ request[w].pc # "idle"
  BY <1>2, <1>4
<1>10. /\ TInv' /\ Moved(w)
       /\ UNCHANGED <<imagerow, machine, snaprow, machdom, imgdom, last_uuid, host, tick>>
  BY <1>0, <1>1, <1>5, <1>6, <1>9, ReleaseCallTyped
<1>11. To(w, "rel_snap") => request'[w] = [request[w] EXCEPT !.pc = "rel_snap"]
  BY <1>5, <1>6, <1>9, ToMoves
<1>12. To(w, last) => request'[w] = NoRequest
  BY <1>0, ToMoves
<1>7. /\ TInv' /\ Moved(w)
      /\ UNCHANGED <<imagerow, machine, snaprow, machdom, imgdom, last_uuid, host, tick>>
      /\ To(w, "rel_snap") => request'[w] = [request[w] EXCEPT !.pc = "rel_snap"]
      /\ To(w, last) => request'[w] = NoRequest
  BY <1>10, <1>11, <1>12
<1>8. QED
  BY <1>0, <1>2, <1>4, <1>6, <1>7 DEF no

\* The snapshot to be published.
LEMMA ReleaseSnapTyped ==
    ASSUME TInv, UNCHANGED setting, NEW w \in Threads, ReleaseSnap(w)
    PROVE  /\ TInv' /\ Moved(w)
           /\ UNCHANGED <<imagerow, machine, snaprow, machdom, imgdom, last_uuid, host>>
           /\ tick' = tick + 1 /\ tick' \in 1 .. MaxTick
           /\ request[w].pc = "rel_snap" /\ request[w].machine \in Machines
           /\ \/ /\ pool' = Protected(pool, request[w].machine, tick + 1)
                 /\ image_exists(pool, request[w].machine)
                 /\ request'[w] = [request[w] EXCEPT !.snap = tick + 1, !.pc = "rel_clone"]
              \/ pool' = pool /\ request'[w] = NoRequest
              \/ /\ pool' = Snapped(pool, request[w].machine, tick + 1)
                 /\ image_exists(pool, request[w].machine)
                 /\ request'[w] = NoRequest
<1> DEFINE v == request[w].machine
           good == [request[w] EXCEPT !.snap = tick + 1, !.pc = "rel_clone"]
<1>1. /\ Formed(request[w]) /\ request[w] \in RequestState /\ request[w].pc = "rel_snap"
      /\ tick \in 0 .. MaxTick /\ tick < MaxTick /\ tick' = tick + 1
      /\ PoolSound(pool, tick)
      /\ UNCHANGED <<imagerow, machine, snaprow, machdom, imgdom, last_uuid, host>>
  BY DEF ReleaseSnap, InStep, TInv, ImageRowsSame, MachineRowsSame, DomainsSame
<1>2. PICK r \in create_snap(pool, v, tick + 1, TRUE) :
          /\ r.own = "" \/ Breaks(r.own)
          /\ pool' = r.pool
          /\ request' = [request EXCEPT ![w] = IF r.ok THEN good ELSE NoRequest]
          /\ json_status_code' = IF r.ok THEN json_status_code ELSE 400
  BY DEF ReleaseSnap
<1>3. tick + 1 \in 1 .. MaxTick /\ tick \in Nat
  BY <1>1, RbdAssumption
<1>4. v \in Machines /\ v \in Keys /\ "rel_clone" \in Stages(request[w].op) /\ request[w] # NoRequest
  BY <1>1, ReleaseAt, AtWork DEF Stages
<1>5. Formed(good) /\ Kept(request[w], good)
  <2>1. "rel_clone" \in ImagePcs /\ tick + 1 \in 0 .. MaxTick
    BY <1>3 DEF ImagePcs
  <2>2. /\ good \in RequestState /\ good.op = request[w].op /\ good.image = request[w].image
        /\ good.machine = request[w].machine /\ good.host = request[w].host
        /\ good.pc = "rel_clone"
    BY <1>1, <2>1 DEF RequestState
  <2> HIDE DEF good
  <2>3. QED
    BY <1>1, <1>4, <2>2 DEF Formed, Kept
<1>0. json_status_code' \in {200, 400}
  BY <1>2 DEF TInv
<1> HIDE DEF v, good
<1>6. \/ r.ok /\ image_exists(pool, v) /\ r.pool = Protected(pool, v, tick + 1)
      \/ ~r.ok /\ r.pool = pool
      \/ ~r.ok /\ image_exists(pool, v) /\ r.pool = Snapped(pool, v, tick + 1)
  BY CreateSnapCases
<1>7. \/ /\ pool' = Protected(pool, v, tick + 1) /\ image_exists(pool, v)
         /\ request' = [request EXCEPT ![w] = good]
      \/ pool' = pool /\ request' = [request EXCEPT ![w] = NoRequest]
      \/ /\ pool' = Snapped(pool, v, tick + 1) /\ image_exists(pool, v)
         /\ request' = [request EXCEPT ![w] = NoRequest]
  BY <1>2, <1>6
<1>8. Formed(NoRequest) /\ Kept(request[w], NoRequest)
  BY NoRequestFormed DEF Kept
<1>9. /\ Moved(w)
      /\ \/ /\ pool' = Protected(pool, v, tick + 1) /\ image_exists(pool, v)
            /\ request'[w] = good
         \/ pool' = pool /\ request'[w] = NoRequest
         \/ /\ pool' = Snapped(pool, v, tick + 1) /\ image_exists(pool, v)
            /\ request'[w] = NoRequest
  BY <1>5, <1>7, <1>8, SetMoves
<1>10. PoolSound(pool', tick')
  BY <1>1, <1>3, <1>4, <1>7, SnappedPool, ProtectedPool, LaterSound
<1>11. HostsInv'
  BY <1>1, HostsKept DEF TInv
<1>12. TInv'
  BY <1>0, <1>1, <1>3, <1>9, <1>10, <1>11, TypedAfter DEF TInv
<1>13. QED
  BY <1>1, <1>3, <1>4, <1>9, <1>12 DEF v, good

\* The image is cloned from it.
LEMMA ReleaseCloneTyped ==
    ASSUME TInv, UNCHANGED setting, NEW w \in Threads, ReleaseClone(w)
    PROVE  /\ TInv' /\ Moved(w)
           /\ UNCHANGED <<imagerow, machine, snaprow, machdom, imgdom, last_uuid, host, tick>>
           /\ request[w].pc = "rel_clone"
           /\ LET i == request[w].image
                  v == request[w].machine
                  s == request[w].snap
              IN
              /\ i \in Images /\ v \in Machines
              /\ \/ /\ HasSnap(pool, v, s) /\ s \in pool[v].protected /\ ~image_exists(pool, i)
                    /\ pool' = Cloned(pool, v, s, i)
                    /\ request'[w] = [request[w] EXCEPT !.pc = "rel_flatten"]
                 \/ /\ pool' = pool /\ request'[w] = NoRequest
                    /\ \/ Breaks("clone")
                       \/ ~(HasSnap(pool, v, s) /\ s \in pool[v].protected /\ ~image_exists(pool, i))
<1> DEFINE i == request[w].image
           v == request[w].machine
           s == request[w].snap
           last == "idle"
<1>1. ReleaseCall(w, "rel_clone", clone_image(pool, v, s, i), "rel_flatten", last)
  BY DEF ReleaseClone
<1>2. Ceph(w, clone_image(pool, v, s, i), "rel_flatten", last) /\ request[w].pc = "rel_clone"
  BY <1>1 DEF ReleaseCall, InStep
<1>3. /\ request[w].op = "release" /\ PoolSound(pool, tick)
      /\ i \in Images /\ i \in Keys /\ v \in Machines /\ v \in Keys
  BY <1>2, ReleaseAt
<1>4. "rel_flatten" \in Stages("release")
  BY DEF Stages
<1>0. last = "idle"
  OBVIOUS
<1> HIDE DEF last, i, v, s
<1>5. \/ /\ HasSnap(pool, v, s) /\ s \in pool[v].protected /\ ~image_exists(pool, i)
         /\ pool' = Cloned(pool, v, s, i) /\ To(w, "rel_flatten")
      \/ /\ pool' = pool /\ To(w, last)
         /\ \/ Breaks("clone")
            \/ ~(HasSnap(pool, v, s) /\ s \in pool[v].protected /\ ~image_exists(pool, i))
  BY <1>2, CloneStep
<1>6. PoolSound(pool', tick)
  BY <1>3, <1>5, ClonedPool
<1>9. (To(w, "rel_flatten") \/ To(w, last)) /\ request[w].pc # "idle"
  BY <1>2, <1>5
<1>10. /\ TInv' /\ Moved(w)
       /\ UNCHANGED <<imagerow, machine, snaprow, machdom, imgdom, last_uuid, host, tick>>
  BY <1>0, <1>1, <1>3, <1>4, <1>6, <1>9, ReleaseCallTyped
<1>11. To(w, "rel_flatten") => request'[w] = [request[w] EXCEPT !.pc = "rel_flatten"]
  BY <1>3, <1>4, <1>9, ToMoves
<1>12. To(w, last) => request'[w] = NoRequest
  BY <1>0, ToMoves
<1>7. /\ TInv' /\ Moved(w)
      /\ UNCHANGED <<imagerow, machine, snaprow, machdom, imgdom, last_uuid, host, tick>>
      /\ To(w, "rel_flatten") => request'[w] = [request[w] EXCEPT !.pc = "rel_flatten"]
      /\ To(w, last) => request'[w] = NoRequest
  BY <1>10, <1>11, <1>12
<1>8. QED
  BY <1>0, <1>2, <1>3, <1>5, <1>7 DEF i, v, s

\* The image is made to stand alone.
LEMMA ReleaseFlattenTyped ==
    ASSUME TInv, UNCHANGED setting, NEW w \in Threads, ReleaseFlatten(w)
    PROVE  /\ TInv' /\ Moved(w)
           /\ UNCHANGED <<imagerow, machine, snaprow, machdom, imgdom, last_uuid, host, tick>>
           /\ request[w].pc = "rel_flatten" /\ request[w].image \in Images
           /\ \/ /\ image_exists(pool, request[w].image)
                 /\ pool' = Flat(pool, request[w].image)
                 /\ request'[w] = [request[w] EXCEPT !.pc = "rel_unsnap"]
              \/ pool' = pool /\ request'[w] = [request[w] EXCEPT !.pc = "rel_remove"]
<1> DEFINE i == request[w].image
<1>1. ReleaseCall(w, "rel_flatten", flatten_image(pool, i), "rel_unsnap", "rel_remove")
  BY DEF ReleaseFlatten
<1>2. Ceph(w, flatten_image(pool, i), "rel_unsnap", "rel_remove") /\ request[w].pc = "rel_flatten"
  BY <1>1 DEF ReleaseCall, InStep
<1>3. request[w].op = "release" /\ PoolSound(pool, tick) /\ i \in Images /\ i \in Keys
  BY <1>2, ReleaseAt
<1>4. "rel_unsnap" \in Stages("release") /\ "rel_remove" \in Stages("release")
  BY DEF Stages
<1> HIDE DEF i
<1>5. \/ image_exists(pool, i) /\ pool' = Flat(pool, i) /\ To(w, "rel_unsnap")
      \/ pool' = pool /\ To(w, "rel_remove")
  BY <1>2, FlattenStep
<1>6. PoolSound(pool', tick)
  BY <1>3, <1>5, FlatPool
<1>7. /\ TInv' /\ Moved(w)
      /\ UNCHANGED <<imagerow, machine, snaprow, machdom, imgdom, last_uuid, host, tick>>
      /\ To(w, "rel_unsnap") => request'[w] = [request[w] EXCEPT !.pc = "rel_unsnap"]
      /\ To(w, "rel_remove") => request'[w] = [request[w] EXCEPT !.pc = "rel_remove"]
  BY <1>1, <1>2, <1>3, <1>4, <1>5, <1>6, ReleaseCallTyped
<1>8. QED
  BY <1>2, <1>3, <1>5, <1>7 DEF i

\* An image that does not is removed.
LEMMA ReleaseRemoveTyped ==
    ASSUME TInv, UNCHANGED setting, NEW w \in Threads, ReleaseRemove(w)
    PROVE  /\ TInv' /\ Moved(w)
           /\ UNCHANGED <<imagerow, machine, snaprow, machdom, imgdom, last_uuid, host, tick>>
           /\ request[w].pc = "rel_remove" /\ request[w].image \in Images
           /\ \/ /\ \A s \in 1 .. MaxTick : ~HasSnap(pool, request[w].image, s)
                 /\ pool' = Gone(pool, request[w].image)
                 /\ request'[w] = [request[w] EXCEPT !.pc = "rel_unsnap_failed"]
              \/ /\ pool' = pool /\ request'[w] = NoRequest
                 /\ \/ Breaks("remove_image")
                    \/ \E s \in 1 .. MaxTick : HasSnap(pool, request[w].image, s)
<1> DEFINE i == request[w].image
           last == "idle"
<1>1. ReleaseCall(w, "rel_remove", remove_image(pool, i), "rel_unsnap_failed", last)
  BY DEF ReleaseRemove
<1>2. Ceph(w, remove_image(pool, i), "rel_unsnap_failed", last) /\ request[w].pc = "rel_remove"
  BY <1>1 DEF ReleaseCall, InStep
<1>3. request[w].op = "release" /\ PoolSound(pool, tick) /\ i \in Images /\ i \in Keys
  BY <1>2, ReleaseAt
<1>4. "rel_unsnap_failed" \in Stages("release")
  BY DEF Stages
<1>0. last = "idle"
  OBVIOUS
<1> HIDE DEF last, i
<1>5. \/ /\ \A s \in 1 .. MaxTick : ~HasSnap(pool, i, s)
         /\ pool' = Gone(pool, i) /\ To(w, "rel_unsnap_failed")
      \/ /\ pool' = pool /\ To(w, last)
         /\ Breaks("remove_image") \/ \E s \in 1 .. MaxTick : HasSnap(pool, i, s)
  BY <1>2, RemoveImageStep
<1>6. PoolSound(pool', tick)
  BY <1>3, <1>5, GonePool
<1>9. (To(w, "rel_unsnap_failed") \/ To(w, last)) /\ request[w].pc # "idle"
  BY <1>2, <1>5
<1>10. /\ TInv' /\ Moved(w)
       /\ UNCHANGED <<imagerow, machine, snaprow, machdom, imgdom, last_uuid, host, tick>>
  BY <1>0, <1>1, <1>3, <1>4, <1>6, <1>9, ReleaseCallTyped
<1>11. To(w, "rel_unsnap_failed") => request'[w] = [request[w] EXCEPT !.pc = "rel_unsnap_failed"]
  BY <1>3, <1>4, <1>9, ToMoves
<1>12. To(w, last) => request'[w] = NoRequest
  BY <1>0, ToMoves
<1>7. /\ TInv' /\ Moved(w)
      /\ UNCHANGED <<imagerow, machine, snaprow, machdom, imgdom, last_uuid, host, tick>>
      /\ To(w, "rel_unsnap_failed") => request'[w] = [request[w] EXCEPT !.pc = "rel_unsnap_failed"]
      /\ To(w, last) => request'[w] = NoRequest
  BY <1>10, <1>11, <1>12
<1>8. QED
  BY <1>0, <1>2, <1>3, <1>5, <1>7 DEF i

\* The snapshot of a release is removed, on either way.
LEMMA ReleaseUnsnapTyped ==
    ASSUME TInv, UNCHANGED setting, NEW w \in Threads, ReleaseUnsnap(w) \/ ReleaseUndoSnap(w)
    PROVE  /\ TInv' /\ Moved(w)
           /\ UNCHANGED <<imagerow, machine, snaprow, machdom, imgdom, last_uuid, host, tick>>
           /\ request[w].machine \in Machines /\ request[w].image \in Images
           /\ \/ /\ request[w].pc = "rel_unsnap"
                 /\ request'[w] = [request[w] EXCEPT !.pc = "create_image"]
              \/ request[w].pc = "rel_unsnap_failed" /\ request'[w] = NoRequest
           /\ LET v == request[w].machine
                  s == request[w].snap
              IN
              \/ ~HasSnap(pool, v, s) /\ pool' = pool
              \/ HasSnap(pool, v, s) /\ pool' = Unsnapped(pool, v, s)
              \/ /\ pool' = pool /\ HasSnap(pool, v, s)
                 /\ Breaks("remove_snap") \/ Children(pool, v, s) # {}
              \/ pool' = Unheld(pool, v, s) /\ Breaks("remove_snap")
<1> DEFINE v == request[w].machine
           s == request[w].snap
           pc == request[w].pc
           next == IF pc = "rel_unsnap" THEN "create_image" ELSE "idle"
<1>1. /\ ReleaseCall(w, pc, remove_snap(pool, v, s), next, next)
      /\ pc \in {"rel_unsnap", "rel_unsnap_failed"}
  BY DEF ReleaseUnsnap, ReleaseUndoSnap, ReleaseCall, InStep
<1>2. Ceph(w, remove_snap(pool, v, s), next, next)
  BY <1>1 DEF ReleaseCall
<1>3. /\ request[w].op = "release" /\ PoolSound(pool, tick)
      /\ v \in Machines /\ v \in Keys /\ request[w].image \in Images
  BY <1>1, ReleaseAt
<1>4. "create_image" \in Stages("release")
  BY DEF Stages
<1> HIDE DEF v, s
<1>5. /\ To(w, next)
      /\ \/ ~HasSnap(pool, v, s) /\ pool' = pool
         \/ HasSnap(pool, v, s) /\ pool' = Unsnapped(pool, v, s)
         \/ /\ pool' = pool /\ HasSnap(pool, v, s)
            /\ Breaks("remove_snap") \/ Children(pool, v, s) # {}
         \/ pool' = Unheld(pool, v, s) /\ Breaks("remove_snap")
  BY <1>2, RemoveSnapStep
<1>6. PoolSound(pool', tick)
  BY <1>3, <1>5, UnsnappedPool, UnheldPool DEF HasSnap
<1>7. next = "idle" \/ next \in Stages("release")
  BY <1>4
<1>8. pc # "idle"
  BY <1>1
<1> HIDE DEF next
<1>9. /\ TInv' /\ Moved(w)
      /\ UNCHANGED <<imagerow, machine, snaprow, machdom, imgdom, last_uuid, host, tick>>
      /\ request'[w] = IF next = "idle" THEN NoRequest ELSE [request[w] EXCEPT !.pc = next]
  BY <1>1, <1>3, <1>5, <1>6, <1>7, <1>8, ReleaseCallTyped
<1>10. QED
  BY <1>1, <1>3, <1>5, <1>9 DEF v, s, next

-----------------------------------------------------------------------------
(* Every step.                                                             *)

\* An action of one request gives TInv again and moves that request alone.
LEMMA ImageStepTyped ==
    ASSUME TInv, UNCHANGED setting, NEW w \in Threads, ImageStep(w)
    PROVE  TInv' /\ (request' = request \/ Moved(w))
<1>1. CASE CreateBaseImage(w) \/ CreateSnap(w) \/ InsertImage(w) \/ RemoveOldSnap(w) \/ SaveImage(w)
           \/ RenameBase(w) \/ DeleteImageRow(w)
  BY <1>1, CreateBaseImageTyped, CreateSnapTyped, InsertImageTyped, RemoveOldSnapTyped, SaveImageTyped,
     RenameBaseTyped, DeleteImageRowTyped
<1>2. CASE UndefineImageVm(w) \/ RemovedImageVm(w) \/ FreeImageVm(w) \/ ClearImageVm(w)
  BY <1>2, UndefineImageVmTyped, RemovedImageVmTyped, FreeImageVmTyped, ClearImageVmTyped
<1>3. CASE ClaimForImage(w) \/ GetImage(w) \/ SaveImageVm(w) \/ DefineImageVm(w)
           \/ ResetImageVm(w) \/ UnclaimForImage(w) \/ CreatedImageVm(w)
  BY <1>3, ClaimForImageTyped, GetImageTyped, SaveImageVmTyped, DefineImageVmTyped, ResetImageVmTyped,
     UnclaimForImageTyped, CreatedImageVmTyped
<1>4. ASSUME NEW i \in Images,
             \/ AddImage(w, i) \/ SnapUpdate(w, i) \/ EnableUpdate(w, i) \/ DeleteImage(w, i)
             \/ ImageVmPower(w, i)
      PROVE  TInv' /\ (request' = request \/ Moved(w))
  BY <1>4, AddImageTyped, SnapUpdateTyped, EnableUpdateTyped, DeleteImageTyped, ImageVmPowerTyped
<1>5. ASSUME NEW i \in Images, NEW op \in ImageOps, EndImageVm(w, op, i)
      PROVE  TInv' /\ Moved(w)
  BY <1>5, EndImageVmTyped
<1>6. ASSUME NEW i \in Images, NEW op \in ImageOps, NEW h \in Hosts, StartImageVm(w, op, i, h)
      PROVE  TInv' /\ Moved(w)
  BY <1>6, StartImageVmTyped
<1>7. QED
  BY <1>1, <1>2, <1>3, <1>4, <1>5, <1>6 DEF ImageStep

\* The same for the actions about machines.
LEMMA MachineStepTyped ==
    ASSUME TInv, UNCHANGED setting, NEW w \in Threads, MachineStep(w)
    PROVE  TInv' /\ (request' = request \/ Moved(w))
<1>1. CASE CloneDisk(w) \/ ResizeNewDisk(w) \/ SaveMachine(w) \/ DefineMachine(w) \/ RemoveNewDisk(w)
  BY <1>1, CloneDiskTyped, ResizeNewDiskTyped, SaveMachineTyped, DefineMachineTyped, RemoveNewDiskTyped
<1>2. CASE RenameSysDisk(w) \/ CloneNewDisk(w) \/ DefineNew(w) \/ SaveNew(w) \/ RemoveNew(w)
           \/ RenameBack(w) \/ RemountDevices(w)
  BY <1>2, RenameSysDiskTyped, CloneNewDiskTyped, DefineNewTyped, SaveNewTyped, RemoveNewTyped,
     RenameBackTyped, RemountTyped
<1>3. CASE ReadSize(w) \/ SaveSize(w) \/ ResizeSysDisk(w) \/ TakeSysSnap(w) \/ SaveSysSnap(w)
           \/ RemoveSysSnap(w) \/ DeleteSysSnapRow(w) \/ RollbackDisk(w)
  BY <1>3, ReadSizeTyped, SaveSizeTyped, ResizeSysDiskTyped, TakeSysSnapTyped, SaveSysSnapTyped,
     RemoveSysSnapTyped, DeleteSysSnapRowTyped, RollbackDiskTyped
<1>4. CASE ReleaseExists(w) \/ ReleaseSnap(w) \/ ReleaseClone(w) \/ ReleaseFlatten(w)
           \/ ReleaseRemove(w) \/ ReleaseUndoSnap(w) \/ ReleaseUnsnap(w)
  BY <1>4, ReleaseExistsTyped, ReleaseSnapTyped, ReleaseCloneTyped, ReleaseFlattenTyped,
     ReleaseRemoveTyped, ReleaseUnsnapTyped
<1>5. ASSUME NEW v \in Machines,
             \/ MachinePower(w, v) \/ CreateSysSnap(w, v)
             \/ \E size \in 1 .. MaxSize :
                  \/ ExpandSysDisk(w, v, size)
                  \/ \E i \in Images : CreateMachine(w, v, i, size)
             \/ \E i \in Images : ChangeSysDisk(w, v, i) \/ ReleaseImage(w, v, i)
             \/ \E op \in ImageOps, s \in 1 .. MaxTick : AboutSysSnap(w, op, v, s)
      PROVE  TInv' /\ (request' = request \/ Moved(w))
  <2>1. CASE MachinePower(w, v) \/ CreateSysSnap(w, v)
    BY <2>1, MachinePowerTyped, CreateSysSnapTyped
  <2>2. ASSUME NEW size \in 1 .. MaxSize, ExpandSysDisk(w, v, size) PROVE TInv' /\ Moved(w)
    BY <2>2, ExpandSysDiskTyped
  <2>3. ASSUME NEW size \in 1 .. MaxSize, NEW i \in Images, CreateMachine(w, v, i, size)
        PROVE  TInv' /\ Moved(w)
    BY <2>3, CreateMachineTyped
  <2>4. ASSUME NEW i \in Images, ChangeSysDisk(w, v, i) \/ ReleaseImage(w, v, i)
        PROVE  TInv' /\ (request' = request \/ Moved(w))
    BY <2>4, ChangeSysDiskTyped, ReleaseImageTyped
  <2>5. ASSUME NEW op \in ImageOps, NEW s \in 1 .. MaxTick, AboutSysSnap(w, op, v, s)
        PROVE  TInv' /\ Moved(w)
    BY <2>5, AboutSysSnapTyped
  <2>6. QED
    BY <1>5, <2>1, <2>2, <2>3, <2>4, <2>5
<1>6. QED
  BY <1>1, <1>2, <1>3, <1>4, <1>5 DEF MachineStep

\* A step gives TInv again and moves one request at most.
LEMMA StepTyped ==
    ASSUME TInv, ImagesNext
    PROVE  TInv' /\ UNCHANGED setting /\ (request' = request \/ \E w \in Threads : Moved(w))
<1>1. UNCHANGED setting /\ \E w \in Threads : ImageStep(w) \/ MachineStep(w)
  BY DEF ImagesNext
<1>2. QED
  BY <1>1, ImageStepTyped, MachineStepTyped

\* So does none.
LEMMA StutterTyped ==
    ASSUME TInv, UNCHANGED imageVars
    PROVE  TInv'
<1>1. HostsInv'
  BY HostsKept DEF TInv, imageVars
<1>2. QED
  BY <1>1 DEF TInv, imageVars, PoolSound, Sound, Formed

\* At the start the types hold.
LEMMA InitTyped == ImagesInit => TInv
<1> SUFFICES ASSUME ImagesInit PROVE TInv
  OBVIOUS
<1> DEFINE i == CHOOSE i \in Images : TRUE
           v == CHOOSE v \in Machines : TRUE
           base == [NoImage EXCEPT !.size = 1, !.snaps = [NoImage.snaps EXCEPT ![1] = 1], !.protected = {1}]
           disk == [NoImage EXCEPT !.size = 1, !.parent = <<i, 1>>]
<1>1. i \in Images /\ v \in Machines /\ i \in Keys /\ v \in Keys /\ i # v
  BY Names, ImageAssumption
<1>2. /\ imagerow = [j \in Images |->
                       IF j = i THEN [NoImageRow EXCEPT !.live = TRUE, !.enable = TRUE, !.snap = 1]
                       ELSE NoImageRow]
      /\ machine = [u \in Machines |->
                       IF u = v THEN [live |-> TRUE, image |-> i, image_parent |-> i,
                                      image_snap |-> 1, sys_disk_size |-> 1]
                       ELSE NoMachine]
      /\ machdom = [u \in Machines |-> IF u = v THEN "off" ELSE "none"]
      /\ pool = [EmptyPool EXCEPT ![i] = base, ![v] = disk]
  BY DEF ImagesInit
<1> HIDE DEF i, v
<1>3. NoImage \in RbdImage /\ 1 \in 1 .. MaxTick /\ 1 \in 1 .. MaxSize
  BY NoImageSound, RbdAssumption DEF Sound
<1>4. PoolSound(pool, 1)
  <2>1. PoolSound(EmptyPool, 1)
    BY NoImageSound, <1>3 DEF PoolSound, EmptyPool
  <2>2. Sound(base, 1)
    <3> DEFINE snaps == [NoImage.snaps EXCEPT ![1] = 1]
    <3>3. /\ snaps \in [1 .. MaxTick -> 0 .. MaxSize] /\ snaps[1] = 1
          /\ \A s \in (1 .. MaxTick) \ {1} : snaps[s] = 0
      BY <1>3, RbdAssumption DEF NoImage
    <3>4. base = [NoImage EXCEPT !.size = 1, !.snaps = snaps, !.protected = {1}]
      OBVIOUS
    <3> HIDE DEF snaps, base
    <3>5. base \in RbdImage /\ base.size = 1 /\ base.protected = {1} /\ base.snaps = snaps
      BY <1>3, <3>3, <3>4, RbdAssumption DEF RbdImage
    <3>1. /\ base \in RbdImage /\ base.size = 1 /\ base.protected = {1} /\ base.snaps[1] = 1
          /\ \A s \in (1 .. MaxTick) \ {1} : base.snaps[s] = 0
      BY <3>3, <3>5
    <3>2. QED
      BY <3>1, RbdAssumption DEF Sound
  <2>3. Sound(disk, 1)
    <3>3. <<i, 1>> \in Keys \X (1 .. MaxTick) /\ NoImage.protected = {}
          /\ \A s \in 1 .. MaxTick : NoImage.snaps[s] = 0
      BY <1>1, <1>3 DEF NoImage
    <3>4. disk \in RbdImage /\ disk.size = 1 /\ disk.protected = NoImage.protected /\ disk.snaps = NoImage.snaps
      <4>1. 1 \in 0 .. MaxSize /\ <<i, 1>> \in (Keys \X (1 .. MaxTick)) \cup {NoParent}
        BY <1>3, <3>3, RbdAssumption
      <4>2. QED
        BY <1>3, <4>1 DEF RbdImage
    <3>1. /\ disk \in RbdImage /\ disk.size = 1 /\ disk.protected = {}
          /\ \A s \in 1 .. MaxTick : disk.snaps[s] = 0
      BY <3>3, <3>4
    <3> HIDE DEF disk
    <3>2. QED
      BY <3>1, RbdAssumption DEF Sound
  <2> HIDE DEF base, disk
  <2>4. PoolSound([EmptyPool EXCEPT ![i] = base], 1)
    BY <1>1, <2>1, <2>2, OneImageSound
  <2>5. PoolSound([[EmptyPool EXCEPT ![i] = base] EXCEPT ![v] = disk], 1)
    BY <1>1, <2>3, <2>4, OneImageSound
  <2>6. QED
    BY <1>2, <2>5
<1>5. HostsInv
  BY HostAssumption DEF ImagesInit, HostInit, HostsInv, HostTypeOK, HostRow, NoOvercommit
<1>6. imagerow \in [Images -> ImageRow]
  <2> DEFINE row == [NoImageRow EXCEPT !.live = TRUE, !.enable = TRUE, !.snap = 1]
  <2>1. NoImageRow \in ImageRow
    BY RbdAssumption, ImageAssumption DEF NoImageRow, ImageRow
  <2>2. row \in ImageRow
    <3>1. 1 \in 0 .. MaxTick /\ TRUE \in BOOLEAN
      BY <1>3, RbdAssumption
    <3>2. QED
      BY <2>1, <3>1 DEF ImageRow
  <2> HIDE DEF row
  <2>3. imagerow = [j \in Images |-> IF j = i THEN row ELSE NoImageRow]
    BY <1>2 DEF row
  <2>4. QED
    BY <2>1, <2>2, <2>3
<1>7. machine \in [Machines -> MachineRow]
  BY <1>1, <1>2, <1>3, RbdAssumption DEF MachineRow, NoMachine
<1>8. /\ setting \in Settings
      /\ machdom \in [Machines -> Power]
      /\ snaprow \in [1 .. MaxTick -> Machines \cup {NoOne}]
      /\ tick = 1 /\ tick \in 0 .. MaxTick
      /\ imgdom \in [1 .. MaxUuid -> Power]
      /\ last_uuid \in 0 .. MaxUuid
      /\ json_status_code \in {200, 400}
      /\ request = [w \in Threads |-> NoRequest]
  BY <1>2, <1>3, ImageAssumption DEF ImagesInit, Power
<1>9. request \in [Threads -> RequestState] /\ \A w \in Threads : Formed(request[w])
  BY <1>8, NoRequestFormed DEF Formed
<1>10. QED
  BY <1>4, <1>5, <1>6, <1>7, <1>8, <1>9 DEF TInv

\* TInv is an invariant.
LEMMA TypesInvariant == ImagesSpec => []TInv
<1>1. TInv /\ [ImagesNext]_imageVars => TInv'
  BY StepTyped, StutterTyped
<1>2. QED
  BY InitTyped, <1>1, PTL DEF ImagesSpec

\* Types: the rows, the pool, the domains and the requests are what they are
\* declared to be.
THEOREM ImagesTypeCorrect == ImagesSpec => []ImagesTypeOK
<1>1. TInv => ImagesTypeOK
  BY DEF TInv, ImagesTypeOK, HostsInv, PoolSound, RbdPools
<1>2. QED
  BY <1>1, TypesInvariant, PTL

\* The vms of images never take more of a host than it has, whatever requests
\* meet (deduct_delta, the conditional UPDATE).
THEOREM ImagesNeverOvercommit == ImagesSpec => []NoOvercommit
<1>1. TInv => NoOvercommit
  BY DEF TInv, HostsInv
<1>2. QED
  BY <1>1, TypesInvariant, PTL

-----------------------------------------------------------------------------
(* Which requests meet.                                                    *)

\* Requests about the same image or machine are of kinds that the setting lets
\* meet; a change of a system may meet any on its image.
Meeting ==
    \A x, y \in Threads :
       /\ x # y
       /\ \/ /\ request[x].image = request[y].image /\ request[x].image # NoOne
             /\ request[x].op # "change_sys_disk" /\ request[y].op # "change_sys_disk"
          \/ request[x].machine = request[y].machine /\ request[x].machine # NoOne
       => Meet(request[x].op, request[y].op)

MInv ==
    /\ TInv
    /\ \A w \in Threads : request[w] # NoRequest => request[w].op \in setting.ops
    /\ Meeting

\* After a step it is still the setting that says which requests meet.
LEMMA StepMeeting ==
    ASSUME MInv, ImagesNext
    PROVE  MInv'
<1>1. TInv' /\ UNCHANGED setting /\ (request' = request \/ \E w \in Threads : Moved(w))
  BY StepTyped DEF MInv
<1>2. CASE request' = request
  BY <1>1, <1>2 DEF MInv, Meeting, Meet
<1>3. ASSUME NEW w \in Threads, Moved(w)
      PROVE  MInv'
  <2>1. /\ \A x \in Threads \ {w} : request'[x] = request[x]
        /\ Kept(request[w], request'[w]) \/ Admitted(w, request'[w])
    BY <1>3 DEF Moved
  <2>2. \A x \in Threads : request'[x] # NoRequest => request'[x].op \in setting.ops
    <3>1. ASSUME Kept(request[w], request'[w]), request'[w] # NoRequest
          PROVE  request[w] # NoRequest /\ request'[w].op = request[w].op
      BY <1>3, <3>1 DEF Kept, Moved, Formed, Stages, NoRequest
    <3>2. QED
      BY <2>1, <3>1 DEF MInv, Admitted
  <2>3. NoRequest.image = NoOne /\ NoRequest.machine = NoOne
    BY DEF NoRequest
  <2>4. ASSUME NEW x \in Threads \ {w},
               \/ /\ request[x].image = request'[w].image /\ request[x].image # NoOne
                  /\ request[x].op # "change_sys_disk" /\ request'[w].op # "change_sys_disk"
               \/ request[x].machine = request'[w].machine /\ request[x].machine # NoOne
        PROVE  Meet(request[x].op, request'[w].op)
    BY <2>1, <2>3, <2>4 DEF MInv, Meeting, Kept, Admitted, Engaged
  <2>5. \A a, b : Meet(a, b) <=> Meet(b, a)
    BY DEF Meet
  <2>6. Meeting'
    <3> SUFFICES ASSUME NEW x \in Threads, NEW y \in Threads, x # y,
                        \/ /\ request'[x].image = request'[y].image /\ request'[x].image # NoOne
                           /\ request'[x].op # "change_sys_disk" /\ request'[y].op # "change_sys_disk"
                        \/ request'[x].machine = request'[y].machine /\ request'[x].machine # NoOne
                 PROVE  Meet(request'[x].op, request'[y].op)
      BY <1>1 DEF Meeting, Meet
    <3>1. CASE x = w
      BY <2>1, <2>4, <2>5, <3>1
    <3>2. CASE y = w
      BY <2>1, <2>4, <3>2
    <3>3. CASE x # w /\ y # w
      BY <2>1, <3>3 DEF MInv, Meeting
    <3>4. QED
      BY <3>1, <3>2, <3>3
  <2>7. QED
    BY <1>1, <2>2, <2>6 DEF MInv
<1>4. QED
  BY <1>1, <1>2, <1>3

\* So it is after none.
LEMMA StutterMeeting ==
    ASSUME MInv, UNCHANGED imageVars
    PROVE  MInv'
<1>1. TInv'
  BY StutterTyped DEF MInv
<1>2. QED
  BY <1>1 DEF MInv, Meeting, Meet, imageVars

\* At the start there is no request.
LEMMA InitMeeting == ImagesInit => MInv
<1> SUFFICES ASSUME ImagesInit PROVE MInv
  OBVIOUS
<1>1. \A w \in Threads : request[w] = NoRequest /\ NoRequest.image = NoOne /\ NoRequest.machine = NoOne
  BY DEF ImagesInit, NoRequest
<1>2. QED
  BY <1>1, InitTyped DEF MInv, Meeting

-----------------------------------------------------------------------------
(* The vms of images: what requests know of the columns of the row, the    *)
(* columns of the hosts and the domains.                                   *)

\* Requests that read or write the vm columns of a row, or delete it.
VmOnly == {"create_image_vm", "unshelve_image_vm", "shelve_image_vm", "delshelve_image_vm",
           "delete_image_vm"}

VmOps == VmOnly \cup {"delete_image", "snap_update", "enable_update"}

\* There are no vms of images, or no two requests that are about the vm columns
\* of an image at a time.
NoVms(s) == "create_image_vm" \notin s.ops

VmsApart(s) ==
    \A a, b \in VmOps \cap s.ops : <<a, b>> \notin s.overlaps

VmSetting(s) == NoVms(s) \/ VmsApart(s)

SamePlace(row, other) == row.vm_uuid = other.vm_uuid /\ row.vm_host = other.vm_host

NoPlace(row) == row.vm_uuid = 0 /\ row.vm_host = NoOne

\* What a request knows of the vm columns of its image.
VmKnows(q, row) ==
    /\ q.pc \in {"claim", "get_image", "save_vm", "unclaim"} => row.vm_uuid = 0
    /\ q.pc \in {"define_vm", "reset_vm", "vm_created_add"}
       => row.vm_uuid # 0 /\ row.vm_uuid = q.row.vm_uuid /\ row.vm_host = q.host
    /\ q.pc \in {"rename_base", "undefine"} => SamePlace(q.row, row)
    /\ q.pc = "rename_base" => q.host = NoOne
    /\ q.pc = "undefine" => row.vm_uuid # 0
    /\ q.pc \in {"vm_created_sub", "free"} => row.vm_uuid # 0 /\ row.vm_host = q.host
    /\ q.pc \in {"clear", "image_rowdel"}
       => (row.vm_uuid # 0 /\ row.vm_host = q.host) \/ (row.vm_uuid = 0 /\ q.host = NoOne)
    /\ q.op = "delshelve_image_vm" => row.vm_uuid = 0 /\ q.host = NoOne
    /\ q.op \in {"snap_update", "enable_update"} => q.row.live /\ SamePlace(q.row, row)
    /\ q.op \in {"add_image", "release"} => NoPlace(q.row)

PlaceSound(row, last) ==
    /\ ~row.live => NoPlace(row)
    /\ row.vm_uuid # 0 => row.vm_host \in Hosts /\ row.vm_uuid <= last

VmRows ==
    /\ \A i \in Images : PlaceSound(imagerow[i], last_uuid)
    /\ \A i, j \in Images :
          imagerow[i].vm_uuid # 0 /\ imagerow[i].vm_uuid = imagerow[j].vm_uuid => i = j
    /\ \A w \in Threads : VmKnows(request[w], imagerow[request[w].image])
    /\ NoVms(setting)
       => /\ \A i \in Images : NoPlace(imagerow[i])
          /\ \A w \in Threads : request[w].op \notin VmOnly

VmInv == MInv /\ VmSetting(setting) /\ VmRows

\* Where a domain is not there although the row names the vm.
DomPcs == {"define_vm", "reset_vm", "vm_created_sub", "free", "clear", "image_rowdel"}

DomInv ==
    /\ \A u \in 1 .. MaxUuid : imgdom[u] # "none" => \E i \in Images : imagerow[i].vm_uuid = u
    /\ \A i \in Images :
          imagerow[i].vm_uuid # 0 /\ imgdom[imagerow[i].vm_uuid] = "none"
          => \E w \in Threads : request[w].image = i /\ request[w].pc \in DomPcs
    /\ \A w \in Threads :
          LET uuid == imagerow[request[w].image].vm_uuid IN
          request[w].pc \in DomPcs /\ uuid # 0 => imgdom[uuid] = "none"

\* What a step keeps, of what fails.
VmKept ==
    /\ VmInv'
    /\ ImageVmLedger /\ ~Breaks("no_address") => ImageVmLedger'
    /\ DomInv /\ ~Breaks("host_down") => DomInv'

\* The parts of what a host carries that a row and a request stand for.
Bit(P) == IF P THEN 1 ELSE 0

ClaimPcs == {"get_image", "save_vm", "unclaim"}

FreedPcs == {"clear", "image_rowdel"}

UncountedPcs == {"define_vm", "reset_vm", "vm_created_add", "free", "clear", "image_rowdel"}

PlacedOn(row, h) == row.vm_uuid # 0 /\ row.vm_host = h

HeldAt(q, pcs, h) == q.pc \in pcs /\ q.host = h

Held(row, q, h) ==
    Bit(PlacedOn(row, h)) + Bit(HeldAt(q, ClaimPcs, h)) - Bit(HeldAt(q, FreedPcs, h))

Counted(row, q, h) == Bit(PlacedOn(row, h)) - Bit(HeldAt(q, UncountedPcs, h))

\* A finite set changes at one element at most.
LEMMA OneMember ==
    ASSUME NEW S, IsFiniteSet(S), NEW A \in SUBSET S, NEW B \in SUBSET S, NEW x,
           \A y \in S \ {x} : y \in B <=> y \in A
    PROVE  /\ Cardinality(A) \in Nat
           /\ Cardinality(B) = Cardinality(A) + Bit(x \in B) - Bit(x \in A)
<1>1. IsFiniteSet(A) /\ IsFiniteSet(B)
  BY FS_Subset
<1>2. Cardinality(A) \in Nat /\ Cardinality(B) \in Nat
  BY <1>1, FS_CardinalityType
<1>3. CASE x \in A /\ x \notin B
  BY <1>1, <1>2, <1>3, FS_RemoveElement DEF Bit
<1>4. CASE x \notin A /\ x \in B
  BY <1>1, <1>2, <1>4, FS_AddElement DEF Bit
<1>5. CASE x \in A <=> x \in B
  BY <1>2, <1>5 DEF Bit
<1>6. QED
  BY <1>3, <1>4, <1>5

\* The ledger after a step that changes one row and one request, and the columns
\* by what these stand for.
LEMMA LedgerMove ==
    ASSUME TInv, ImageVmLedger, NEW w \in Threads, NEW i \in Images, Moved(w), TInv',
           \A j \in Images \ {i} : imagerow'[j] = imagerow[j],
           \A h \in Hosts :
              LET held == Held(imagerow'[i], request'[w], h) - Held(imagerow[i], request[w], h) IN
              /\ host'[h].vcpu_allocated = host[h].vcpu_allocated + held
              /\ host'[h].mem_allocated = host[h].mem_allocated + held
              /\ host'[h].vm_created = host[h].vm_created
                    + (Counted(imagerow'[i], request'[w], h) - Counted(imagerow[i], request[w], h))
    PROVE  ImageVmLedger'
<1> SUFFICES ASSUME NEW h \in Hosts
             PROVE  LET rows == Cardinality(RowsOnHost(h)')
                        claimed == Cardinality(RequestsAt(ClaimPcs, h)')
                        freed == Cardinality(RequestsAt(FreedPcs, h)')
                        uncounted == Cardinality(RequestsAt(UncountedPcs, h)')
                    IN /\ host'[h].vcpu_allocated = rows + claimed - freed
                       /\ host'[h].mem_allocated = rows + claimed - freed
                       /\ host'[h].vm_created = rows - uncounted
  BY DEF ImageVmLedger, ClaimPcs, FreedPcs, UncountedPcs
<1>1. IsFiniteSet(Images) /\ IsFiniteSet(Threads)
  BY ImageAssumption
<1>2. /\ Cardinality(RowsOnHost(h)) \in Nat
      /\ Cardinality(RowsOnHost(h)')
            = Cardinality(RowsOnHost(h)) + Bit(PlacedOn(imagerow'[i], h)) - Bit(PlacedOn(imagerow[i], h))
  <2> DEFINE A == RowsOnHost(h)
             B == RowsOnHost(h)'
  <2>1. A \in SUBSET Images /\ B \in SUBSET Images /\ \A y \in Images \ {i} : y \in B <=> y \in A
    BY DEF RowsOnHost
  <2>2. (i \in A <=> PlacedOn(imagerow[i], h)) /\ (i \in B <=> PlacedOn(imagerow'[i], h))
    BY DEF RowsOnHost, PlacedOn
  <2> HIDE DEF A, B
  <2>3. Cardinality(A) \in Nat /\ Cardinality(B) = Cardinality(A) + Bit(i \in B) - Bit(i \in A)
    BY <1>1, <2>1, OneMember
  <2>4. Bit(i \in A) = Bit(PlacedOn(imagerow[i], h)) /\ Bit(i \in B) = Bit(PlacedOn(imagerow'[i], h))
    BY <2>2 DEF Bit
  <2>5. QED
    BY <2>3, <2>4 DEF A, B
<1>3. ASSUME NEW pcs
      PROVE  /\ Cardinality(RequestsAt(pcs, h)) \in Nat
             /\ Cardinality(RequestsAt(pcs, h)')
                   = Cardinality(RequestsAt(pcs, h)) + Bit(HeldAt(request'[w], pcs, h)) - Bit(HeldAt(request[w], pcs, h))
  <2> DEFINE A == RequestsAt(pcs, h)
             B == {x \in Threads : request'[x].pc \in pcs /\ request'[x].host = h}
  <2>1. A \in SUBSET Threads /\ B \in SUBSET Threads /\ \A y \in Threads \ {w} : y \in B <=> y \in A
    BY DEF RequestsAt, Moved
  <2>2. (w \in A <=> HeldAt(request[w], pcs, h)) /\ (w \in B <=> HeldAt(request'[w], pcs, h))
    BY DEF RequestsAt, HeldAt
  <2>6. B = RequestsAt(pcs, h)'
    BY DEF RequestsAt
  <2> HIDE DEF A, B
  <2>3. Cardinality(A) \in Nat /\ Cardinality(B) = Cardinality(A) + Bit(w \in B) - Bit(w \in A)
    BY <1>1, <2>1, OneMember
  <2>4. Bit(w \in A) = Bit(HeldAt(request[w], pcs, h)) /\ Bit(w \in B) = Bit(HeldAt(request'[w], pcs, h))
    BY <2>2 DEF Bit
  <2>5. QED
    BY <2>3, <2>4, <2>6 DEF A
<1>4. \A P : Bit(P) \in Int
  BY DEF Bit
<1>5. host[h] \in HostRow /\ host'[h] \in HostRow
  BY DEF TInv, HostsInv, HostTypeOK
<1>6. /\ host[h].vcpu_allocated = Cardinality(RowsOnHost(h)) + Cardinality(RequestsAt(ClaimPcs, h))
                                     - Cardinality(RequestsAt(FreedPcs, h))
      /\ host[h].mem_allocated = host[h].vcpu_allocated
      /\ host[h].vm_created = Cardinality(RowsOnHost(h)) - Cardinality(RequestsAt(UncountedPcs, h))
  BY DEF ImageVmLedger, ClaimPcs, FreedPcs, UncountedPcs
<1>7. /\ Cardinality(RequestsAt(ClaimPcs, h)) \in Nat
      /\ Cardinality(RequestsAt(ClaimPcs, h)') = Cardinality(RequestsAt(ClaimPcs, h))
            + Bit(HeldAt(request'[w], ClaimPcs, h)) - Bit(HeldAt(request[w], ClaimPcs, h))
      /\ Cardinality(RequestsAt(FreedPcs, h)) \in Nat
      /\ Cardinality(RequestsAt(FreedPcs, h)') = Cardinality(RequestsAt(FreedPcs, h))
            + Bit(HeldAt(request'[w], FreedPcs, h)) - Bit(HeldAt(request[w], FreedPcs, h))
      /\ Cardinality(RequestsAt(UncountedPcs, h)) \in Nat
      /\ Cardinality(RequestsAt(UncountedPcs, h)') = Cardinality(RequestsAt(UncountedPcs, h))
            + Bit(HeldAt(request'[w], UncountedPcs, h)) - Bit(HeldAt(request[w], UncountedPcs, h))
  BY <1>3
<1>8. /\ host'[h].vcpu_allocated = host[h].vcpu_allocated
            + (Held(imagerow'[i], request'[w], h) - Held(imagerow[i], request[w], h))
      /\ host'[h].mem_allocated = host[h].mem_allocated
            + (Held(imagerow'[i], request'[w], h) - Held(imagerow[i], request[w], h))
      /\ host'[h].vm_created = host[h].vm_created
            + (Counted(imagerow'[i], request'[w], h) - Counted(imagerow[i], request[w], h))
  OBVIOUS
<1> DEFINE a == Cardinality(RowsOnHost(h))
           b == Cardinality(RequestsAt(ClaimPcs, h))
           c == Cardinality(RequestsAt(FreedPcs, h))
           d == Cardinality(RequestsAt(UncountedPcs, h))
           a2 == Cardinality(RowsOnHost(h)')
           b2 == Cardinality(RequestsAt(ClaimPcs, h)')
           c2 == Cardinality(RequestsAt(FreedPcs, h)')
           d2 == Cardinality(RequestsAt(UncountedPcs, h)')
           p == Bit(PlacedOn(imagerow[i], h))
           p2 == Bit(PlacedOn(imagerow'[i], h))
           q == Bit(HeldAt(request[w], ClaimPcs, h))
           q2 == Bit(HeldAt(request'[w], ClaimPcs, h))
           r == Bit(HeldAt(request[w], FreedPcs, h))
           r2 == Bit(HeldAt(request'[w], FreedPcs, h))
           s == Bit(HeldAt(request[w], UncountedPcs, h))
           s2 == Bit(HeldAt(request'[w], UncountedPcs, h))
<1>9. /\ a \in Nat /\ b \in Nat /\ c \in Nat /\ d \in Nat
      /\ p \in Int /\ p2 \in Int /\ q \in Int /\ q2 \in Int /\ r \in Int /\ r2 \in Int /\ s \in Int /\ s2 \in Int
      /\ a2 = a + p2 - p /\ b2 = b + q2 - q /\ c2 = c + r2 - r /\ d2 = d + s2 - s
      /\ host[h].vcpu_allocated = a + b - c /\ host[h].mem_allocated = a + b - c
      /\ host[h].vm_created = a - d
      /\ host'[h].vcpu_allocated = host[h].vcpu_allocated + ((p2 + q2 - r2) - (p + q - r))
      /\ host'[h].mem_allocated = host[h].mem_allocated + ((p2 + q2 - r2) - (p + q - r))
      /\ host'[h].vm_created = host[h].vm_created + ((p2 - s2) - (p - s))
  BY <1>2, <1>4, <1>6, <1>7, <1>8 DEF Held, Counted
<1> HIDE DEF a, b, c, d, a2, b2, c2, d2, p, p2, q, q2, r, r2, s, s2
<1>10. /\ host'[h].vcpu_allocated = a2 + b2 - c2 /\ host'[h].mem_allocated = a2 + b2 - c2
       /\ host'[h].vm_created = a2 - d2
  BY <1>9
<1>11. QED
  BY <1>10 DEF a2, b2, c2, d2

\* A request that is not about an image is not at a step about its vm.
LEMMA OffImage ==
    ASSUME NEW q, Formed(q), q.image \notin Images, NEW row
    PROVE  VmKnows(q, row)
<1>1. CASE q.pc = "idle"
  BY <1>1, IdleRequest DEF NoRequest, VmKnows
<1>2. CASE q.pc # "idle"
  BY <1>2, AtWork DEF MachineOnly, Stages, VmKnows
<1>3. QED
  BY <1>1, <1>2

\* A request that is not about the vm knows nothing of the row.
LEMMA NotAboutVm ==
    ASSUME NEW q, Formed(q), q.op \notin VmOps, NEW row, NEW other, VmKnows(q, row)
    PROVE  VmKnows(q, other)
<1>1. q.pc \notin {"claim", "get_image", "save_vm", "unclaim", "define_vm", "reset_vm", "vm_created_add",
                   "rename_base", "undefine", "vm_created_sub", "free", "clear", "image_rowdel"}
  BY OpsAt DEF VmOps, VmOnly
<1>2. QED
  BY <1>1 DEF VmKnows, VmOps, VmOnly

\* What a request knows is about the columns of the vm alone.
LEMMA SamePlaceKnown ==
    ASSUME NEW q, NEW row, NEW other, SamePlace(row, other), VmKnows(q, row)
    PROVE  VmKnows(q, other)
  BY DEF VmKnows, SamePlace

\* Where there are vms, one request is about that of an image.
LEMMA AloneHere ==
    ASSUME VmInv, ~NoVms(setting), NEW w \in Threads, request[w].op \in VmOps, request[w].image \in Images,
           NEW x \in Threads \ {w}, request[x].image = request[w].image
    PROVE  request[x].op \notin VmOps
<1>1. VmsApart(setting)
  BY DEF VmInv, VmSetting
<1>2. SUFFICES ASSUME request[x].op \in VmOps PROVE FALSE
  OBVIOUS
<1>3. /\ request[w].image # NoOne
      /\ request[x].op # "change_sys_disk" /\ request[w].op # "change_sys_disk"
  BY <1>2, Names DEF VmOps, VmOnly
<1>4. Meet(request[w].op, request[x].op)
  BY <1>3 DEF VmInv, MInv, Meeting
<1>5. request[w] # NoRequest /\ request[x] # NoRequest
  BY <1>2 DEF NoRequest, VmOps, VmOnly
<1>6. request[w].op \in setting.ops /\ request[x].op \in setting.ops
  BY <1>5 DEF VmInv, MInv
<1>7. QED
  BY <1>1, <1>2, <1>4, <1>6 DEF VmsApart, Meet

\* There are where a row or a request is about one.
LEMMA AloneAtVm ==
    ASSUME VmInv, NEW w \in Threads, request[w].op \in VmOps, request[w].image \in Images,
           request[w].op \in VmOnly \/ imagerow[request[w].image].vm_uuid # 0,
           NEW x \in Threads \ {w}, request[x].image = request[w].image
    PROVE  request[x].op \notin VmOps
<1>1. ~NoVms(setting)
  BY DEF VmInv, VmRows, NoPlace
<1>2. QED
  BY <1>1, AloneHere

\* The columns of one row change, and one request moves.
LEMMA RowsMove ==
    ASSUME VmInv, MInv', UNCHANGED setting, NEW w \in Threads, NEW i \in Images, Moved(w),
           last_uuid <= last_uuid',
           \A j \in Images \ {i} : imagerow'[j] = imagerow[j],
           PlaceSound(imagerow'[i], last_uuid'),
           imagerow'[i].vm_uuid # 0 => \A j \in Images \ {i} : imagerow[j].vm_uuid # imagerow'[i].vm_uuid,
           \A x \in Threads \ {w} : request[x].image = i => VmKnows(request[x], imagerow'[i]),
           VmKnows(request'[w], imagerow'[request'[w].image]),
           NoVms(setting) => NoPlace(imagerow'[i]) /\ request'[w].op \notin VmOnly
    PROVE  VmInv'
<1>1. \A j \in Images : PlaceSound(imagerow'[j], last_uuid')
  <2>1. /\ last_uuid \in 0 .. MaxUuid /\ last_uuid' \in 0 .. MaxUuid
        /\ \A j \in Images : imagerow[j].vm_uuid \in 0 .. MaxUuid
    BY DEF VmInv, MInv, TInv, ImageRow
  <2>2. ASSUME NEW j \in Images \ {i}
        PROVE  PlaceSound(imagerow[j], last_uuid')
    BY <2>1, ImageAssumption DEF VmInv, VmRows, PlaceSound
  <2>3. QED
    BY <2>2
<1>2. \A j, k \in Images :
         imagerow'[j].vm_uuid # 0 /\ imagerow'[j].vm_uuid = imagerow'[k].vm_uuid => j = k
  BY DEF VmInv, VmRows
<1>3. ASSUME NEW x \in Threads
      PROVE  VmKnows(request'[x], imagerow'[request'[x].image])
  <2>1. CASE x = w
    BY <2>1
  <2>2. CASE x # w
    <3>1. request'[x] = request[x]
      BY <2>2 DEF Moved
    <3>2. CASE request[x].image = i
      BY <2>2, <3>1, <3>2
    <3>3. CASE request[x].image \in Images \ {i}
      BY <3>1, <3>3 DEF VmInv, VmRows
    <3>4. CASE request[x].image \notin Images
      BY <3>1, <3>4, OffImage DEF VmInv, MInv, TInv
    <3>5. QED
      BY <3>2, <3>3, <3>4
  <2>3. QED
    BY <2>1, <2>2
<1>4. NoVms(setting)
      => /\ \A j \in Images : NoPlace(imagerow'[j])
         /\ \A x \in Threads : request'[x].op \notin VmOnly
  BY DEF VmInv, VmRows, Moved
<1>5. VmRows'
  BY <1>1, <1>2, <1>3, <1>4 DEF VmRows
<1>6. VmSetting(setting')
  BY DEF VmInv
<1>7. QED
  BY <1>5, <1>6 DEF VmInv

\* No row changes.
LEMMA RowsStay ==
    ASSUME VmInv, MInv', UNCHANGED <<setting, imagerow, last_uuid>>, NEW w \in Threads, Moved(w),
           VmKnows(request'[w], imagerow[request'[w].image]),
           NoVms(setting) => request'[w].op \notin VmOnly
    PROVE  VmInv'
<1>1. PICK i \in Images : TRUE
  BY ImageAssumption
<1>2. last_uuid \in 0 .. MaxUuid
  BY DEF VmInv, MInv, TInv
<1>3. last_uuid <= last_uuid'
  BY <1>2, ImageAssumption
<1>4. PlaceSound(imagerow'[i], last_uuid')
  BY DEF VmInv, VmRows
<1>5. \A x \in Threads \ {w} : request[x].image = i => VmKnows(request[x], imagerow'[i])
  BY DEF VmInv, VmRows
<1>6. imagerow'[i].vm_uuid # 0 => \A j \in Images \ {i} : imagerow[j].vm_uuid # imagerow'[i].vm_uuid
  BY DEF VmInv, VmRows
<1>7. NoVms(setting) => NoPlace(imagerow'[i])
  BY DEF VmInv, VmRows
<1>8. QED
  BY <1>3, <1>4, <1>5, <1>6, <1>7, RowsMove

\* At these steps the host in a request is that of the vm.
LEMMA DomHost ==
    ASSUME NEW q, Formed(q), NEW row, VmKnows(q, row), NEW last, PlaceSound(row, last),
           q.pc \in DomPcs, q.host = NoOne
    PROVE  row.vm_uuid = 0
<1>1. q.pc # "idle"
  BY DEF DomPcs
<1>2. NoOne \notin Hosts
  BY Names
<1>3. CASE q.pc \in {"define_vm", "reset_vm"}
  BY <1>1, <1>2, <1>3, OpsAt, AboutAt
<1>4. CASE q.pc \in {"vm_created_sub", "free"}
  BY <1>2, <1>4 DEF VmKnows, PlaceSound
<1>5. CASE q.pc \in {"clear", "image_rowdel"}
  BY <1>2, <1>5 DEF VmKnows, PlaceSound
<1>6. QED
  BY <1>3, <1>4, <1>5 DEF DomPcs

\* A request at these steps is about an image.
LEMMA DomImage ==
    ASSUME NEW q, Formed(q), q.pc \in DomPcs
    PROVE  q.image \in Images
<1>1. q.pc # "idle"
  BY DEF DomPcs
<1>2. q.op \notin MachineOnly
  BY OpsAt DEF DomPcs, MachineOnly
<1>3. QED
  BY <1>1, <1>2, AboutAt

\* The ledger after a step of a request that stands for nothing before and
\* after it, and of a row that stands for what it did.
LEMMA QuietLedger ==
    ASSUME TInv, TInv', ImageVmLedger, UNCHANGED host, NEW w \in Threads, NEW i \in Images, Moved(w),
           \A j \in Images \ {i} : imagerow'[j] = imagerow[j],
           \A h \in Hosts : PlacedOn(imagerow'[i], h) <=> PlacedOn(imagerow[i], h),
           request[w].pc \notin ClaimPcs \cup UncountedPcs \/ request[w].host = NoOne,
           request'[w].pc \notin ClaimPcs \cup UncountedPcs \/ request'[w].host = NoOne
    PROVE  ImageVmLedger'
<1>1. ASSUME NEW h \in Hosts
      PROVE  /\ Held(imagerow'[i], request'[w], h) = Held(imagerow[i], request[w], h)
             /\ Counted(imagerow'[i], request'[w], h) = Counted(imagerow[i], request[w], h)
  <2>1. h # NoOne
    BY Names
  <2>2. ASSUME NEW pcs, pcs \in {ClaimPcs, FreedPcs, UncountedPcs}
        PROVE  Bit(HeldAt(request[w], pcs, h)) = 0 /\ Bit(HeldAt(request'[w], pcs, h)) = 0
    BY <2>1, <2>2 DEF ClaimPcs, FreedPcs, UncountedPcs, HeldAt, Bit
  <2>3. Bit(PlacedOn(imagerow'[i], h)) = Bit(PlacedOn(imagerow[i], h))
    BY DEF Bit
  <2>4. QED
    BY <2>2, <2>3 DEF Held, Counted
<1>2. \A h \in Hosts : /\ Held(imagerow[i], request[w], h) \in Int
                       /\ Counted(imagerow[i], request[w], h) \in Int
  BY DEF Held, Counted, Bit
<1>3. \A h \in Hosts : host[h].vcpu_allocated \in Int /\ host[h].mem_allocated \in Int /\ host[h].vm_created \in Int
  BY DEF TInv, HostsInv, HostTypeOK, HostRow
<1>4. ASSUME NEW h \in Hosts
      PROVE  LET held == Held(imagerow'[i], request'[w], h) - Held(imagerow[i], request[w], h) IN
             /\ host'[h].vcpu_allocated = host[h].vcpu_allocated + held
             /\ host'[h].mem_allocated = host[h].mem_allocated + held
             /\ host'[h].vm_created = host[h].vm_created
                   + (Counted(imagerow'[i], request'[w], h) - Counted(imagerow[i], request[w], h))
  BY <1>1, <1>2, <1>3
<1>5. QED
  BY <1>4, LedgerMove

\* A step that changes no row, column or domain, of a request that stands for
\* nothing before and after it.
LEMMA QuietVms ==
    ASSUME VmInv, MInv', UNCHANGED <<setting, imagerow, imgdom, last_uuid, host>>,
           NEW w \in Threads, Moved(w),
           VmKnows(request'[w], imagerow[request'[w].image]),
           NoVms(setting) => request'[w].op \notin VmOnly,
           request[w].pc \notin ClaimPcs \cup UncountedPcs \cup DomPcs \/ request[w].host = NoOne,
           request'[w].pc \notin ClaimPcs \cup UncountedPcs \cup DomPcs \/ request'[w].host = NoOne
    PROVE  VmKept
<1>1. VmInv'
  BY RowsStay
<1>2. TInv /\ TInv'
  BY DEF VmInv, MInv
<1>3. ASSUME ImageVmLedger
      PROVE  ImageVmLedger'
  <2>1. PICK i \in Images : TRUE
    BY ImageAssumption
  <2>2. QED
    BY <1>2, <1>3, <2>1, QuietLedger
<1>4. ASSUME DomInv
      PROVE  DomInv'
  <2>1. \A u \in 1 .. MaxUuid : imgdom'[u] # "none" => \E i \in Images : imagerow'[i].vm_uuid = u
    BY <1>4 DEF DomInv
  <2>2. ASSUME NEW i \in Images, imagerow[i].vm_uuid # 0, imgdom[imagerow[i].vm_uuid] = "none"
        PROVE  \E x \in Threads : request'[x].image = i /\ request'[x].pc \in DomPcs
    <3>1. PICK x \in Threads : request[x].image = i /\ request[x].pc \in DomPcs
      BY <1>4, <2>2 DEF DomInv
    <3>2. request[x].host # NoOne
      BY <2>2, <3>1, DomHost DEF VmInv, VmRows, MInv, TInv
    <3>3. x # w
      BY <3>1, <3>2
    <3>4. QED
      BY <3>1, <3>3 DEF Moved
  <2>3. ASSUME NEW x \in Threads, request'[x].pc \in DomPcs, imagerow[request'[x].image].vm_uuid # 0
        PROVE  imgdom[imagerow[request'[x].image].vm_uuid] = "none"
    <3>1. CASE x # w
      BY <1>4, <2>3, <3>1 DEF Moved, DomInv
    <3>2. CASE x = w
      <4>1. request'[w].host = NoOne
        BY <2>3, <3>2
      <4>4. Formed(request'[w])
        BY <1>2 DEF TInv
      <4>5. request'[w].image \in Images
        BY <2>3, <3>2, <4>4, DomImage
      <4>6. /\ VmKnows(request'[w], imagerow[request'[w].image])
            /\ PlaceSound(imagerow[request'[w].image], last_uuid)
        BY <4>5 DEF VmInv, VmRows
      <4>2. imagerow'[request'[w].image].vm_uuid = 0
        BY <2>3, <3>2, <4>1, <4>4, <4>6, DomHost
      <4>3. QED
        BY <2>3, <3>2, <4>2
    <3>3. QED
      BY <3>1, <3>2
  <2>4. QED
    BY <2>1, <2>2, <2>3 DEF DomInv
<1>5. QED
  BY <1>1, <1>3, <1>4 DEF VmKept

\* A request that is under way goes on or ends.
LEMMA GoesOn ==
    ASSUME NEW w, Moved(w), request[w].pc # "idle"
    PROVE  request'[w] = NoRequest \/ (/\ request'[w].op = request[w].op
                                        /\ request'[w].image = request[w].image
                                        /\ request'[w].machine = request[w].machine)
<1>1. request[w] # NoRequest
  BY DEF NoRequest
<1>2. QED
  BY <1>1 DEF Moved, Kept, Admitted

\* A request that has been received.
LEMMA ReceivedIs ==
    ASSUME TInv, NEW w \in Threads, NEW op, NEW i, NEW v, NEW pc, Receive(w, op, i, v, pc)
    PROVE  /\ request'[w].op = op /\ request'[w].image = i /\ request'[w].machine = v
           /\ request'[w].pc = pc /\ request'[w].host = NoOne
           /\ request'[w].row = IF i = NoOne THEN NoImageRow ELSE imagerow[i]
<1> DEFINE row == IF i = NoOne THEN NoImageRow ELSE imagerow[i]
           q == [NoRequest EXCEPT !.op = op, !.image = i, !.machine = v, !.pc = pc, !.row = row]
<1>1. request'[w] = q
  BY DEF Receive, TInv
<1> HIDE DEF row
<1>2. /\ q.op = op /\ q.image = i /\ q.machine = v /\ q.pc = pc /\ q.host = NoOne /\ q.row = row
  BY DEF NoRequest
<1> HIDE DEF q
<1>3. QED
  BY <1>1, <1>2 DEF row

\* No request knows nothing, and stands for nothing.
LEMMA NoRequestKnows ==
    ASSUME NEW row
    PROVE  /\ VmKnows(NoRequest, row) /\ NoRequest.op \notin VmOps /\ NoRequest.op # "release"
           /\ NoRequest.pc \notin ClaimPcs \cup UncountedPcs \cup DomPcs
           /\ NoRequest.host = NoOne
<1>1. NoRequest.pc = "idle" /\ NoRequest.op = "none" /\ NoRequest.host = NoOne
  BY DEF NoRequest
<1>2. QED
  BY <1>1 DEF VmKnows, VmOps, VmOnly, ClaimPcs, UncountedPcs, DomPcs

\* Nor does one of another kind.
LEMMA OtherKnows ==
    ASSUME NEW q, Formed(q), q.op \notin VmOps,
           q.op \in {"add_image", "release"} => NoPlace(q.row), NEW row
    PROVE  /\ VmKnows(q, row) /\ q.pc \notin ClaimPcs \cup UncountedPcs \cup DomPcs
           /\ q.op \notin VmOnly
<1>1. q.pc \notin {"claim", "get_image", "save_vm", "unclaim", "define_vm", "reset_vm", "vm_created_add",
                   "rename_base", "undefine", "vm_created_sub", "free", "clear", "image_rowdel"}
  BY OpsAt DEF VmOps, VmOnly
<1>2. QED
  BY <1>1 DEF VmKnows, VmOps, VmOnly, ClaimPcs, UncountedPcs, DomPcs

\* A step of such a request, that changes none of what is about vms.
LEMMA OtherVms ==
    ASSUME VmInv, MInv', UNCHANGED <<setting, imagerow, imgdom, last_uuid, host>>,
           NEW w \in Threads, Moved(w), request[w].op \notin VmOps, request'[w].op \notin VmOps,
           request'[w].op \in {"add_image", "release"} => NoPlace(request'[w].row)
    PROVE  VmKept
<1>1. Formed(request[w]) /\ Formed(request'[w])
  BY DEF VmInv, MInv, TInv, Moved
<1>2. VmKnows(request[w], imagerow[request[w].image])
  BY DEF VmInv, VmRows
<1>3. request[w].op \in {"add_image", "release"} => NoPlace(request[w].row)
  BY <1>2 DEF VmKnows
<1>4. request[w].pc \notin ClaimPcs \cup UncountedPcs \cup DomPcs
  BY <1>1, <1>3, OtherKnows
<1>5. /\ VmKnows(request'[w], imagerow[request'[w].image])
      /\ request'[w].pc \notin ClaimPcs \cup UncountedPcs \cup DomPcs /\ request'[w].op \notin VmOnly
  BY <1>1, OtherKnows
<1>6. QED
  BY <1>4, <1>5, QuietVms

\* A step that changes none of it, and no request.
LEMMA NothingMoved ==
    ASSUME VmInv, MInv', UNCHANGED <<setting, imagerow, imgdom, last_uuid, host, request>>
    PROVE  VmKept
<1>1. VmInv'
  BY DEF VmInv, VmRows, NoPlace, PlaceSound, VmKnows, SamePlace
<1>2. ImageVmLedger => ImageVmLedger'
  BY DEF ImageVmLedger, RowsOnHost, RequestsAt
<1>3. DomInv => DomInv'
  BY DEF DomInv
<1>4. QED
  BY <1>1, <1>2, <1>3 DEF VmKept

\* The actions about machines leave the vms of images alone.
LEMMA MachinesLeave ==
    ASSUME NEW w, MachineStep(w)
    PROVE  UNCHANGED <<imagerow, imgdom, last_uuid, host>>
<1> USE DEF OnlyCeph, OnlyRequest, OnlyMachineRow, ImageRowsSame, DomainsSame
<1>1. CASE CloneDisk(w) \/ ResizeNewDisk(w) \/ SaveMachine(w) \/ DefineMachine(w) \/ RemoveNewDisk(w)
  BY <1>1 DEF CloneDisk, ResizeNewDisk, SaveMachine, DefineMachine, RemoveNewDisk
<1>2. CASE RenameSysDisk(w) \/ CloneNewDisk(w) \/ DefineNew(w) \/ SaveNew(w) \/ RemoveNew(w)
           \/ RenameBack(w) \/ RemountDevices(w)
  BY <1>2 DEF RenameSysDisk, CloneNewDisk, DefineNew, SaveNew, RemoveNew, RenameBack, RemountDevices
<1>3. CASE ReadSize(w) \/ SaveSize(w) \/ ResizeSysDisk(w) \/ TakeSysSnap(w) \/ SaveSysSnap(w)
           \/ RemoveSysSnap(w) \/ DeleteSysSnapRow(w) \/ RollbackDisk(w)
  BY <1>3 DEF ReadSize, SaveSize, ResizeSysDisk, TakeSysSnap, SaveSysSnap, RemoveSysSnap,
              DeleteSysSnapRow, RollbackDisk
<1>4. CASE ReleaseExists(w) \/ ReleaseSnap(w) \/ ReleaseClone(w) \/ ReleaseFlatten(w)
           \/ ReleaseRemove(w) \/ ReleaseUndoSnap(w) \/ ReleaseUnsnap(w)
  BY <1>4 DEF ReleaseExists, ReleaseSnap, ReleaseClone, ReleaseFlatten, ReleaseRemove, ReleaseUndoSnap,
              ReleaseUnsnap, ReleaseCall
<1>5. ASSUME NEW v \in Machines,
             \/ MachinePower(w, v) \/ CreateSysSnap(w, v)
             \/ \E size \in 1 .. MaxSize :
                  \/ ExpandSysDisk(w, v, size)
                  \/ \E i \in Images : CreateMachine(w, v, i, size)
             \/ \E i \in Images : ChangeSysDisk(w, v, i) \/ ReleaseImage(w, v, i)
             \/ \E op \in ImageOps, s \in 1 .. MaxTick : AboutSysSnap(w, op, v, s)
      PROVE  UNCHANGED <<imagerow, imgdom, last_uuid, host>>
  BY <1>5 DEF MachinePower, CreateSysSnap, ExpandSysDisk, CreateMachine, ChangeSysDisk, ReleaseImage,
              AboutSysSnap
<1>6. QED
  BY <1>1, <1>2, <1>3, <1>4, <1>5 DEF MachineStep

\* A request about a machine alone, or about its disk and an image.
LEMMA GoesOnElsewhere ==
    ASSUME TInv, NEW w \in Threads, Moved(w), request[w].pc # "idle",
           request[w].op \notin VmOps \cup {"add_image", "release"}
    PROVE  /\ request[w].op \notin VmOps /\ request'[w].op \notin VmOps
           /\ request'[w].op \notin {"add_image", "release"}
<1>1. NoRequest.op = "none"
  BY DEF NoRequest
<1>2. QED
  BY <1>1, GoesOn DEF VmOps, VmOnly

\* The step of a release keeps what it holds for the row of the image.
LEMMA ReleaseKeepsRow ==
    ASSUME TInv, UNCHANGED setting, NEW w \in Threads,
           \/ ReleaseExists(w) \/ ReleaseSnap(w) \/ ReleaseClone(w) \/ ReleaseFlatten(w)
           \/ ReleaseRemove(w) \/ ReleaseUndoSnap(w) \/ ReleaseUnsnap(w)
    PROVE  /\ Moved(w) /\ request[w].op = "release"
           /\ request'[w] = NoRequest \/ request'[w].row = request[w].row
<1>1. request[w] \in RequestState /\ Formed(request[w])
  BY DEF TInv
<1>2. CASE ReleaseExists(w) \/ ReleaseSnap(w)
  BY <1>1, <1>2, ReleaseExistsTyped, ReleaseSnapTyped, OpsAt DEF RequestState
<1>3. CASE ReleaseClone(w) \/ ReleaseFlatten(w)
  <2>1. /\ Moved(w) /\ request[w].pc \in {"rel_clone", "rel_flatten"}
        /\ \/ request'[w] = NoRequest
           \/ request'[w] = [request[w] EXCEPT !.pc = "rel_flatten"]
           \/ request'[w] = [request[w] EXCEPT !.pc = "rel_unsnap"]
           \/ request'[w] = [request[w] EXCEPT !.pc = "rel_remove"]
    BY <1>3, ReleaseCloneTyped, ReleaseFlattenTyped
  <2>2. QED
    BY <1>1, <2>1, OpsAt DEF RequestState
<1>4. CASE ReleaseRemove(w) \/ ReleaseUndoSnap(w) \/ ReleaseUnsnap(w)
  BY <1>1, <1>4, ReleaseRemoveTyped, ReleaseUnsnapTyped, OpsAt DEF RequestState
<1>5. QED
  BY <1>2, <1>3, <1>4

\* The requests about machines that arrive.
LEMMA MachineArrives ==
    ASSUME TInv, UNCHANGED setting, NEW w \in Threads, NEW v \in Machines,
           \/ CreateSysSnap(w, v)
           \/ \E size \in 1 .. MaxSize :
                \/ ExpandSysDisk(w, v, size)
                \/ \E i \in Images : CreateMachine(w, v, i, size)
           \/ \E i \in Images : ChangeSysDisk(w, v, i)
           \/ \E op \in ImageOps, s \in 1 .. MaxTick : AboutSysSnap(w, op, v, s)
    PROVE  /\ Moved(w) /\ request[w] = NoRequest
           /\ request'[w].op \in {"create_sys_snap", "sys_disk_expand", "create_machine", "change_sys_disk",
                                  "delete_sys_snap", "rollback"}
<1>1. CASE CreateSysSnap(w, v)
  <2>1. /\ Moved(w) /\ request[w] = NoRequest
        /\ request'[w] = [NoRequest EXCEPT !.op = "create_sys_snap", !.image = NoOne, !.machine = v,
                            !.pc = "sys_snap", !.row = NoImageRow]
    BY <1>1, CreateSysSnapTyped
  <2>2. QED
    BY <2>1 DEF NoRequest
<1>2. ASSUME NEW size \in 1 .. MaxSize, ExpandSysDisk(w, v, size)
      PROVE  Moved(w) /\ request[w] = NoRequest /\ request'[w].op = "sys_disk_expand"
  <2>1. /\ Moved(w) /\ request[w] = NoRequest
        /\ request'[w] = [NoRequest EXCEPT !.op = "sys_disk_expand", !.machine = v,
                            !.size = machine[v].sys_disk_size + size, !.pc = "resize"]
    BY <1>2, ExpandSysDiskTyped
  <2>2. QED
    BY <2>1 DEF NoRequest
<1>3. ASSUME NEW size \in 1 .. MaxSize, NEW i \in Images, CreateMachine(w, v, i, size)
      PROVE  Moved(w) /\ request[w] = NoRequest /\ request'[w].op = "create_machine"
  <2>1. Moved(w) /\ request[w] = NoRequest
    BY <1>3, CreateMachineTyped
  <2>2. request' = [request EXCEPT ![w] =
                      [NoRequest EXCEPT !.op = "create_machine", !.image = i, !.machine = v,
                                        !.row = imagerow[i], !.size = size, !.pc = "clone_disk"]]
    BY <1>3 DEF CreateMachine
  <2>3. request'[w].op = "create_machine"
    BY <2>2 DEF NoRequest, TInv
  <2>4. QED
    BY <2>1, <2>3
<1>4. ASSUME NEW i \in Images, ChangeSysDisk(w, v, i)
      PROVE  Moved(w) /\ request[w] = NoRequest /\ request'[w].op = "change_sys_disk"
  <2>1. /\ Moved(w) /\ request[w] = NoRequest
        /\ request'[w] = [NoRequest EXCEPT !.op = "change_sys_disk", !.image = i, !.machine = v,
                            !.pc = "rename_disk", !.row = imagerow[i]]
    BY <1>4, ChangeSysDiskTyped
  <2>2. QED
    BY <2>1 DEF NoRequest
<1>5. ASSUME NEW op \in ImageOps, NEW s \in 1 .. MaxTick, AboutSysSnap(w, op, v, s)
      PROVE  Moved(w) /\ request[w] = NoRequest /\ request'[w].op \in {"delete_sys_snap", "rollback"}
  <2>1. Moved(w) /\ request[w] = NoRequest /\ op \in {"delete_sys_snap", "rollback"}
    BY <1>5, AboutSysSnapTyped
  <2>2. request' = [request EXCEPT ![w] =
                      [NoRequest EXCEPT !.op = op, !.machine = v, !.snap = s,
                                        !.pc = IF op = "rollback" THEN "rollback" ELSE "remove_sys_snap"]]
    BY <1>5 DEF AboutSysSnap
  <2>3. request'[w].op = op
    BY <2>2 DEF NoRequest, TInv
  <2>4. QED
    BY <2>1, <2>3
<1>6. QED
  BY <1>1, <1>2, <1>3, <1>4, <1>5

\* The same of those that arrive and of every step of a request about a machine.
LEMMA MachineVms ==
    ASSUME VmInv, MInv', UNCHANGED setting, NEW w \in Threads, MachineStep(w)
    PROVE  VmKept
<1>1. UNCHANGED <<imagerow, imgdom, last_uuid, host>>
  BY MachinesLeave
<1>2. TInv /\ Formed(request[w])
  BY DEF VmInv, MInv, TInv
<1>3. SUFFICES
         \/ request' = request
         \/ /\ Moved(w) /\ request[w].op \notin VmOps /\ request'[w].op \notin VmOps
            /\ request'[w].op \in {"add_image", "release"} => NoPlace(request'[w].row)
  BY <1>1, OtherVms, NothingMoved
<1>4. NoRequest.op = "none" /\ NoPlace(NoRequest.row)
  BY DEF NoRequest, NoImageRow, NoPlace
<1> DEFINE steps == {"clone_disk", "resize_new", "save_machine", "define_machine", "remove_disk",
                     "rename_disk", "clone_new", "define_new", "save_new", "remove_new", "rename_back",
                     "remount", "size_read", "size_save", "sys_snap", "sys_snap_save", "remove_sys_snap",
                     "snap_rowdel", "rollback", "resize"}
<1>5. request[w].pc \in steps
      => request[w].pc # "idle" /\ request[w].op \notin VmOps \cup {"add_image", "release"}
  BY <1>2, OpsAt DEF VmOps, VmOnly
<1>6. SUFFICES ASSUME request[w].pc \notin steps \/ ~Moved(w)
               PROVE  \/ request' = request
                      \/ /\ Moved(w) /\ request[w].op \notin VmOps /\ request'[w].op \notin VmOps
                         /\ request'[w].op \in {"add_image", "release"} => NoPlace(request'[w].row)
  BY <1>2, <1>5, GoesOnElsewhere
<1>7. CASE CloneDisk(w) \/ ResizeNewDisk(w) \/ SaveMachine(w) \/ DefineMachine(w) \/ RemoveNewDisk(w)
  BY <1>2, <1>6, <1>7, CloneDiskTyped, ResizeNewDiskTyped, SaveMachineTyped, DefineMachineTyped,
     RemoveNewDiskTyped
<1>8. CASE RenameSysDisk(w) \/ CloneNewDisk(w) \/ DefineNew(w) \/ SaveNew(w) \/ RemoveNew(w)
           \/ RenameBack(w) \/ RemountDevices(w)
  BY <1>2, <1>6, <1>8, RenameSysDiskTyped, CloneNewDiskTyped, DefineNewTyped, SaveNewTyped, RemoveNewTyped,
     RenameBackTyped, RemountTyped
<1>9. CASE ReadSize(w) \/ SaveSize(w) \/ ResizeSysDisk(w) \/ TakeSysSnap(w) \/ SaveSysSnap(w)
           \/ RemoveSysSnap(w) \/ DeleteSysSnapRow(w) \/ RollbackDisk(w)
  BY <1>2, <1>6, <1>9, ReadSizeTyped, SaveSizeTyped, ResizeSysDiskTyped, TakeSysSnapTyped, SaveSysSnapTyped,
     RemoveSysSnapTyped, DeleteSysSnapRowTyped, RollbackDiskTyped
<1>10. CASE ReleaseExists(w) \/ ReleaseSnap(w) \/ ReleaseClone(w) \/ ReleaseFlatten(w)
            \/ ReleaseRemove(w) \/ ReleaseUndoSnap(w) \/ ReleaseUnsnap(w)
  BY <1>2, <1>4, <1>10, ReleaseKeepsRow, IdleRequest, GoesOn DEF VmInv, VmRows, VmKnows, VmOps, VmOnly
<1>11. ASSUME NEW v \in Machines, NEW i \in Images, ReleaseImage(w, v, i)
       PROVE  \/ request' = request
              \/ /\ Moved(w) /\ request[w].op \notin VmOps /\ request'[w].op \notin VmOps
                 /\ request'[w].op \in {"add_image", "release"} => NoPlace(request'[w].row)
  <2>1. \/ request' = request
        \/ /\ Moved(w) /\ request[w] = NoRequest
           /\ request'[w] = [NoRequest EXCEPT !.op = "release", !.image = i, !.machine = v,
                               !.pc = "rel_exists"]
    BY <1>2, <1>11, ReleaseImageTyped
  <2>2. CASE request' = request
    BY <2>2
  <2>3. CASE /\ Moved(w) /\ request[w] = NoRequest
             /\ request'[w] = [NoRequest EXCEPT !.op = "release", !.image = i, !.machine = v,
                               !.pc = "rel_exists"]
    BY <1>4, <2>3 DEF NoRequest, VmOps, VmOnly
  <2>4. QED
    BY <2>1, <2>2, <2>3
<1>12. ASSUME NEW v \in Machines, MachinePower(w, v)
       PROVE  request' = request
  BY <1>2, <1>12, MachinePowerTyped
<1>13. ASSUME NEW v \in Machines,
              \/ CreateSysSnap(w, v)
              \/ \E size \in 1 .. MaxSize :
                   \/ ExpandSysDisk(w, v, size)
                   \/ \E i \in Images : CreateMachine(w, v, i, size)
              \/ \E i \in Images : ChangeSysDisk(w, v, i)
              \/ \E op \in ImageOps, s \in 1 .. MaxTick : AboutSysSnap(w, op, v, s)
       PROVE  /\ Moved(w) /\ request[w].op \notin VmOps /\ request'[w].op \notin VmOps
              /\ request'[w].op \in {"add_image", "release"} => NoPlace(request'[w].row)
  BY <1>2, <1>4, <1>13, MachineArrives DEF VmOps, VmOnly
<1>14. QED
  BY <1>7, <1>8, <1>9, <1>10, <1>11, <1>12, <1>13 DEF MachineStep

\* Requests about images that arrive.
LEMMA ImageArrives ==
    ASSUME VmInv, MInv', UNCHANGED setting, NEW w \in Threads, NEW i \in Images,
           \/ AddImage(w, i) \/ SnapUpdate(w, i) \/ EnableUpdate(w, i) \/ DeleteImage(w, i)
           \/ \E op \in ImageOps : EndImageVm(w, op, i)
           \/ \E op \in ImageOps, h \in Hosts : StartImageVm(w, op, i, h)
    PROVE  VmKept
<1>1. TInv /\ imagerow[i] \in ImageRow /\ PlaceSound(imagerow[i], last_uuid)
  BY DEF VmInv, MInv, TInv, VmRows
<1>2. /\ UNCHANGED <<imagerow, imgdom, last_uuid, host>>
      /\ request[w].pc = "idle"
  BY DEF AddImage, SnapUpdate, EnableUpdate, DeleteImage, EndImageVm, StartImageVm, OnlyRequest, OnlyCeph,
         ImageRowsSame, DomainsSame, Arrives, InStep
<1>3. Moved(w)
  <2>1. ASSUME NEW op, EndImageVm(w, op, i)
        PROVE  Moved(w)
    BY <1>1, <2>1, EndImageVmTyped
  <2>2. ASSUME NEW op, NEW h \in Hosts, StartImageVm(w, op, i, h)
        PROVE  Moved(w)
    BY <1>1, <2>2, StartImageVmTyped
  <2>3. CASE AddImage(w, i) \/ SnapUpdate(w, i) \/ EnableUpdate(w, i) \/ DeleteImage(w, i)
    BY <1>1, <2>3, AddImageTyped, SnapUpdateTyped, EnableUpdateTyped, DeleteImageTyped
  <2>4. QED
    BY <2>1, <2>2, <2>3
<1>4. request[w].pc \notin ClaimPcs \cup UncountedPcs \cup DomPcs
  BY <1>2 DEF ClaimPcs, UncountedPcs, DomPcs
<1>5. i # NoOne
  BY Names
<1> DEFINE q == request'[w]
<1>6. SUFFICES /\ q.image = i
               /\ VmKnows(q, imagerow[i])
               /\ NoVms(setting) => q.op \notin VmOnly
               /\ q.pc \notin ClaimPcs \cup UncountedPcs \cup DomPcs \/ q.host = NoOne
  BY <1>2, <1>3, <1>4, QuietVms
<1>7. CASE AddImage(w, i)
  <2>1. Receive(w, "add_image", i, NoOne, "create_image") /\ ~imagerow[i].live
    BY <1>7 DEF AddImage
  <2>2. q.op = "add_image" /\ q.image = i /\ q.pc = "create_image" /\ q.row = imagerow[i]
    BY <1>1, <1>5, <2>1, ReceivedIs
  <2>3. NoPlace(q.row)
    BY <1>1, <2>1, <2>2 DEF PlaceSound
  <2> HIDE DEF q
  <2>4. QED
    BY <2>2, <2>3 DEF VmKnows, VmOnly, ClaimPcs, UncountedPcs, DomPcs
<1>8. CASE SnapUpdate(w, i)
  <2>1. Receive(w, "snap_update", i, NoOne, "snap_remove") /\ imagerow[i].live
    BY <1>8 DEF SnapUpdate
  <2>2. q.op = "snap_update" /\ q.image = i /\ q.pc = "snap_remove" /\ q.row = imagerow[i]
    BY <1>1, <1>5, <2>1, ReceivedIs
  <2> HIDE DEF q
  <2>3. QED
    BY <2>1, <2>2 DEF VmKnows, SamePlace, VmOnly, ClaimPcs, UncountedPcs, DomPcs
<1>9. CASE EnableUpdate(w, i)
  <2>1. /\ request' = [request EXCEPT ![w] =
                     [NoRequest EXCEPT !.op = "enable_update", !.image = i, !.pc = "save_all",
                                       !.row = [imagerow[i] EXCEPT !.enable = ~imagerow[i].enable]]]
        /\ imagerow[i].live
    BY <1>9 DEF EnableUpdate
  <2>2. /\ q.op = "enable_update" /\ q.image = i /\ q.pc = "save_all"
        /\ q.row = [imagerow[i] EXCEPT !.enable = ~imagerow[i].enable]
    BY <1>1, <2>1 DEF TInv, NoRequest
  <2> HIDE DEF q
  <2>3. q.row.live /\ SamePlace(q.row, imagerow[i])
    BY <1>1, <2>1, <2>2 DEF SamePlace, ImageRow
  <2>4. QED
    BY <2>2, <2>3 DEF VmKnows, VmOnly, ClaimPcs, UncountedPcs, DomPcs
<1>10. CASE DeleteImage(w, i)
  <2>1. Receive(w, "delete_image", i, NoOne, "rename_base")
    BY <1>10 DEF DeleteImage
  <2>2. q.op = "delete_image" /\ q.image = i /\ q.pc = "rename_base" /\ q.row = imagerow[i] /\ q.host = NoOne
    BY <1>1, <1>5, <2>1, ReceivedIs
  <2> HIDE DEF q
  <2>3. QED
    BY <2>2 DEF VmKnows, SamePlace, VmOnly
<1>11. ASSUME NEW op, EndImageVm(w, op, i)
       PROVE  /\ q.image = i
              /\ VmKnows(q, imagerow[i])
              /\ NoVms(setting) => q.op \notin VmOnly
              /\ q.pc \notin ClaimPcs \cup UncountedPcs \cup DomPcs \/ q.host = NoOne
  <2> DEFINE pc == IF op = "delshelve_image_vm" THEN "clear" ELSE "undefine"
  <2>1. /\ Receive(w, op, i, NoOne, pc)
        /\ op \in {"shelve_image_vm", "delete_image_vm", "delshelve_image_vm"}
        /\ Offered(op, imagerow[i])
    BY <1>11 DEF EndImageVm
  <2>2. /\ op = "delshelve_image_vm" => imagerow[i].vm_uuid = 0 /\ imagerow[i].vm_host # NoOne
        /\ op # "delshelve_image_vm" => imagerow[i].vm_uuid # 0
    BY <2>1 DEF Offered
  <2>3. ~NoVms(setting)
    BY <2>2 DEF VmInv, VmRows, NoPlace
  <2> HIDE DEF pc
  <2>4. q.op = op /\ q.image = i /\ q.pc = pc /\ q.row = imagerow[i] /\ q.host = NoOne
    BY <1>1, <1>5, <2>1, ReceivedIs
  <2> HIDE DEF q
  <2>5. CASE op = "delshelve_image_vm"
    BY <2>2, <2>3, <2>4, <2>5 DEF VmKnows, pc
  <2>6. CASE op \in {"shelve_image_vm", "delete_image_vm"}
    BY <2>2, <2>3, <2>4, <2>6 DEF VmKnows, SamePlace, pc
  <2>7. QED
    BY <2>1, <2>5, <2>6
<1>12. ASSUME NEW op, NEW h \in Hosts, StartImageVm(w, op, i, h)
       PROVE  /\ q.image = i
              /\ VmKnows(q, imagerow[i])
              /\ NoVms(setting) => q.op \notin VmOnly
              /\ q.pc \notin ClaimPcs \cup UncountedPcs \cup DomPcs \/ q.host = NoOne
  <2>1. /\ request' = [request EXCEPT ![w] =
                         [NoRequest EXCEPT !.op = op, !.image = i, !.host = h, !.pc = "claim"]]
        /\ op \in {"create_image_vm", "unshelve_image_vm"} /\ op \in setting.ops
        /\ Offered(op, imagerow[i])
    BY <1>12 DEF StartImageVm, Arrives
  <2>2. /\ imagerow[i].vm_uuid = 0
        /\ op = "unshelve_image_vm" => imagerow[i].vm_host # NoOne
    BY <2>1 DEF Offered
  <2>3. ~NoVms(setting)
    BY <2>1, <2>2 DEF VmInv, VmRows, NoPlace, NoVms
  <2>4. q.op = op /\ q.image = i /\ q.pc = "claim"
    BY <1>1, <2>1 DEF TInv, NoRequest
  <2> HIDE DEF q
  <2>5. QED
    BY <2>1, <2>2, <2>3, <2>4 DEF VmKnows, ClaimPcs, UncountedPcs, DomPcs
<1>13. QED
  BY <1>7, <1>8, <1>9, <1>10, <1>11, <1>12

\* The calls of ceph of the requests about images.
LEMMA ImageCallVms ==
    ASSUME VmInv, MInv', UNCHANGED setting, NEW w \in Threads,
           CreateBaseImage(w) \/ CreateSnap(w) \/ RemoveOldSnap(w) \/ RenameBase(w)
    PROVE  VmKept
<1>1. TInv /\ Formed(request[w]) /\ request[w] \in RequestState /\ request[w].row \in ImageRow
  BY DEF VmInv, MInv, TInv, Formed, RequestState
<1>2. UNCHANGED <<imagerow, imgdom, last_uuid, host>>
  BY DEF CreateBaseImage, CreateSnap, RemoveOldSnap, RenameBase, OnlyCeph, ImageRowsSame, DomainsSame
<1>3. VmKnows(request[w], imagerow[request[w].image])
  BY DEF VmInv, VmRows
<1>4. Moved(w)
  BY <1>1, CreateBaseImageTyped, CreateSnapTyped, RemoveOldSnapTyped, RenameBaseTyped
<1>5. request[w].pc \notin ClaimPcs \cup UncountedPcs \cup DomPcs
  BY DEF CreateBaseImage, CreateSnap, RemoveOldSnap, RenameBase, InStep, ClaimPcs, UncountedPcs, DomPcs
<1>6. request[w].op \in {"add_image", "release", "snap_update", "delete_image"}
  BY <1>1, OpsAt DEF CreateBaseImage, CreateSnap, RemoveOldSnap, RenameBase, InStep
<1> DEFINE q == request'[w]
<1>7. CASE q = NoRequest
  BY <1>2, <1>4, <1>5, <1>7, NoRequestKnows, QuietVms DEF VmOps
<1>8. CASE q # NoRequest
  <2>1. q.op = request[w].op /\ q.image = request[w].image
    BY <1>4, <1>8, GoesOn DEF CreateBaseImage, CreateSnap, RemoveOldSnap, RenameBase, InStep
  <2>2. q.op \notin VmOnly
    BY <1>6, <2>1 DEF VmOnly
  <2>3. SUFFICES /\ VmKnows(q, imagerow[q.image])
                 /\ q.pc \notin ClaimPcs \cup UncountedPcs \cup DomPcs \/ q.host = NoOne
    BY <1>2, <1>4, <1>5, <2>2, QuietVms
  <2>4. CASE CreateBaseImage(w)
    <3>1. q = [request[w] EXCEPT !.pc = "create_snap"]
      BY <1>1, <1>8, <2>4, CreateBaseImageTyped
    <3>2. q.pc = "create_snap" /\ q.row = request[w].row
      BY <1>1, <3>1 DEF RequestState
    <3> HIDE DEF q
    <3>3. q.pc \notin ClaimPcs \cup UncountedPcs \cup DomPcs
      BY <3>2 DEF ClaimPcs, UncountedPcs, DomPcs
    <3>4. QED
      BY <1>3, <1>6, <2>1, <3>2, <3>3 DEF VmKnows, SamePlace, NoPlace
  <2>5. CASE CreateSnap(w)
    <3>1. /\ request[w].pc \in {"create_snap", "snap_create"}
          /\ q = [request[w] EXCEPT !.row.snap = tick + 1,
                     !.pc = IF request[w].pc = "create_snap" THEN "insert" ELSE "save_all"]
      BY <1>1, <1>8, <2>5, CreateSnapTyped
    <3>2. q.pc \in {"insert", "save_all"} /\ q.row = [request[w].row EXCEPT !.snap = tick + 1]
      BY <1>1, <3>1 DEF RequestState
    <3> HIDE DEF q
    <3>3. /\ q.row.live = request[w].row.live /\ q.row.vm_uuid = request[w].row.vm_uuid
          /\ q.row.vm_host = request[w].row.vm_host
      BY <1>1, <3>2 DEF ImageRow
    <3>4. q.pc \notin ClaimPcs \cup UncountedPcs \cup DomPcs
      BY <3>2 DEF ClaimPcs, UncountedPcs, DomPcs
    <3>5. QED
      BY <1>3, <1>6, <2>1, <3>2, <3>3, <3>4 DEF VmKnows, SamePlace, NoPlace
  <2>6. CASE RemoveOldSnap(w)
    <3>1. q = [request[w] EXCEPT !.pc = "snap_create"]
      BY <1>1, <2>6, RemoveOldSnapTyped
    <3>2. q.pc = "snap_create" /\ q.row = request[w].row
      BY <1>1, <3>1 DEF RequestState
    <3> HIDE DEF q
    <3>3. q.pc \notin ClaimPcs \cup UncountedPcs \cup DomPcs
      BY <3>2 DEF ClaimPcs, UncountedPcs, DomPcs
    <3>4. QED
      BY <1>3, <1>6, <2>1, <3>2, <3>3 DEF VmKnows, SamePlace, NoPlace
  <2>7. CASE RenameBase(w)
    <3>1. /\ request[w].pc = "rename_base"
          /\ q = [request[w] EXCEPT !.pc = RemoveVm(request[w].row, "image_rowdel")]
      BY <1>1, <1>8, <2>7, RenameBaseTyped
    <3>2. q.pc = RemoveVm(request[w].row, "image_rowdel") /\ q.row = request[w].row /\ q.host = request[w].host
      BY <1>1, <3>1 DEF RequestState
    <3> HIDE DEF q
    <3>3. q.host = NoOne /\ SamePlace(q.row, imagerow[q.image])
      BY <1>3, <2>1, <3>1, <3>2 DEF VmKnows
    <3>4. CASE q.row.vm_uuid = 0
      BY <1>3, <2>1, <3>1, <3>2, <3>3, <3>4 DEF RemoveVm, VmKnows, SamePlace
    <3>5. CASE q.row.vm_uuid # 0
      BY <1>1, <2>1, <3>1, <3>2, <3>3, <3>5, OpsAt DEF RemoveVm, VmKnows, SamePlace
    <3>6. QED
      BY <3>4, <3>5
  <2>8. QED
    BY <2>4, <2>5, <2>6, <2>7
<1>9. QED
  BY <1>7, <1>8

\* What others know of an image whose vm one request is about.
LEMMA OthersKnow ==
    ASSUME VmInv, NEW w \in Threads, request[w].op \in VmOps, request[w].image \in Images,
           request[w].op \in VmOnly \/ imagerow[request[w].image].vm_uuid # 0,
           NEW x \in Threads \ {w}, request[x].image = request[w].image, NEW row
    PROVE  VmKnows(request[x], row) /\ request[x].pc \notin DomPcs
<1>1. request[x].op \notin VmOps
  BY AloneAtVm
<1>2. Formed(request[x]) /\ VmKnows(request[x], imagerow[request[x].image])
  BY DEF VmInv, VmRows, MInv, TInv
<1>3. VmKnows(request[x], row)
  BY <1>1, <1>2, NotAboutVm
<1>4. request[x].pc \notin DomPcs
  BY <1>1, <1>2, OpsAt DEF DomPcs, VmOps, VmOnly
<1>5. QED
  BY <1>3, <1>4

\* What a request at a step stands for.
HeldBy(pc) == IF pc \in ClaimPcs THEN 1 ELSE IF pc \in FreedPcs THEN -1 ELSE 0

CountedBy(pc) == IF pc \in UncountedPcs THEN -1 ELSE 0

\* What it stands for at its host.
LEMMA StandsFor ==
    ASSUME NEW q, NEW h, q.host = h, NEW row
    PROVE  /\ Held(row, q, h) = Bit(PlacedOn(row, h)) + HeldBy(q.pc)
           /\ Counted(row, q, h) = Bit(PlacedOn(row, h)) + CountedBy(q.pc)
<1>1. /\ Bit(HeldAt(q, ClaimPcs, h)) = (IF q.pc \in ClaimPcs THEN 1 ELSE 0)
      /\ Bit(HeldAt(q, FreedPcs, h)) = (IF q.pc \in FreedPcs THEN 1 ELSE 0)
      /\ Bit(HeldAt(q, UncountedPcs, h)) = (IF q.pc \in UncountedPcs THEN 1 ELSE 0)
  BY DEF Bit, HeldAt
<1>2. q.pc \in ClaimPcs => q.pc \notin FreedPcs
  BY DEF ClaimPcs, FreedPcs
<1>3. Bit(PlacedOn(row, h)) \in Int
  BY DEF Bit
<1>4. QED
  BY <1>1, <1>2, <1>3 DEF Held, Counted, HeldBy, CountedBy

\* And elsewhere.
LEMMA StandsElsewhere ==
    ASSUME NEW q, NEW h, q.host # h \/ q.pc \notin ClaimPcs \cup UncountedPcs, NEW row
    PROVE  Held(row, q, h) = Bit(PlacedOn(row, h)) /\ Counted(row, q, h) = Bit(PlacedOn(row, h))
<1>1. /\ ~HeldAt(q, ClaimPcs, h) /\ ~HeldAt(q, FreedPcs, h) /\ ~HeldAt(q, UncountedPcs, h)
  BY DEF HeldAt, ClaimPcs, FreedPcs, UncountedPcs
<1>2. /\ Bit(HeldAt(q, ClaimPcs, h)) = 0 /\ Bit(HeldAt(q, FreedPcs, h)) = 0
      /\ Bit(HeldAt(q, UncountedPcs, h)) = 0
  BY <1>1 DEF Bit
<1>3. Bit(PlacedOn(row, h)) \in Int
  BY DEF Bit
<1>4. QED
  BY <1>2, <1>3 DEF Held, Counted

\* The ledger after a step of a request about the vm of an image, which changes
\* the columns of its host by what it stands for then.
LEMMA LedgerAt ==
    ASSUME TInv, TInv', ImageVmLedger, NEW w \in Threads, NEW i \in Images, Moved(w),
           \A j \in Images \ {i} : imagerow'[j] = imagerow[j],
           NEW h \in Hosts, request[w].host = h,
           request'[w].host = h \/ request'[w].pc = "idle",
           \A k \in Hosts \ {h} : host'[k] = host[k],
           \A k \in Hosts \ {h} : PlacedOn(imagerow'[i], k) <=> PlacedOn(imagerow[i], k),
           LET held == (Bit(PlacedOn(imagerow'[i], h)) + HeldBy(request'[w].pc))
                       - (Bit(PlacedOn(imagerow[i], h)) + HeldBy(request[w].pc))
               counted == (Bit(PlacedOn(imagerow'[i], h)) + CountedBy(request'[w].pc))
                          - (Bit(PlacedOn(imagerow[i], h)) + CountedBy(request[w].pc))
           IN /\ host'[h].vcpu_allocated = host[h].vcpu_allocated + held
              /\ host'[h].mem_allocated = host[h].mem_allocated + held
              /\ host'[h].vm_created = host[h].vm_created + counted
    PROVE  ImageVmLedger'
<1>1. host \in [Hosts -> HostRow]
  BY DEF TInv, HostsInv, HostTypeOK
<1>2. "idle" \notin ClaimPcs \cup UncountedPcs /\ HeldBy("idle") = 0 /\ CountedBy("idle") = 0
  BY DEF HeldBy, CountedBy, ClaimPcs, FreedPcs, UncountedPcs
<1>3. \A k \in Hosts : /\ Bit(PlacedOn(imagerow[i], k)) \in Int /\ Bit(PlacedOn(imagerow'[i], k)) \in Int
  BY DEF Bit
<1>4. /\ Held(imagerow[i], request[w], h) = Bit(PlacedOn(imagerow[i], h)) + HeldBy(request[w].pc)
      /\ Counted(imagerow[i], request[w], h) = Bit(PlacedOn(imagerow[i], h)) + CountedBy(request[w].pc)
  BY StandsFor
<1>5. /\ Held(imagerow'[i], request'[w], h) = Bit(PlacedOn(imagerow'[i], h)) + HeldBy(request'[w].pc)
      /\ Counted(imagerow'[i], request'[w], h) = Bit(PlacedOn(imagerow'[i], h)) + CountedBy(request'[w].pc)
  <2>1. CASE request'[w].host = h
    BY <2>1, StandsFor
  <2>2. CASE request'[w].pc = "idle"
    BY <1>2, <1>3, <2>2, StandsElsewhere
  <2>3. QED
    BY <2>1, <2>2
<1>6. ASSUME NEW k \in Hosts \ {h}
      PROVE  /\ Held(imagerow'[i], request'[w], k) = Held(imagerow[i], request[w], k)
             /\ Counted(imagerow'[i], request'[w], k) = Counted(imagerow[i], request[w], k)
             /\ Held(imagerow[i], request[w], k) \in Int /\ Counted(imagerow[i], request[w], k) \in Int
  BY <1>2, <1>3, StandsElsewhere DEF Bit
<1>7. \A k \in Hosts : /\ host[k].vcpu_allocated \in Int /\ host[k].mem_allocated \in Int
                       /\ host[k].vm_created \in Int
  BY <1>1 DEF HostRow
<1>8. ASSUME NEW k \in Hosts
      PROVE  LET held == Held(imagerow'[i], request'[w], k) - Held(imagerow[i], request[w], k) IN
             /\ host'[k].vcpu_allocated = host[k].vcpu_allocated + held
             /\ host'[k].mem_allocated = host[k].mem_allocated + held
             /\ host'[k].vm_created = host[k].vm_created
                   + (Counted(imagerow'[i], request'[w], k) - Counted(imagerow[i], request[w], k))
  <2>1. CASE k = h
    BY <1>4, <1>5, <2>1
  <2>2. CASE k # h
    BY <1>1, <1>6, <1>7, <2>2
  <2>3. QED
    BY <2>1, <2>2
<1>9. QED
  BY <1>8, LedgerMove

\* The domains after a step that keeps the uuids, of a request that knows of
\* no domain before and after it.
LEMMA QuietDom ==
    ASSUME TInv, TInv', DomInv, NEW w \in Threads, Moved(w),
           \A j \in Images : imagerow'[j].vm_uuid = imagerow[j].vm_uuid,
           \A u \in 1 .. MaxUuid : imgdom'[u] = "none" <=> imgdom[u] = "none",
           request[w].pc \notin DomPcs \/ imagerow[request[w].image].vm_uuid = 0,
           request'[w].pc \notin DomPcs
    PROVE  DomInv'
<1>1. \A j \in Images : imagerow[j].vm_uuid # 0 => imagerow[j].vm_uuid \in 1 .. MaxUuid
  BY ImageAssumption DEF TInv, ImageRow
<1>2. \A u \in 1 .. MaxUuid : imgdom'[u] # "none" => \E i \in Images : imagerow'[i].vm_uuid = u
  BY DEF DomInv
<1>3. ASSUME NEW i \in Images, imagerow[i].vm_uuid # 0, imgdom'[imagerow[i].vm_uuid] = "none"
      PROVE  \E x \in Threads : request'[x].image = i /\ request'[x].pc \in DomPcs
  <2>1. imgdom[imagerow[i].vm_uuid] = "none"
    BY <1>1, <1>3
  <2>2. PICK x \in Threads : request[x].image = i /\ request[x].pc \in DomPcs
    BY <1>3, <2>1 DEF DomInv
  <2>3. x # w
    BY <1>3, <2>2
  <2>4. QED
    BY <2>2, <2>3 DEF Moved
<1>4. ASSUME NEW x \in Threads, request'[x].pc \in DomPcs, imagerow'[request'[x].image].vm_uuid # 0
      PROVE  imgdom'[imagerow'[request'[x].image].vm_uuid] = "none"
  BY <1>1, <1>4, DomImage DEF Moved, TInv, DomInv
<1>5. QED
  BY <1>2, <1>3, <1>4 DEF DomInv

\* The domain of a vm that one request is about, before a step of it.
LEMMA DomWas ==
    ASSUME VmInv, DomInv, NEW w \in Threads, request[w].op \in VmOps, request[w].image \in Images,
           imagerow[request[w].image].vm_uuid # 0
    PROVE  imgdom[imagerow[request[w].image].vm_uuid] = "none" <=> request[w].pc \in DomPcs
<1>1. ASSUME imgdom[imagerow[request[w].image].vm_uuid] = "none"
      PROVE  request[w].pc \in DomPcs
  <2>1. PICK x \in Threads : request[x].image = request[w].image /\ request[x].pc \in DomPcs
    BY <1>1 DEF DomInv
  <2>2. CASE x # w
    BY <2>1, <2>2, OthersKnow
  <2>3. QED
    BY <2>1, <2>2
<1>2. QED
  BY <1>1 DEF DomInv

\* And the domains after it.
LEMMA DomAlone ==
    ASSUME VmInv, VmInv', DomInv, NEW w \in Threads, Moved(w), request[w].op \in VmOps,
           NEW i \in Images, request[w].image = i,
           request[w].op \in VmOnly \/ imagerow[i].vm_uuid # 0,
           \A j \in Images \ {i} : imagerow'[j] = imagerow[j],
           \A u \in (1 .. MaxUuid) \ {imagerow[i].vm_uuid, imagerow'[i].vm_uuid} :
              imgdom'[u] = imgdom[u],
           imagerow[i].vm_uuid # imagerow'[i].vm_uuid /\ imagerow[i].vm_uuid # 0
           => imgdom'[imagerow[i].vm_uuid] = "none",
           imagerow'[i].vm_uuid # 0
           => (imgdom'[imagerow'[i].vm_uuid] = "none" <=> request'[w].pc \in DomPcs)
    PROVE  DomInv'
<1>1. \A j \in Images : /\ imagerow[j].vm_uuid # 0 => imagerow[j].vm_uuid \in 1 .. MaxUuid
                        /\ imagerow'[j].vm_uuid # 0 => imagerow'[j].vm_uuid \in 1 .. MaxUuid
  BY ImageAssumption DEF VmInv, MInv, TInv, ImageRow
<1>2. ASSUME NEW j \in Images \ {i}, imagerow[j].vm_uuid # 0
      PROVE  /\ imagerow[j].vm_uuid # imagerow[i].vm_uuid /\ imagerow[j].vm_uuid # imagerow'[i].vm_uuid
             /\ imgdom'[imagerow[j].vm_uuid] = imgdom[imagerow[j].vm_uuid]
  BY <1>1, <1>2 DEF VmInv, VmRows
<1>3. request[w].pc # "idle"
  BY IdleRequest DEF VmInv, MInv, TInv, NoRequest, VmOps, VmOnly
<1>4. request'[w].pc \in DomPcs => request'[w].image = i
  BY <1>3, GoesOn DEF NoRequest, DomPcs
<1>5. ASSUME NEW u \in 1 .. MaxUuid, imgdom'[u] # "none"
      PROVE  \E j \in Images : imagerow'[j].vm_uuid = u
  <2>1. CASE u = imagerow'[i].vm_uuid
    BY <2>1
  <2>2. CASE u # imagerow'[i].vm_uuid /\ u # imagerow[i].vm_uuid
    <3>1. imgdom[u] # "none"
      BY <1>5, <2>2
    <3>2. PICK j \in Images : imagerow[j].vm_uuid = u
      BY <3>1 DEF DomInv
    <3>3. QED
      BY <2>2, <3>2
  <2>3. QED
    BY <1>5, <2>1, <2>2, ImageAssumption
<1>6. ASSUME NEW j \in Images, imagerow'[j].vm_uuid # 0, imgdom'[imagerow'[j].vm_uuid] = "none"
      PROVE  \E x \in Threads : request'[x].image = j /\ request'[x].pc \in DomPcs
  <2>1. CASE j = i
    BY <1>4, <1>6, <2>1
  <2>2. CASE j # i
    <3>1. PICK x \in Threads : request[x].image = j /\ request[x].pc \in DomPcs
      BY <1>2, <1>6, <2>2 DEF DomInv
    <3>2. QED
      BY <2>2, <3>1 DEF Moved
  <2>3. QED
    BY <2>1, <2>2
<1>7. ASSUME NEW x \in Threads, request'[x].pc \in DomPcs, imagerow'[request'[x].image].vm_uuid # 0
      PROVE  imgdom'[imagerow'[request'[x].image].vm_uuid] = "none"
  <2>1. CASE x = w
    BY <1>4, <1>7, <2>1
  <2>2. CASE x # w
    <3>1. request'[x] = request[x]
      BY <2>2 DEF Moved
    <3>2. Formed(request[x])
      BY DEF VmInv, MInv, TInv
    <3>3. request[x].image \in Images
      BY <1>7, <3>1, <3>2, DomImage
    <3>4. request[x].image # i
      BY <1>7, <2>2, <3>1, OthersKnow
    <3>5. imagerow'[request[x].image] = imagerow[request[x].image]
      BY <3>3, <3>4
    <3>6. imgdom[imagerow[request[x].image].vm_uuid] = "none"
      BY <1>7, <3>1, <3>5 DEF DomInv
    <3>7. QED
      BY <1>2, <1>7, <3>1, <3>3, <3>4, <3>5, <3>6
  <2>3. QED
    BY <2>1, <2>2
<1>8. QED
  BY <1>5, <1>6, <1>7 DEF DomInv

\* A row that is saved by a request that ends, with the columns of its vm as they are.
LEMMA SamePlaceMoved ==
    ASSUME VmInv, MInv', UNCHANGED <<setting, imgdom, last_uuid, host>>, NEW w \in Threads, Moved(w),
           request'[w] = NoRequest, request[w].pc \in {"insert", "save_all"}, NEW i \in Images,
           \A j \in Images \ {i} : imagerow'[j] = imagerow[j],
           SamePlace(imagerow[i], imagerow'[i]), PlaceSound(imagerow'[i], last_uuid)
    PROVE  VmKept
<1>1. request[w].pc \notin ClaimPcs \cup UncountedPcs \cup DomPcs
  BY DEF ClaimPcs, UncountedPcs, DomPcs
<1>2. /\ VmKnows(request'[w], imagerow'[request'[w].image])
      /\ request'[w].op \notin VmOps
      /\ request'[w].pc \notin ClaimPcs \cup UncountedPcs \cup DomPcs
  BY NoRequestKnows
<1>3. TInv /\ TInv' /\ last_uuid' \in Int
  BY DEF VmInv, MInv, TInv
<1>4. VmInv'
  BY <1>2, <1>3, SamePlaceKnown, RowsMove DEF VmInv, VmRows, SamePlace, NoPlace, VmOps
<1>5. ImageVmLedger => ImageVmLedger'
  BY <1>1, <1>2, <1>3, QuietLedger DEF PlacedOn, SamePlace
<1>6. DomInv => DomInv'
  BY <1>1, <1>2, <1>3, QuietDom DEF SamePlace
<1>7. QED
  BY <1>4, <1>5, <1>6 DEF VmKept

\* The insert of a row, and the save of every column of one.
LEMMA SaveRowVms ==
    ASSUME VmInv, MInv', UNCHANGED setting, NEW w \in Threads, InsertImage(w) \/ SaveImage(w)
    PROVE  VmKept
<1>1. /\ TInv /\ Formed(request[w]) /\ request[w] \in RequestState /\ request[w].row \in ImageRow
      /\ VmKnows(request[w], imagerow[request[w].image])
  BY DEF VmInv, MInv, VmRows, TInv, Formed, RequestState
<1> DEFINE i == request[w].image
<1>2. CASE InsertImage(w)
  <2>1. /\ Moved(w) /\ request'[w] = NoRequest
        /\ request[w].pc = "insert" /\ i \in Images
        /\ UNCHANGED <<imgdom, last_uuid, host>>
        /\ IF imagerow[i].live THEN imagerow' = imagerow
           ELSE imagerow' = [imagerow EXCEPT ![i] = [request[w].row EXCEPT !.live = TRUE, !.enable = TRUE]]
    BY <1>1, <1>2, InsertImageTyped
  <2>2. PlaceSound(imagerow[i], last_uuid) /\ imagerow \in [Images -> ImageRow]
    BY <1>1, <2>1 DEF VmInv, VmRows, TInv
  <2>3. request[w].op \in {"add_image", "release"}
    BY <1>1, <2>1, OpsAt
  <2>4. NoPlace(request[w].row)
    BY <1>1, <2>3 DEF VmKnows
  <2> HIDE DEF i
  <2>5. \A j \in Images \ {i} : imagerow'[j] = imagerow[j]
    BY <2>1, <2>2
  <2>6. SamePlace(imagerow[i], imagerow'[i]) /\ PlaceSound(imagerow'[i], last_uuid)
    <3>1. CASE imagerow[i].live
      BY <2>1, <2>2, <3>1 DEF SamePlace
    <3>2. CASE ~imagerow[i].live
      <4>1. imagerow'[i] = [request[w].row EXCEPT !.live = TRUE, !.enable = TRUE]
        BY <2>1, <2>2, <3>2
      <4>2. imagerow'[i].vm_uuid = 0 /\ imagerow'[i].vm_host = NoOne /\ imagerow'[i].live
        BY <1>1, <2>4, <4>1 DEF NoPlace, ImageRow
      <4>3. NoPlace(imagerow[i])
        BY <2>2, <3>2 DEF PlaceSound
      <4>4. QED
        BY <4>2, <4>3 DEF SamePlace, NoPlace, PlaceSound
    <3>3. QED
      BY <3>1, <3>2
  <2>7. QED
    BY <2>1, <2>5, <2>6, SamePlaceMoved
<1>3. CASE SaveImage(w)
  <2>1. /\ Moved(w) /\ request'[w] = NoRequest
        /\ request[w].pc = "save_all" /\ i \in Images
        /\ imagerow' = [imagerow EXCEPT ![i] = request[w].row]
    BY <1>1, <1>3, SaveImageTyped
  <2>2. UNCHANGED <<imgdom, last_uuid, host>>
    BY <1>3 DEF SaveImage, OnlyImageRow, DomainsSame
  <2>3. PlaceSound(imagerow[i], last_uuid) /\ imagerow \in [Images -> ImageRow]
    BY <1>1, <2>1 DEF VmInv, VmRows, TInv
  <2>4. request[w].op \in {"snap_update", "enable_update"}
    BY <1>1, <2>1, OpsAt
  <2>5. request[w].row.live /\ SamePlace(request[w].row, imagerow[i])
    BY <1>1, <2>4 DEF VmKnows
  <2> HIDE DEF i
  <2>6. imagerow'[i] = request[w].row /\ \A j \in Images \ {i} : imagerow'[j] = imagerow[j]
    BY <2>1, <2>3
  <2>7. SamePlace(imagerow[i], imagerow'[i]) /\ PlaceSound(imagerow'[i], last_uuid)
    BY <2>3, <2>5, <2>6 DEF SamePlace, PlaceSound
  <2>8. QED
    BY <2>1, <2>2, <2>6, <2>7, SamePlaceMoved
<1>4. QED
  BY <1>2, <1>3

\* The vm of a row is cleared, or the row deleted.
LEMMA RowCleared ==
    ASSUME VmInv, MInv', UNCHANGED <<setting, imgdom, last_uuid, host>>, NEW w \in Threads, Moved(w),
           request[w].pc \in {"clear", "image_rowdel"}, request'[w] = NoRequest,
           NEW i \in Images, request[w].image = i,
           \A j \in Images \ {i} : imagerow'[j] = imagerow[j],
           imagerow'[i].vm_uuid = 0, ~imagerow'[i].live => NoPlace(imagerow'[i]),
           NoVms(setting) => NoPlace(imagerow'[i])
    PROVE  VmKept
<1>1. /\ TInv /\ TInv' /\ Formed(request[w]) /\ VmKnows(request[w], imagerow[i])
      /\ PlaceSound(imagerow[i], last_uuid)
  BY DEF VmInv, MInv, VmRows, TInv
<1>2. request[w].op \in VmOps
  BY <1>1, OpsAt DEF VmOps, VmOnly
<1>3. /\ VmKnows(request'[w], imagerow'[request'[w].image])
      /\ request'[w].op \notin VmOps /\ request'[w].host = NoOne
      /\ request'[w].pc \notin ClaimPcs \cup UncountedPcs \cup DomPcs
  BY NoRequestKnows
<1>4. \/ imagerow[i].vm_uuid # 0 /\ imagerow[i].vm_host = request[w].host
      \/ imagerow[i].vm_uuid = 0 /\ request[w].host = NoOne
  BY <1>1 DEF VmKnows
<1>5. VmInv'
  <2>1. ASSUME NEW x \in Threads \ {w}, request[x].image = i
        PROVE  VmKnows(request[x], imagerow'[i])
    <3>1. VmKnows(request[x], imagerow[i]) /\ Formed(request[x])
      BY <1>1, <2>1 DEF VmInv, VmRows, TInv
    <3>2. CASE NoVms(setting)
      BY <3>1, <3>2, SamePlaceKnown DEF VmInv, VmRows, SamePlace, NoPlace
    <3>3. CASE ~NoVms(setting)
      BY <1>2, <2>1, <3>1, <3>3, AloneHere, NotAboutVm
    <3>4. QED
      BY <3>2, <3>3
  <2>2. PlaceSound(imagerow'[i], last_uuid')
    BY DEF PlaceSound
  <2>3. last_uuid <= last_uuid'
    BY <1>1, ImageAssumption DEF TInv
  <2>4. NoVms(setting) => NoPlace(imagerow'[i]) /\ request'[w].op \notin VmOnly
    BY <1>3 DEF VmOps
  <2>5. QED
    BY <1>3, <2>1, <2>2, <2>3, <2>4, RowsMove
<1>6. ASSUME ImageVmLedger
      PROVE  ImageVmLedger'
  <2>1. \A h : ~PlacedOn(imagerow'[i], h)
    BY DEF PlacedOn
  <2>2. CASE imagerow[i].vm_uuid = 0
    BY <1>1, <1>3, <1>4, <1>6, <2>1, <2>2, QuietLedger DEF PlacedOn
  <2>3. CASE imagerow[i].vm_uuid # 0
    <3>7. PICK h \in Hosts : request[w].host = h
      BY <1>1, <1>4, <2>3 DEF PlaceSound
    <3>1. PlacedOn(imagerow[i], h) /\ \A k \in Hosts \ {h} : ~PlacedOn(imagerow[i], k)
      BY <1>1, <1>4, <2>3, <3>7 DEF PlacedOn
    <3>2. Bit(PlacedOn(imagerow[i], h)) = 1 /\ Bit(PlacedOn(imagerow'[i], h)) = 0
      BY <2>1, <3>1 DEF Bit
    <3>3. request'[w].pc = "idle"
      BY DEF NoRequest
    <3>4. /\ HeldBy(request[w].pc) = -1 /\ CountedBy(request[w].pc) = -1
          /\ HeldBy(request'[w].pc) = 0 /\ CountedBy(request'[w].pc) = 0
      BY <3>3 DEF HeldBy, CountedBy, ClaimPcs, FreedPcs, UncountedPcs
    <3>5. host[h] \in HostRow
      BY <1>1, <3>1 DEF TInv, HostsInv, HostTypeOK
    <3>6. LET held == (Bit(PlacedOn(imagerow'[i], h)) + HeldBy(request'[w].pc))
                       - (Bit(PlacedOn(imagerow[i], h)) + HeldBy(request[w].pc))
              counted == (Bit(PlacedOn(imagerow'[i], h)) + CountedBy(request'[w].pc))
                          - (Bit(PlacedOn(imagerow[i], h)) + CountedBy(request[w].pc))
          IN /\ host'[h].vcpu_allocated = host[h].vcpu_allocated + held
             /\ host'[h].mem_allocated = host[h].mem_allocated + held
             /\ host'[h].vm_created = host[h].vm_created + counted
      BY <3>2, <3>4, <3>5 DEF HostRow
    <3>8. \A k \in Hosts \ {h} : PlacedOn(imagerow'[i], k) <=> PlacedOn(imagerow[i], k)
      BY <2>1, <3>1
    <3>9. \A k \in Hosts \ {h} : host'[k] = host[k]
      OBVIOUS
    <3>10. QED
      BY <1>1, <1>6, <3>3, <3>6, <3>7, <3>8, <3>9, LedgerAt
  <2>4. QED
    BY <2>2, <2>3
<1>7. ASSUME DomInv
      PROVE  DomInv'
  <2>1. CASE imagerow[i].vm_uuid = 0
    BY <1>1, <1>3, <1>7, <2>1, QuietDom
  <2>2. CASE imagerow[i].vm_uuid # 0
    BY <1>2, <1>3, <1>5, <1>7, <2>2, DomWas, DomAlone DEF DomPcs
  <2>3. QED
    BY <2>1, <2>2
<1>8. QED
  BY <1>5, <1>6, <1>7 DEF VmKept

\* The two requests that do.
LEMMA ClearVms ==
    ASSUME VmInv, MInv', UNCHANGED setting, NEW w \in Threads, ClearImageVm(w) \/ DeleteImageRow(w)
    PROVE  VmKept
<1>1. /\ TInv /\ Formed(request[w]) /\ imagerow \in [Images -> ImageRow]
      /\ VmKnows(request[w], imagerow[request[w].image])
  BY DEF VmInv, MInv, VmRows, TInv
<1> DEFINE i == request[w].image
<1>2. CASE ClearImageVm(w)
  <2>1. /\ Moved(w) /\ request'[w] = NoRequest
        /\ request[w].pc = "clear" /\ i \in Images
        /\ OnlyImageRow
        /\ \A j \in Images \ {i} : imagerow'[j] = imagerow[j]
        /\ ~imagerow[i].live => imagerow'[i] = imagerow[i]
        /\ imagerow[i].live => imagerow'[i] =
              [imagerow[i] EXCEPT
                 !.vm_uuid = IF request[w].op = "delshelve_image_vm" THEN imagerow[i].vm_uuid ELSE 0,
                 !.vm_host = IF request[w].op = "shelve_image_vm" THEN imagerow[i].vm_host ELSE NoOne]
    BY <1>1, <1>2, ClearImageVmTyped
  <2>2. UNCHANGED <<imgdom, last_uuid, host>>
    BY <2>1 DEF OnlyImageRow, DomainsSame
  <2>3. /\ PlaceSound(imagerow[i], last_uuid) /\ imagerow[i] \in ImageRow
        /\ NoVms(setting) => request[w].op \notin VmOnly
    BY <1>1, <2>1 DEF VmInv, VmRows
  <2>4. request[w].op \in VmOnly
    BY <1>1, <2>1, OpsAt DEF VmOnly
  <2>5. request[w].op = "delshelve_image_vm" => imagerow[i].vm_uuid = 0
    BY <1>1 DEF VmKnows
  <2> HIDE DEF i
  <2>6. imagerow'[i].vm_uuid = 0 /\ (~imagerow'[i].live => NoPlace(imagerow'[i]))
    <3>1. CASE imagerow[i].live
      <4> DEFINE u == IF request[w].op = "delshelve_image_vm" THEN imagerow[i].vm_uuid ELSE 0
                 h == IF request[w].op = "shelve_image_vm" THEN imagerow[i].vm_host ELSE NoOne
      <4>1. imagerow'[i] = [imagerow[i] EXCEPT !.vm_uuid = u, !.vm_host = h] /\ u = 0
        BY <2>1, <2>5, <3>1
      <4> HIDE DEF u, h
      <4>2. imagerow'[i].vm_uuid = u /\ imagerow'[i].live = imagerow[i].live
        BY <2>3, <4>1 DEF ImageRow
      <4>3. QED
        BY <3>1, <4>1, <4>2
    <3>2. CASE ~imagerow[i].live
      BY <2>1, <2>3, <3>2 DEF PlaceSound, NoPlace
    <3>3. QED
      BY <3>1, <3>2
  <2>7. request[w].image = i
    BY DEF i
  <2>8. QED
    BY <2>1, <2>2, <2>3, <2>4, <2>6, <2>7, RowCleared
<1>3. CASE DeleteImageRow(w)
  <2>1. /\ Moved(w) /\ request'[w] = NoRequest
        /\ request[w].pc = "image_rowdel" /\ i \in Images
        /\ UNCHANGED <<imgdom, last_uuid, host>>
        /\ imagerow' = [imagerow EXCEPT ![i] = NoImageRow]
    BY <1>1, <1>3, DeleteImageRowTyped
  <2>2. NoImageRow.vm_uuid = 0 /\ NoPlace(NoImageRow)
    BY DEF NoImageRow, NoPlace
  <2>3. request[w].image = i
    OBVIOUS
  <2> HIDE DEF i
  <2>4. imagerow'[i] = NoImageRow /\ \A j \in Images \ {i} : imagerow'[j] = imagerow[j]
    BY <1>1, <2>1
  <2>5. QED
    BY <2>1, <2>2, <2>3, <2>4, RowCleared
<1>4. QED
  BY <1>2, <1>3

\* The columns of the host of a request, which changes them by what it stands for then.
HostFollows(h, pc, next) ==
    /\ \A k \in Hosts \ {h} : host'[k] = host[k]
    /\ host'[h].vcpu_allocated = host[h].vcpu_allocated + (HeldBy(next) - HeldBy(pc))
    /\ host'[h].mem_allocated = host[h].mem_allocated + (HeldBy(next) - HeldBy(pc))
    /\ host'[h].vm_created = host[h].vm_created + (CountedBy(next) - CountedBy(pc))

\* A step of a request about the vm of an image that leaves rows and domains.
LEMMA VmGoesOn ==
    ASSUME VmInv, MInv', UNCHANGED <<setting, imagerow, imgdom, last_uuid>>,
           NEW w \in Threads, Moved(w), request[w].op \in VmOps,
           NEW i \in Images, request[w].image = i,
           request[w].op \in VmOnly \/ imagerow[i].vm_uuid # 0,
           request'[w] = NoRequest \/ VmKnows(request'[w], imagerow[i]),
           request'[w].pc \in DomPcs <=> request[w].pc \in DomPcs,
           NEW h \in Hosts, request[w].host = h, request'[w].host = h \/ request'[w].pc = "idle",
           Breaks("no_address") \/ HostFollows(h, request[w].pc, request'[w].pc)
    PROVE  VmKept
<1>1. /\ TInv /\ TInv' /\ Formed(request[w]) /\ Formed(request'[w])
  BY DEF VmInv, MInv, TInv
<1>2. request[w].pc # "idle"
  BY <1>1, NoRequestKnows, IdleRequest
<1>3. /\ VmKnows(request'[w], imagerow[request'[w].image])
      /\ NoVms(setting) => request'[w].op \notin VmOnly
  <2>1. CASE request'[w] = NoRequest
    BY <2>1, NoRequestKnows DEF VmOps
  <2>2. CASE request'[w] # NoRequest
    BY <1>2, <2>2, GoesOn DEF VmInv, VmRows
  <2>3. QED
    BY <2>1, <2>2
<1>4. VmInv'
  BY <1>3, RowsStay
<1>5. ASSUME ImageVmLedger, ~Breaks("no_address")
      PROVE  ImageVmLedger'
  <2>1. HostFollows(h, request[w].pc, request'[w].pc)
    BY <1>5
  <2>2. Bit(PlacedOn(imagerow[i], h)) \in Int /\ imagerow'[i] = imagerow[i]
    BY DEF Bit
  <2>3. /\ HeldBy(request[w].pc) \in Int /\ HeldBy(request'[w].pc) \in Int
        /\ CountedBy(request[w].pc) \in Int /\ CountedBy(request'[w].pc) \in Int
    BY DEF HeldBy, CountedBy
  <2>4. LET held == (Bit(PlacedOn(imagerow'[i], h)) + HeldBy(request'[w].pc))
                     - (Bit(PlacedOn(imagerow[i], h)) + HeldBy(request[w].pc))
            counted == (Bit(PlacedOn(imagerow'[i], h)) + CountedBy(request'[w].pc))
                        - (Bit(PlacedOn(imagerow[i], h)) + CountedBy(request[w].pc))
        IN /\ host'[h].vcpu_allocated = host[h].vcpu_allocated + held
           /\ host'[h].mem_allocated = host[h].mem_allocated + held
           /\ host'[h].vm_created = host[h].vm_created + counted
    BY <2>1, <2>2, <2>3 DEF HostFollows
  <2>5. \A k \in Hosts \ {h} : host'[k] = host[k]
    BY <2>1 DEF HostFollows
  <2>6. QED
    BY <1>1, <1>5, <2>2, <2>4, <2>5, LedgerAt
<1>6. ASSUME DomInv
      PROVE  DomInv'
  BY <1>4, <1>6, DomWas, DomAlone
<1>7. QED
  BY <1>4, <1>5, <1>6 DEF VmKept

\* What the steps of these requests do to the columns.
LEMMA HostMoves ==
    ASSUME TInv, NEW h \in Hosts, NEW pc, NEW next
    PROVE  /\ host' = host /\ HeldBy(pc) = HeldBy(next) /\ CountedBy(pc) = CountedBy(next)
              => HostFollows(h, pc, next)
           /\ deduct_delta(h, 1, 1) /\ HeldBy(next) = HeldBy(pc) + 1 /\ CountedBy(pc) = CountedBy(next)
              => HostFollows(h, pc, next)
           /\ free(h, 1, 1) /\ HeldBy(next) = HeldBy(pc) - 1 /\ CountedBy(pc) = CountedBy(next)
              => HostFollows(h, pc, next)
           /\ vm_created_num_add_1(h) /\ HeldBy(pc) = HeldBy(next) /\ CountedBy(next) = CountedBy(pc) + 1
              => HostFollows(h, pc, next)
           /\ vm_created_num_sub_1(h) /\ HeldBy(pc) = HeldBy(next) /\ CountedBy(next) = CountedBy(pc) - 1
              => HostFollows(h, pc, next)
<1>1. host \in [Hosts -> HostRow]
  BY DEF TInv, HostsInv, HostTypeOK
<1>2. /\ HeldBy(pc) \in Int /\ HeldBy(next) \in Int /\ CountedBy(pc) \in Int /\ CountedBy(next) \in Int
      /\ host[h].vcpu_allocated \in Int /\ host[h].mem_allocated \in Int /\ host[h].vm_created \in Int
  BY <1>1 DEF HeldBy, CountedBy, HostRow
<1>3. ASSUME host' = host, HeldBy(pc) = HeldBy(next), CountedBy(pc) = CountedBy(next)
      PROVE  HostFollows(h, pc, next)
  BY <1>2, <1>3 DEF HostFollows
<1>4. ASSUME deduct_delta(h, 1, 1), HeldBy(next) = HeldBy(pc) + 1, CountedBy(pc) = CountedBy(next)
      PROVE  HostFollows(h, pc, next)
  BY <1>1, <1>2, <1>4 DEF deduct_delta, HostFollows
<1>5. ASSUME free(h, 1, 1), HeldBy(next) = HeldBy(pc) - 1, CountedBy(pc) = CountedBy(next)
      PROVE  HostFollows(h, pc, next)
  <2>1. deduct_delta(h, -1, -1)
    BY <1>5, FreeMatches DEF TInv
  <2>2. /\ \A k \in Hosts \ {h} : host'[k] = host[k]
        /\ host'[h].vcpu_allocated = host[h].vcpu_allocated + (-1)
        /\ host'[h].mem_allocated = host[h].mem_allocated + (-1)
        /\ host'[h].vm_created = host[h].vm_created
    BY <1>1, <2>1 DEF deduct_delta
  <2>3. QED
    BY <1>2, <1>5, <2>2 DEF HostFollows
<1>6. ASSUME vm_created_num_add_1(h), HeldBy(pc) = HeldBy(next), CountedBy(next) = CountedBy(pc) + 1
      PROVE  HostFollows(h, pc, next)
  BY <1>1, <1>2, <1>6 DEF vm_created_num_add_1, HostFollows, HostRow
<1>7. ASSUME vm_created_num_sub_1(h), HeldBy(pc) = HeldBy(next), CountedBy(next) = CountedBy(pc) - 1
      PROVE  HostFollows(h, pc, next)
  BY <1>1, <1>2, <1>7 DEF vm_created_num_sub_1, HostFollows, HostRow
<1>8. QED
  BY <1>3, <1>4, <1>5, <1>6, <1>7

\* What requests stand for, by step.
LEMMA StepsStandFor ==
    /\ \A pc \in {"idle", "claim", "undefine", "vm_created_sub"} : HeldBy(pc) = 0 /\ CountedBy(pc) = 0
    /\ \A pc \in {"get_image", "save_vm", "unclaim"} : HeldBy(pc) = 1 /\ CountedBy(pc) = 0
    /\ \A pc \in {"define_vm", "reset_vm", "vm_created_add", "free"} : HeldBy(pc) = 0 /\ CountedBy(pc) = -1
    /\ \A pc \in {"clear", "image_rowdel"} : HeldBy(pc) = -1 /\ CountedBy(pc) = -1
  BY DEF HeldBy, CountedBy, ClaimPcs, FreedPcs, UncountedPcs

\* The steps that change a host, and those of a claim that change nothing but it.
LEMMA HostVms ==
    ASSUME VmInv, MInv', UNCHANGED setting, NEW w \in Threads,
           \/ RemovedImageVm(w) \/ FreeImageVm(w) \/ ClaimForImage(w) \/ GetImage(w)
           \/ UnclaimForImage(w) \/ CreatedImageVm(w)
    PROVE  VmKept
<1>1. /\ TInv /\ Formed(request[w]) /\ request[w] \in RequestState
      /\ VmKnows(request[w], imagerow[request[w].image])
      /\ NoRequest.pc = "idle" /\ NoRequest.op \notin VmOps
  BY NoRequestKnows DEF VmInv, MInv, VmRows, TInv, NoRequest, Formed
<1>2. request[w].pc \in {"vm_created_sub", "free", "claim", "get_image", "unclaim", "vm_created_add"}
  BY DEF RemovedImageVm, FreeImageVm, ClaimForImage, GetImage, UnclaimForImage, CreatedImageVm, InStep
<1>3. /\ request[w].op \in VmOps
      /\ request[w].pc \in {"vm_created_sub", "free"}
         => request[w].op \in {"delete_image", "shelve_image_vm", "delete_image_vm"}
      /\ request[w].pc \in {"claim", "get_image", "unclaim", "vm_created_add"}
         => request[w].op \in {"create_image_vm", "unshelve_image_vm"}
  BY <1>1, <1>2, OpsAt DEF VmOps, VmOnly
<1>4. request[w].pc # "idle" /\ request[w].op \notin MachineOnly
  BY <1>2, <1>3 DEF MachineOnly
<1>5. PICK i \in Images : request[w].image = i
  BY <1>1, <1>4, AboutAt
<1>6. PlaceSound(imagerow[i], last_uuid) /\ VmKnows(request[w], imagerow[i])
  BY <1>1, <1>5 DEF VmInv, VmRows
<1>7. /\ request[w].op \in VmOnly \/ imagerow[i].vm_uuid # 0
      /\ request[w].host \in Hosts
  BY <1>1, <1>2, <1>3, <1>4, <1>6, AboutAt DEF VmKnows, PlaceSound, VmOnly
<1>8. PICK h \in Hosts : request[w].host = h
  BY <1>7
<1> DEFINE q == request'[w]
<1>9. SUFFICES /\ UNCHANGED <<imagerow, imgdom, last_uuid>> /\ Moved(w)
               /\ q = NoRequest \/ (VmKnows(q, imagerow[i]) /\ q.host = h)
               /\ q.pc \in DomPcs <=> request[w].pc \in DomPcs
               /\ Breaks("no_address") \/ HostFollows(h, request[w].pc, q.pc)
  BY <1>1, <1>3, <1>5, <1>7, <1>8, VmGoesOn
<1>10. CASE RemovedImageVm(w)
  <2>1. /\ Moved(w) /\ q = [request[w] EXCEPT !.pc = "free"]
        /\ request[w].pc = "vm_created_sub" /\ vm_created_num_sub_1(request[w].host)
        /\ UNCHANGED <<imagerow, imgdom, last_uuid>>
    BY <1>1, <1>10, RemovedImageVmTyped
  <2>2. q.pc = "free" /\ q.op = request[w].op /\ q.host = h
    BY <1>1, <1>8, <2>1 DEF RequestState
  <2> HIDE DEF q
  <2>3. HostFollows(h, request[w].pc, q.pc)
    BY <1>1, <1>8, <2>1, <2>2, HostMoves, StepsStandFor
  <2>4. VmKnows(q, imagerow[i])
    BY <1>3, <1>6, <1>8, <2>1, <2>2 DEF VmKnows
  <2>5. QED
    BY <2>1, <2>2, <2>3, <2>4 DEF DomPcs
<1>11. CASE FreeImageVm(w)
  <2>1. /\ Moved(w) /\ q = [request[w] EXCEPT !.pc = AfterRemoval(request[w].op)]
        /\ request[w].pc = "free" /\ free(request[w].host, 1, 1)
        /\ UNCHANGED <<imagerow, imgdom, last_uuid>>
    BY <1>1, <1>11, FreeImageVmTyped
  <2>2. q.pc \in {"clear", "image_rowdel"} /\ q.op = request[w].op /\ q.host = h
    BY <1>1, <1>8, <2>1 DEF RequestState, AfterRemoval
  <2> HIDE DEF q
  <2>3. HostFollows(h, request[w].pc, q.pc)
    BY <1>1, <1>8, <2>1, <2>2, HostMoves, StepsStandFor
  <2>4. VmKnows(q, imagerow[i])
    BY <1>3, <1>6, <1>8, <2>1, <2>2 DEF VmKnows
  <2>5. QED
    BY <2>1, <2>2, <2>3, <2>4 DEF DomPcs
<1>12. CASE ClaimForImage(w)
  <2>1. /\ Moved(w) /\ request[w].pc = "claim"
        /\ UNCHANGED <<imagerow, imgdom, last_uuid>>
        /\ \/ /\ deduct_delta(request[w].host, 1, 1)
              /\ q = [request[w] EXCEPT !.pc = "get_image"]
           \/ /\ deduct_delta(request[w].host, 1, 1) /\ Breaks("no_address")
              /\ q = NoRequest
           \/ host' = host /\ q = NoRequest
    BY <1>1, <1>12, ClaimForImageTyped
  <2>2. CASE q = NoRequest
    <3>1. q.pc = "idle" /\ (Breaks("no_address") \/ host' = host)
      BY <1>1, <2>1, <2>2 DEF RequestState
    <3> HIDE DEF q
    <3>2. Breaks("no_address") \/ HostFollows(h, request[w].pc, q.pc)
      BY <1>1, <2>1, <3>1, HostMoves, StepsStandFor
    <3>3. QED
      BY <2>1, <2>2, <3>1, <3>2 DEF DomPcs
  <2>3. CASE q # NoRequest
    <3>1. q.pc = "get_image" /\ q.op = request[w].op /\ q.host = h /\ deduct_delta(h, 1, 1)
      BY <1>1, <1>8, <2>1, <2>3 DEF RequestState
    <3> HIDE DEF q
    <3>2. HostFollows(h, request[w].pc, q.pc)
      BY <1>1, <2>1, <3>1, HostMoves, StepsStandFor
    <3>3. VmKnows(q, imagerow[i])
      BY <1>3, <1>6, <2>1, <3>1 DEF VmKnows
    <3>4. QED
      BY <2>1, <3>1, <3>2, <3>3 DEF DomPcs
  <2>4. QED
    BY <2>2, <2>3
<1>13. CASE GetImage(w)
  <2>1. /\ Moved(w) /\ OnlyRequest /\ request[w].pc = "get_image"
        /\ q = [request[w] EXCEPT !.row = imagerow[request[w].image],
                  !.pc = IF imagerow[request[w].image].live THEN "save_vm" ELSE "unclaim"]
    BY <1>1, <1>13, GetImageTyped
  <2>2. q.pc \in {"save_vm", "unclaim"} /\ q.op = request[w].op /\ q.host = h
    BY <1>1, <1>8, <2>1 DEF RequestState
  <2>3. UNCHANGED <<imagerow, imgdom, last_uuid, host>>
    BY <2>1 DEF OnlyRequest, OnlyCeph, ImageRowsSame, DomainsSame
  <2> HIDE DEF q
  <2>4. HostFollows(h, request[w].pc, q.pc)
    BY <1>1, <2>1, <2>2, <2>3, HostMoves, StepsStandFor
  <2>5. VmKnows(q, imagerow[i])
    BY <1>3, <1>6, <2>1, <2>2 DEF VmKnows
  <2>6. QED
    BY <2>1, <2>2, <2>3, <2>4, <2>5 DEF DomPcs
<1>14. CASE UnclaimForImage(w)
  <2>1. /\ Moved(w) /\ q = NoRequest /\ request[w].pc = "unclaim" /\ free(request[w].host, 1, 1)
        /\ UNCHANGED <<imagerow, imgdom, last_uuid>>
    BY <1>1, <1>14, UnclaimForImageTyped
  <2>2. q.pc = "idle"
    BY <1>1, <2>1
  <2> HIDE DEF q
  <2>3. HostFollows(h, request[w].pc, q.pc)
    BY <1>1, <1>8, <2>1, <2>2, HostMoves, StepsStandFor
  <2>4. QED
    BY <2>1, <2>2, <2>3 DEF DomPcs
<1>15. CASE CreatedImageVm(w)
  <2>1. /\ Moved(w) /\ q = NoRequest
        /\ request[w].pc = "vm_created_add" /\ vm_created_num_add_1(request[w].host)
        /\ UNCHANGED <<imagerow, imgdom, last_uuid>>
    BY <1>1, <1>15, CreatedImageVmTyped
  <2>2. q.pc = "idle"
    BY <1>1, <2>1
  <2> HIDE DEF q
  <2>3. HostFollows(h, request[w].pc, q.pc)
    BY <1>1, <1>8, <2>1, <2>2, HostMoves, StepsStandFor
  <2>4. QED
    BY <2>1, <2>2, <2>3 DEF DomPcs
<1>16. QED
  BY <1>10, <1>11, <1>12, <1>13, <1>14, <1>15

\* The domain is undefined.
LEMMA UndefineVms ==
    ASSUME VmInv, MInv', UNCHANGED setting, NEW w \in Threads, UndefineImageVm(w)
    PROVE  VmKept
<1>1. /\ TInv /\ TInv' /\ Formed(request[w]) /\ request[w] \in RequestState
      /\ VmKnows(request[w], imagerow[request[w].image])
  BY DEF VmInv, MInv, VmRows, TInv, Formed
<1>2. /\ Moved(w) /\ request[w].pc = "undefine" /\ request[w].image \in Images
      /\ UNCHANGED <<imagerow, last_uuid, host>>
      /\ \/ /\ request'[w] = NoRequest
            /\ \E dom \in Power :
                  /\ dom # "none" \/ dom = imgdom[request[w].row.vm_uuid]
                  /\ imgdom' = [imgdom EXCEPT ![request[w].row.vm_uuid] = IF @ = "none" THEN "none" ELSE dom]
         \/ /\ request'[w] = [request[w] EXCEPT !.pc = "vm_created_sub", !.host = request[w].row.vm_host]
            /\ \E dom \in Power :
                  /\ dom = "none" \/ Breaks("host_down")
                  /\ imgdom' = [imgdom EXCEPT ![request[w].row.vm_uuid] = IF @ = "none" THEN "none" ELSE dom]
  BY <1>1, UndefineImageVmTyped
<1>3. request[w].op \in {"delete_image", "shelve_image_vm", "delete_image_vm"} /\ request[w].op \in VmOps
  BY <1>1, <1>2, OpsAt DEF VmOps, VmOnly
<1>4. PICK i \in Images : request[w].image = i
  BY <1>2
<1>5. /\ PlaceSound(imagerow[i], last_uuid) /\ imagerow[i] \in ImageRow
      /\ imgdom \in [1 .. MaxUuid -> Power]
  BY <1>1 DEF VmInv, VmRows, TInv
<1> DEFINE uuid == imagerow[i].vm_uuid
           q == request'[w]
<1>6. uuid # 0 /\ request[w].row.vm_uuid = uuid /\ request[w].row.vm_host = imagerow[i].vm_host
  BY <1>1, <1>2, <1>4 DEF VmKnows, SamePlace
<1>7. uuid \in 1 .. MaxUuid
  BY <1>5, <1>6, ImageAssumption DEF ImageRow
<1>8. request[w].pc \notin ClaimPcs \cup UncountedPcs \cup DomPcs
  BY <1>2 DEF ClaimPcs, UncountedPcs, DomPcs
<1>9. CASE q = NoRequest
  <2>1. /\ VmKnows(q, imagerow[q.image]) /\ q.op \notin VmOps
        /\ q.pc \notin ClaimPcs \cup UncountedPcs \cup DomPcs
    BY <1>9, NoRequestKnows
  <2>2. VmInv'
    BY <1>2, <2>1, RowsStay DEF VmOps
  <2>3. ImageVmLedger => ImageVmLedger'
    BY <1>1, <1>2, <1>8, <2>1, QuietLedger
  <2>4. ASSUME NEW u \in 1 .. MaxUuid
        PROVE  imgdom'[u] = "none" <=> imgdom[u] = "none"
    <3>1. request'[w] # [request[w] EXCEPT !.pc = "vm_created_sub", !.host = request[w].row.vm_host]
      <4> DEFINE other == [request[w] EXCEPT !.pc = "vm_created_sub", !.host = request[w].row.vm_host]
      <4>1. other.pc = "vm_created_sub" /\ NoRequest.pc = "idle"
        BY <1>1 DEF RequestState, NoRequest
      <4> HIDE DEF other
      <4>2. q # other
        BY <1>9, <4>1
      <4>3. QED
        BY <4>2 DEF other
    <3>2. PICK dom \in Power :
             /\ dom # "none" \/ dom = imgdom[uuid]
             /\ imgdom' = [imgdom EXCEPT ![uuid] = IF @ = "none" THEN "none" ELSE dom]
      BY <1>2, <1>6, <3>1
    <3> HIDE DEF uuid
    <3>3. imgdom'[u] = IF u = uuid THEN IF imgdom[uuid] = "none" THEN "none" ELSE dom ELSE imgdom[u]
      BY <1>5, <1>7, <3>2
    <3>4. QED
      BY <3>2, <3>3
  <2>5. DomInv => DomInv'
    BY <1>1, <1>2, <1>8, <2>1, <2>4, QuietDom
  <2>6. QED
    BY <2>2, <2>3, <2>5 DEF VmKept
<1>10. CASE q # NoRequest
  <2>1. q = [request[w] EXCEPT !.pc = "vm_created_sub", !.host = request[w].row.vm_host]
    BY <1>2, <1>10
  <2>2. q.pc = "vm_created_sub" /\ q.op = request[w].op /\ q.image = i /\ q.host = imagerow[i].vm_host
    BY <1>1, <1>4, <1>6, <2>1 DEF RequestState
  <2> HIDE DEF q
  <2>3. VmKnows(q, imagerow[q.image])
    BY <1>3, <1>6, <2>2 DEF VmKnows
  <2>4. q.pc \notin ClaimPcs \cup UncountedPcs /\ q.pc \in DomPcs
    BY <2>2 DEF ClaimPcs, UncountedPcs, DomPcs
  <2>5. VmInv'
    BY <1>2, <2>2, <2>3, RowsStay DEF VmInv, VmRows, q
  <2>6. ImageVmLedger => ImageVmLedger'
    BY <1>1, <1>2, <1>8, <2>4, QuietLedger DEF q
  <2>7. ASSUME DomInv, ~Breaks("host_down")
        PROVE  DomInv'
    <3>1. imgdom' = [imgdom EXCEPT ![uuid] = "none"]
      <4>1. request'[w] # NoRequest
        BY <1>10 DEF q
      <4>2. PICK dom \in Power :
               /\ dom = "none"
               /\ imgdom' = [imgdom EXCEPT ![uuid] = IF @ = "none" THEN "none" ELSE dom]
        BY <1>2, <1>6, <2>7, <4>1
      <4>3. QED
        BY <4>2
    <3> HIDE DEF uuid
    <3>2. imgdom'[uuid] = "none" /\ \A u \in (1 .. MaxUuid) \ {uuid} : imgdom'[u] = imgdom[u]
      BY <1>5, <1>7, <3>1
    <3>3. QED
      BY <1>2, <1>3, <1>4, <1>6, <2>4, <2>5, <2>7, <3>2, DomAlone DEF uuid, q
  <2>8. QED
    BY <2>5, <2>6, <2>7 DEF VmKept
<1>11. QED
  BY <1>9, <1>10

\* The vm of an image enters its row.
LEMMA SaveVms ==
    ASSUME VmInv, MInv', UNCHANGED setting, NEW w \in Threads, SaveImageVm(w)
    PROVE  VmKept
<1>1. /\ TInv /\ TInv' /\ Formed(request[w]) /\ request[w] \in RequestState /\ request[w].row \in ImageRow
      /\ VmKnows(request[w], imagerow[request[w].image])
  BY DEF VmInv, MInv, VmRows, TInv, Formed, RequestState
<1>2. /\ Moved(w)
      /\ request[w].pc = "save_vm" /\ request[w].image \in Images /\ request[w].host \in Hosts
      /\ UNCHANGED <<imgdom, host>>
      /\ \/ /\ imagerow[request[w].image].live
            /\ last_uuid' = last_uuid + 1 /\ last_uuid' \in 1 .. MaxUuid
            /\ imagerow' = [imagerow EXCEPT ![request[w].image].vm_uuid = last_uuid + 1,
                                            ![request[w].image].vm_host = request[w].host]
            /\ request'[w] = [request[w] EXCEPT !.row.vm_uuid = last_uuid + 1, !.pc = "define_vm"]
         \/ /\ ~imagerow[request[w].image].live
            /\ UNCHANGED <<imagerow, last_uuid>>
            /\ request'[w] = [request[w] EXCEPT !.pc = "unclaim"]
  BY <1>1, SaveImageVmTyped
<1>3. /\ request[w].op \in {"create_image_vm", "unshelve_image_vm"}
      /\ request[w].op \in VmOnly /\ request[w].op \in VmOps
  BY <1>1, <1>2, OpsAt DEF VmOps, VmOnly
<1>4. PICK i \in Images : request[w].image = i
  BY <1>2
<1>5. PICK h \in Hosts : request[w].host = h
  BY <1>2
<1>6. /\ imagerow \in [Images -> ImageRow] /\ PlaceSound(imagerow[i], last_uuid)
      /\ last_uuid \in 0 .. MaxUuid /\ imagerow[i].vm_uuid = 0
  BY <1>1, <1>2, <1>4 DEF VmInv, VmRows, TInv, VmKnows
<1> DEFINE q == request'[w]
<1>7. CASE /\ UNCHANGED <<imagerow, last_uuid>>
           /\ q = [request[w] EXCEPT !.pc = "unclaim"]
  <2>1. q.pc = "unclaim" /\ q.op = request[w].op /\ q.host = h
    BY <1>1, <1>5, <1>7 DEF RequestState
  <2> HIDE DEF q
  <2>2. HostFollows(h, request[w].pc, q.pc)
    BY <1>1, <1>2, <2>1, HostMoves, StepsStandFor
  <2>3. VmKnows(q, imagerow[i])
    BY <1>3, <1>6, <2>1 DEF VmKnows
  <2>4. q.pc \notin DomPcs /\ request[w].pc \notin DomPcs
    BY <1>2, <2>1 DEF DomPcs
  <2>5. QED
    BY <1>2, <1>3, <1>4, <1>5, <1>7, <2>1, <2>2, <2>3, <2>4, VmGoesOn DEF q
<1>8. CASE /\ imagerow[i].live
           /\ last_uuid' = last_uuid + 1 /\ last_uuid' \in 1 .. MaxUuid
           /\ imagerow' = [imagerow EXCEPT ![i].vm_uuid = last_uuid + 1, ![i].vm_host = h]
           /\ q = [request[w] EXCEPT !.row.vm_uuid = last_uuid + 1, !.pc = "define_vm"]
  <2> DEFINE row == imagerow'[i]
  <2>1. q.pc = "define_vm" /\ q.op = request[w].op /\ q.host = h /\ q.image = i
        /\ q.row.vm_uuid = last_uuid + 1
    BY <1>1, <1>4, <1>5, <1>8 DEF RequestState, ImageRow
  <2>2. /\ row = [imagerow[i] EXCEPT !.vm_uuid = last_uuid + 1, !.vm_host = h]
        /\ \A j \in Images \ {i} : imagerow'[j] = imagerow[j]
    BY <1>6, <1>8
  <2>3. row.live /\ row.vm_uuid = last_uuid + 1 /\ row.vm_host = h
    BY <1>6, <1>8, <2>2 DEF ImageRow
  <2>4. last_uuid + 1 # 0 /\ last_uuid <= last_uuid'
    BY <1>6, <1>8, ImageAssumption
  <2>5. \A j \in Images : imagerow[j].vm_uuid # last_uuid + 1
    BY <1>6, <2>4, ImageAssumption DEF VmInv, VmRows, ImageRow, PlaceSound
  <2> HIDE DEF q, row
  <2>6. VmKnows(q, row)
    BY <1>3, <2>1, <2>3, <2>4 DEF VmKnows
  <2>7. PlaceSound(row, last_uuid')
    BY <1>8, <2>3 DEF PlaceSound
  <2>8. ~NoVms(setting)
    BY <1>3 DEF VmInv, VmRows
  <2>9. VmInv'
    <3>1. \A x \in Threads \ {w} : request[x].image = i => VmKnows(request[x], row)
      BY <1>3, <1>4, OthersKnow
    <3>2. row.vm_uuid # 0 => \A j \in Images \ {i} : imagerow[j].vm_uuid # row.vm_uuid
      BY <2>3, <2>5
    <3>3. QED
      BY <1>2, <2>1, <2>2, <2>4, <2>6, <2>7, <2>8, <3>1, <3>2, RowsMove DEF q, row
  <2>10. ASSUME ImageVmLedger
         PROVE  ImageVmLedger'
    <3>1. /\ PlacedOn(row, h) /\ ~PlacedOn(imagerow[i], h)
          /\ \A k \in Hosts \ {h} : PlacedOn(row, k) <=> PlacedOn(imagerow[i], k)
      BY <1>6, <2>3, <2>4 DEF PlacedOn
    <3>2. Bit(PlacedOn(row, h)) = 1 /\ Bit(PlacedOn(imagerow[i], h)) = 0
      BY <3>1 DEF Bit
    <3>3. /\ HeldBy(request[w].pc) = 1 /\ CountedBy(request[w].pc) = 0
          /\ HeldBy(q.pc) = 0 /\ CountedBy(q.pc) = -1
      BY <1>2, <2>1, StepsStandFor
    <3>4. host[h] \in HostRow
      BY <1>1 DEF TInv, HostsInv, HostTypeOK
    <3>5. LET held == (Bit(PlacedOn(row, h)) + HeldBy(q.pc))
                       - (Bit(PlacedOn(imagerow[i], h)) + HeldBy(request[w].pc))
              counted == (Bit(PlacedOn(row, h)) + CountedBy(q.pc))
                          - (Bit(PlacedOn(imagerow[i], h)) + CountedBy(request[w].pc))
          IN /\ host'[h].vcpu_allocated = host[h].vcpu_allocated + held
             /\ host'[h].mem_allocated = host[h].mem_allocated + held
             /\ host'[h].vm_created = host[h].vm_created + counted
      BY <1>2, <3>2, <3>3, <3>4 DEF HostRow
    <3>6. \A k \in Hosts \ {h} : host'[k] = host[k]
      BY <1>2
    <3>7. QED
      BY <1>1, <1>2, <1>5, <2>1, <2>2, <2>10, <3>1, <3>5, <3>6, LedgerAt DEF q, row
  <2>11. ASSUME DomInv
         PROVE  DomInv'
    <3>1. imgdom[last_uuid + 1] = "none"
      BY <1>8, <2>5, <2>11 DEF DomInv
    <3>2. q.pc \in DomPcs
      BY <2>1 DEF DomPcs
    <3>3. imgdom'[imagerow'[i].vm_uuid] = "none" /\ request'[w].pc \in DomPcs
      BY <1>2, <2>3, <3>1, <3>2 DEF q, row
    <3>4. \A u \in 1 .. MaxUuid : imgdom'[u] = imgdom[u]
      BY <1>2
    <3>5. QED
      BY <1>2, <1>3, <1>4, <1>6, <2>2, <2>9, <2>11, <3>3, <3>4, DomAlone
  <2>12. QED
    BY <2>9, <2>10, <2>11 DEF VmKept
<1>9. QED
  BY <1>2, <1>4, <1>5, <1>7, <1>8

\* It leaves it when there is no domain to be made.
LEMMA ResetVms ==
    ASSUME VmInv, MInv', UNCHANGED setting, NEW w \in Threads, ResetImageVm(w)
    PROVE  VmKept
<1>1. /\ TInv /\ TInv' /\ Formed(request[w]) /\ request[w] \in RequestState /\ request[w].row \in ImageRow
      /\ VmKnows(request[w], imagerow[request[w].image])
  BY DEF VmInv, MInv, VmRows, TInv, Formed, RequestState
<1>2. /\ Moved(w) /\ request'[w] = [request[w] EXCEPT !.pc = "unclaim"]
      /\ request[w].pc = "reset_vm" /\ request[w].image \in Images /\ OnlyImageRow
      /\ imagerow' = [imagerow EXCEPT ![request[w].image] =
                        [request[w].row EXCEPT !.vm_uuid = 0, !.vm_host = NoOne]]
  BY <1>1, ResetImageVmTyped
<1>3. /\ request[w].op \in {"create_image_vm", "unshelve_image_vm"}
      /\ request[w].op \in VmOnly /\ request[w].op \in VmOps
  BY <1>1, <1>2, OpsAt DEF VmOps, VmOnly
<1>4. PICK i \in Images : request[w].image = i
  BY <1>2
<1>5. UNCHANGED <<imgdom, last_uuid, host>>
  BY <1>2 DEF OnlyImageRow, DomainsSame
<1>6. /\ imagerow \in [Images -> ImageRow] /\ PlaceSound(imagerow[i], last_uuid)
      /\ last_uuid \in 0 .. MaxUuid
      /\ imagerow[i].vm_uuid # 0 /\ imagerow[i].vm_host = request[w].host
  BY <1>1, <1>2, <1>4 DEF VmInv, VmRows, TInv, VmKnows
<1>7. PICK h \in Hosts : request[w].host = h
  BY <1>6 DEF PlaceSound
<1> DEFINE q == request'[w]
           row == imagerow'[i]
<1>8. q.pc = "unclaim" /\ q.op = request[w].op /\ q.host = h /\ q.image = i
  BY <1>1, <1>2, <1>4, <1>7 DEF RequestState
<1>9. /\ row = [request[w].row EXCEPT !.vm_uuid = 0, !.vm_host = NoOne]
      /\ \A j \in Images \ {i} : imagerow'[j] = imagerow[j]
  BY <1>2, <1>4, <1>6
<1>10. row.vm_uuid = 0 /\ row.vm_host = NoOne
  BY <1>1, <1>9 DEF ImageRow
<1> HIDE DEF q, row
<1>11. VmKnows(q, row)
  BY <1>3, <1>8, <1>10 DEF VmKnows
<1>12. PlaceSound(row, last_uuid') /\ NoPlace(row)
  BY <1>10 DEF PlaceSound, NoPlace
<1>13. ~NoVms(setting)
  BY <1>3 DEF VmInv, VmRows
<1>14. VmInv'
  <2>1. \A x \in Threads \ {w} : request[x].image = i => VmKnows(request[x], row)
    BY <1>3, <1>4, OthersKnow
  <2>2. last_uuid <= last_uuid'
    BY <1>5, <1>6, ImageAssumption
  <2>3. QED
    BY <1>2, <1>8, <1>9, <1>10, <1>11, <1>12, <1>13, <2>1, <2>2, RowsMove DEF q, row
<1>15. ASSUME ImageVmLedger
       PROVE  ImageVmLedger'
  <2>1. /\ ~PlacedOn(row, h) /\ PlacedOn(imagerow[i], h)
        /\ \A k \in Hosts \ {h} : PlacedOn(row, k) <=> PlacedOn(imagerow[i], k)
    BY <1>6, <1>7, <1>10 DEF PlacedOn
  <2>2. Bit(PlacedOn(row, h)) = 0 /\ Bit(PlacedOn(imagerow[i], h)) = 1
    BY <2>1 DEF Bit
  <2>3. /\ HeldBy(request[w].pc) = 0 /\ CountedBy(request[w].pc) = -1
        /\ HeldBy(q.pc) = 1 /\ CountedBy(q.pc) = 0
    BY <1>2, <1>8, StepsStandFor
  <2>4. host[h] \in HostRow
    BY <1>1 DEF TInv, HostsInv, HostTypeOK
  <2>5. LET held == (Bit(PlacedOn(row, h)) + HeldBy(q.pc))
                     - (Bit(PlacedOn(imagerow[i], h)) + HeldBy(request[w].pc))
            counted == (Bit(PlacedOn(row, h)) + CountedBy(q.pc))
                        - (Bit(PlacedOn(imagerow[i], h)) + CountedBy(request[w].pc))
        IN /\ host'[h].vcpu_allocated = host[h].vcpu_allocated + held
           /\ host'[h].mem_allocated = host[h].mem_allocated + held
           /\ host'[h].vm_created = host[h].vm_created + counted
    BY <1>5, <2>2, <2>3, <2>4 DEF HostRow
  <2>6. \A k \in Hosts \ {h} : host'[k] = host[k]
    BY <1>5
  <2>7. QED
    BY <1>1, <1>2, <1>7, <1>8, <1>9, <1>15, <2>1, <2>5, <2>6, LedgerAt DEF q, row
<1>16. ASSUME DomInv
       PROVE  DomInv'
  BY <1>2, <1>3, <1>4, <1>5, <1>6, <1>9, <1>10, <1>14, <1>16, DomWas, DomAlone DEF DomPcs, row
<1>17. QED
  BY <1>14, <1>15, <1>16 DEF VmKept

\* Its domain is defined.
LEMMA DefineVms ==
    ASSUME VmInv, MInv', UNCHANGED setting, NEW w \in Threads, DefineImageVm(w)
    PROVE  VmKept
<1>1. /\ TInv /\ TInv' /\ Formed(request[w]) /\ request[w] \in RequestState
      /\ VmKnows(request[w], imagerow[request[w].image])
  BY DEF VmInv, MInv, VmRows, TInv, Formed
<1>2. /\ Moved(w) /\ request[w].pc = "define_vm"
      /\ UNCHANGED <<imagerow, last_uuid, host>>
      /\ \/ /\ imgdom' = [imgdom EXCEPT ![request[w].row.vm_uuid] = "off"]
            /\ request'[w] = [request[w] EXCEPT !.pc = "vm_created_add"]
         \/ imgdom' = imgdom /\ request'[w] = [request[w] EXCEPT !.pc = "reset_vm"]
  BY <1>1, DefineImageVmTyped
<1>3. /\ request[w].op \in {"create_image_vm", "unshelve_image_vm"}
      /\ request[w].op \in VmOnly /\ request[w].op \in VmOps /\ request[w].op \notin MachineOnly
  BY <1>1, <1>2, OpsAt DEF VmOps, VmOnly, MachineOnly
<1>4. PICK i \in Images : request[w].image = i
  BY <1>1, <1>2, <1>3, AboutAt
<1>5. PICK h \in Hosts : request[w].host = h
  BY <1>1, <1>2, <1>3, AboutAt
<1>6. /\ imagerow[i] \in ImageRow /\ imgdom \in [1 .. MaxUuid -> Power]
      /\ imagerow[i].vm_uuid # 0 /\ imagerow[i].vm_uuid = request[w].row.vm_uuid
      /\ imagerow[i].vm_host = h
  BY <1>1, <1>2, <1>4, <1>5 DEF VmInv, VmRows, TInv, VmKnows
<1>7. imagerow[i].vm_uuid \in 1 .. MaxUuid
  BY <1>6, ImageAssumption DEF ImageRow
<1> DEFINE q == request'[w]
<1>8. /\ q.pc \in {"vm_created_add", "reset_vm"} /\ q.op = request[w].op /\ q.host = h /\ q.image = i
      /\ q.row = request[w].row
      /\ q.pc = "reset_vm" => imgdom' = imgdom
      /\ q.pc # "reset_vm" => imgdom' = [imgdom EXCEPT ![imagerow[i].vm_uuid] = "off"]
  BY <1>1, <1>2, <1>4, <1>5, <1>6 DEF RequestState
<1> HIDE DEF q
<1>9. VmKnows(q, imagerow[i])
  BY <1>3, <1>6, <1>8 DEF VmKnows
<1>10. VmInv'
  BY <1>2, <1>3, <1>8, <1>9, RowsStay DEF VmInv, VmRows, q
<1>11. ASSUME ImageVmLedger
       PROVE  ImageVmLedger'
  <2>1. /\ HeldBy(request[w].pc) = 0 /\ CountedBy(request[w].pc) = -1
        /\ HeldBy(q.pc) = 0 /\ CountedBy(q.pc) = -1
    BY <1>2, <1>8, StepsStandFor
  <2>2. host[h] \in HostRow /\ Bit(PlacedOn(imagerow[i], h)) \in Int
    BY <1>1 DEF TInv, HostsInv, HostTypeOK, Bit
  <2>3. LET held == (Bit(PlacedOn(imagerow'[i], h)) + HeldBy(q.pc))
                     - (Bit(PlacedOn(imagerow[i], h)) + HeldBy(request[w].pc))
            counted == (Bit(PlacedOn(imagerow'[i], h)) + CountedBy(q.pc))
                        - (Bit(PlacedOn(imagerow[i], h)) + CountedBy(request[w].pc))
        IN /\ host'[h].vcpu_allocated = host[h].vcpu_allocated + held
           /\ host'[h].mem_allocated = host[h].mem_allocated + held
           /\ host'[h].vm_created = host[h].vm_created + counted
    BY <1>2, <2>1, <2>2 DEF HostRow
  <2>4. /\ \A j \in Images \ {i} : imagerow'[j] = imagerow[j]
        /\ \A k \in Hosts \ {h} : host'[k] = host[k]
        /\ \A k \in Hosts \ {h} : PlacedOn(imagerow'[i], k) <=> PlacedOn(imagerow[i], k)
        /\ Moved(w)
    BY <1>2
  <2>5. request'[w].host = h
    BY <1>8 DEF q
  <2>6. QED
    BY <1>1, <1>5, <1>11, <2>3, <2>4, <2>5, LedgerAt DEF q
<1>12. ASSUME DomInv
       PROVE  DomInv'
  <2>1. imgdom[imagerow[i].vm_uuid] = "none"
    BY <1>2, <1>3, <1>4, <1>6, <1>12, DomWas DEF DomPcs
  <2>2. /\ \A u \in (1 .. MaxUuid) \ {imagerow[i].vm_uuid} : imgdom'[u] = imgdom[u]
        /\ imgdom'[imagerow[i].vm_uuid] = "none" <=> q.pc \in DomPcs
    <3>1. CASE q.pc = "reset_vm"
      BY <1>8, <2>1, <3>1 DEF DomPcs
    <3>2. CASE q.pc = "vm_created_add"
      BY <1>6, <1>7, <1>8, <3>2 DEF DomPcs
    <3>3. QED
      BY <1>8, <3>1, <3>2
  <2>3. QED
    BY <1>2, <1>3, <1>4, <1>10, <1>12, <2>2, DomAlone DEF q
<1>13. QED
  BY <1>10, <1>11, <1>12 DEF VmKept

\* It is switched on and off.
LEMMA PowerVms ==
    ASSUME VmInv, MInv', UNCHANGED setting, NEW w \in Threads, NEW i \in Images, ImageVmPower(w, i)
    PROVE  VmKept
<1>1. UNCHANGED <<setting, imagerow, last_uuid, host, request>>
  BY DEF ImageVmPower, ImageRowsSame
<1>2. imgdom \in [1 .. MaxUuid -> Power] /\ imagerow[i] \in ImageRow /\ imagerow[i].vm_uuid # 0
  BY DEF VmInv, MInv, TInv, ImageVmPower, Offered
<1>3. VmInv'
  BY <1>1 DEF VmInv, VmRows, NoPlace, PlaceSound, VmKnows, SamePlace
<1>4. ImageVmLedger => ImageVmLedger'
  BY <1>1 DEF ImageVmLedger, RowsOnHost, RequestsAt
<1> DEFINE uuid == imagerow[i].vm_uuid
<1>5. uuid \in 1 .. MaxUuid
  BY <1>2, ImageAssumption DEF ImageRow
<1>6. \A u \in 1 .. MaxUuid : imgdom'[u] = "none" <=> imgdom[u] = "none"
  <2>1. imgdom' = [imgdom EXCEPT ![uuid] = IF imgdom[uuid] = "on" THEN "off" ELSE "on"] /\ imgdom[uuid] # "none"
    BY DEF ImageVmPower
  <2> HIDE DEF uuid
  <2>2. QED
    BY <1>2, <1>5, <2>1
<1>7. \A j \in Images : imagerow[j].vm_uuid # 0 => imagerow[j].vm_uuid \in 1 .. MaxUuid
  BY ImageAssumption DEF VmInv, MInv, TInv, ImageRow
<1>8. \A x \in Threads : request[x].pc \in DomPcs => request[x].image \in Images
  BY DomImage DEF VmInv, MInv, TInv
<1>9. DomInv => DomInv'
  BY <1>1, <1>6, <1>7, <1>8 DEF DomInv
<1>10. QED
  BY <1>3, <1>4, <1>9 DEF VmKept

\* Every step keeps it.
LEMMA StepVms ==
    ASSUME VmInv, ImagesNext
    PROVE  VmKept /\ UNCHANGED setting
<1>1. MInv' /\ UNCHANGED setting
  BY StepMeeting DEF VmInv, ImagesNext
<1>2. PICK w \in Threads : ImageStep(w) \/ MachineStep(w)
  BY DEF ImagesNext
<1>3. CASE MachineStep(w)
  BY <1>1, <1>3, MachineVms
<1>4. CASE CreateBaseImage(w) \/ CreateSnap(w) \/ RemoveOldSnap(w) \/ RenameBase(w)
  BY <1>1, <1>4, ImageCallVms
<1>5. CASE InsertImage(w) \/ SaveImage(w)
  BY <1>1, <1>5, SaveRowVms
<1>6. CASE ClearImageVm(w) \/ DeleteImageRow(w)
  BY <1>1, <1>6, ClearVms
<1>7. CASE \/ RemovedImageVm(w) \/ FreeImageVm(w) \/ ClaimForImage(w) \/ GetImage(w)
           \/ UnclaimForImage(w) \/ CreatedImageVm(w)
  BY <1>1, <1>7, HostVms
<1>8. CASE UndefineImageVm(w) \/ SaveImageVm(w) \/ ResetImageVm(w) \/ DefineImageVm(w)
  BY <1>1, <1>8, UndefineVms, SaveVms, ResetVms, DefineVms
<1>9. ASSUME NEW i \in Images,
             \/ AddImage(w, i) \/ SnapUpdate(w, i) \/ EnableUpdate(w, i) \/ DeleteImage(w, i)
             \/ \E op \in ImageOps : EndImageVm(w, op, i)
             \/ \E op \in ImageOps, h \in Hosts : StartImageVm(w, op, i, h)
      PROVE  VmKept
  BY <1>1, <1>9, ImageArrives
<1>10. ASSUME NEW i \in Images, ImageVmPower(w, i)
       PROVE  VmKept
  BY <1>1, <1>10, PowerVms
<1>11. QED
  BY <1>1, <1>2, <1>3, <1>4, <1>5, <1>6, <1>7, <1>8, <1>9, <1>10 DEF ImageStep

\* So does none.
LEMMA StutterVms ==
    ASSUME VmInv, UNCHANGED imageVars
    PROVE  VmKept /\ UNCHANGED setting
<1>1. MInv'
  BY StutterMeeting DEF VmInv
<1>2. UNCHANGED <<setting, imagerow, imgdom, last_uuid, host, request>>
  BY DEF imageVars
<1>3. QED
  BY <1>1, <1>2, NothingMoved

\* At the start there is no vm of an image.
LEMMA InitVms ==
    ASSUME ImagesInit, VmSetting(setting)
    PROVE  VmInv /\ ImageVmLedger /\ DomInv
<1>1. /\ MInv
      /\ \A w \in Threads : request[w] = NoRequest
      /\ \A u \in 1 .. MaxUuid : imgdom[u] = "none"
      /\ \A h \in Hosts : host[h] = [vcpu_allocated |-> 0, mem_allocated |-> 0, vm_created |-> 0]
  BY InitMeeting DEF ImagesInit, HostInit
<1>2. \A i \in Images : NoPlace(imagerow[i])
  BY DEF ImagesInit, NoPlace, NoImageRow
<1>3. \A i \in Images : PlaceSound(imagerow[i], last_uuid)
  BY <1>2 DEF PlaceSound, NoPlace
<1>4. NoRequest.op \notin VmOnly /\ NoRequest.pc = "idle"
  BY NoRequestKnows DEF NoRequest, VmOps
<1>5. VmRows
  BY <1>1, <1>2, <1>3, <1>4, NoRequestKnows DEF VmRows, NoPlace
<1>6. ImageVmLedger
  <2>1. \A h \in Hosts : RowsOnHost(h) = {}
    BY <1>2 DEF RowsOnHost, NoPlace
  <2>2. ASSUME NEW h \in Hosts, NEW pcs, "idle" \notin pcs
        PROVE  RequestsAt(pcs, h) = {}
    BY <1>1, <1>4, <2>2 DEF RequestsAt
  <2>3. Cardinality({}) = 0
    BY FS_EmptySet
  <2> DEFINE claimed == {"get_image", "save_vm", "unclaim"}
             freed == {"clear", "image_rowdel"}
             uncounted == {"define_vm", "reset_vm", "vm_created_add", "free", "clear", "image_rowdel"}
  <2>4. \A h \in Hosts : /\ RequestsAt(claimed, h) = {} /\ RequestsAt(freed, h) = {}
                         /\ RequestsAt(uncounted, h) = {}
    BY <2>2
  <2> HIDE DEF claimed, freed, uncounted
  <2>5. ASSUME NEW h \in Hosts
        PROVE  host[h].vcpu_allocated = 0 /\ host[h].mem_allocated = 0 /\ host[h].vm_created = 0
    BY <1>1
  <2>6. ASSUME NEW h \in Hosts
        PROVE  /\ host[h].vcpu_allocated = Cardinality(RowsOnHost(h)) + Cardinality(RequestsAt(claimed, h))
                                              - Cardinality(RequestsAt(freed, h))
               /\ host[h].mem_allocated = Cardinality(RowsOnHost(h)) + Cardinality(RequestsAt(claimed, h))
                                              - Cardinality(RequestsAt(freed, h))
               /\ host[h].vm_created = Cardinality(RowsOnHost(h)) - Cardinality(RequestsAt(uncounted, h))
    BY <2>1, <2>3, <2>4, <2>5
  <2>7. QED
    BY <2>6 DEF ImageVmLedger, claimed, freed, uncounted
<1>7. DomInv
  BY <1>1, <1>2, <1>4 DEF DomInv, NoPlace, DomPcs
<1>8. QED
  BY <1>1, <1>5, <1>6, <1>7 DEF VmInv

\* What is known of domains is what has to hold of them.
LEMMA DomainsHeld ==
    ASSUME VmInv, DomInv
    PROVE  DomainOfImage
<1>1. ASSUME NEW u \in 1 .. MaxUuid, imgdom[u] # "none"
      PROVE  \E i \in Images : imagerow[i].live /\ imagerow[i].vm_uuid = u
  <2>1. PICK i \in Images : imagerow[i].vm_uuid = u
    BY <1>1 DEF DomInv
  <2>2. PlaceSound(imagerow[i], last_uuid) /\ u # 0
    BY ImageAssumption DEF VmInv, VmRows
  <2>3. QED
    BY <2>1, <2>2 DEF PlaceSound, NoPlace
<1>2. ASSUME NEW u \in 1 .. MaxUuid, NEW i \in Images, imagerow[i].vm_uuid = u, imgdom[u] = "none"
      PROVE  \E w \in Threads : request[w].image = i
  BY <1>2, ImageAssumption DEF DomInv
<1>3. QED
  BY <1>1, <1>2 DEF DomainOfImage

\* The columns of a host count the vms of images, for every number of images,
\* threads and hosts, whatever requests arrive and whatever call of ceph or of
\* libvirt fails or leaves a host without an answer, as long as there is an
\* address for each vm that is claimed (create_vm_for_image looks it up outside
\* of what undoes the claim) and no two requests that write the columns of the
\* vm of an image, or its row as a whole, are about one image at a time.
THEOREM ImageVmLedgerExact ==
    ASSUME \A s \in Settings : VmSetting(s) /\ "no_address" \notin s.failing
    PROVE  ImagesSpec => []ImageVmLedger
<1>1. ImagesInit => VmInv /\ ImageVmLedger
  BY InitVms DEF ImagesInit
<1>2. (VmInv /\ ImageVmLedger) /\ [ImagesNext]_imageVars => (VmInv /\ ImageVmLedger)'
  <2> SUFFICES ASSUME VmInv, ImageVmLedger, [ImagesNext]_imageVars
               PROVE  VmInv' /\ ImageVmLedger'
    OBVIOUS
  <2>1. VmKept
    BY StepVms, StutterVms
  <2>2. ~Breaks("no_address")
    BY DEF VmInv, MInv, TInv, Breaks
  <2>3. QED
    BY <2>1, <2>2 DEF VmKept
<1>3. QED
  BY <1>1, <1>2, PTL DEF ImagesSpec

\* A domain made for an image is the one its row names, and each row that names
\* a vm has its domain or a request that sees to it, under the same hypothesis
\* on requests that meet, as long as a host that has the domain answers when it
\* is to undefine it: delete_for_image takes one that does not for one without.
THEOREM DomainsFollowImages ==
    ASSUME \A s \in Settings : VmSetting(s) /\ "host_down" \notin s.failing
    PROVE  ImagesSpec => []DomainOfImage
<1>1. ImagesInit => VmInv /\ DomInv
  BY InitVms DEF ImagesInit
<1>2. (VmInv /\ DomInv) /\ [ImagesNext]_imageVars => (VmInv /\ DomInv)'
  <2> SUFFICES ASSUME VmInv, DomInv, [ImagesNext]_imageVars
               PROVE  VmInv' /\ DomInv'
    OBVIOUS
  <2>1. VmKept
    BY StepVms, StutterVms
  <2>2. ~Breaks("host_down")
    BY DEF VmInv, MInv, TInv, Breaks
  <2>3. QED
    BY <2>1, <2>2 DEF VmKept
<1>3. VmInv /\ DomInv => DomainOfImage
  BY DomainsHeld
<1>4. QED
  BY <1>1, <1>2, <1>3, PTL DEF ImagesSpec

-----------------------------------------------------------------------------
(* The snapshot of an image that new disks are cloned from: what requests  *)
(* know of it, and of the one that they have made.                         *)

Apart(s, ops, others) ==
    \A a \in ops \cap s.ops, b \in others \cap s.ops :
       <<a, b>> \notin s.overlaps /\ <<b, a>> \notin s.overlaps

\* An update of the snapshot does not meet what saves the whole row or deletes
\* the image, nor is an image deleted while it is added, enabled or released,
\* or released while it is added or released.  An update that has removed the
\* snapshot in force gets another; a delete that has put the base image aside
\* comes to delete the row.
SnapSetting(s) ==
    /\ Apart(s, {"snap_update"}, {"enable_update", "delete_image"})
    /\ Apart(s, {"delete_image"}, {"add_image", "enable_update", "release"})
    /\ Apart(s, {"release"}, {"add_image", "release"})
    /\ "snap_update" \in s.ops => "create_snap" \notin s.failing /\ "protect_snap" \notin s.failing
    /\ "delete_image" \in s.ops => NoVms(s) \/ "undefine" \notin s.failing

\* Requests that have a snapshot which is in no row yet.
InHand(q) == q.pc = "insert" \/ (q.pc = "save_all" /\ q.op = "snap_update")

\* Requests that save the snapshot they loaded.
RowLoaded(q) == q.op = "enable_update" \/ q.pc \in {"save_vm", "define_vm", "reset_vm"}

NeedsRow == {"snap_update", "enable_update", "create_image_vm", "unshelve_image_vm"}

\* What a request knows at time t of the row and the base image of its image.
SnapKnows(q, row, img, t) ==
    /\ q.row.snap <= t
    /\ q.op \in NeedsRow => row.live
    /\ RowLoaded(q) => q.row.live /\ q.row.snap = row.snap
    /\ q.op = "snap_update" => q.row.live
    /\ InHand(q) => q.row.snap \in img.protected /\ q.row.snap # row.snap
    /\ q.op = "release" /\ q.pc # "rel_exists" => ~row.live

\* Nobody saves or removes the snapshot that another has made.
SnapsDiffer(q, r) ==
    InHand(q) /\ (InHand(r) \/ r.pc = "snap_remove") => q.row.snap # r.row.snap

Updates(q, i) == q.image = i /\ q.op = "snap_update"

\* The base image is aside.
Deletes(q, i) == q.image = i /\ q.op = "delete_image" /\ q.pc # "rename_base"

OfferSound(i) ==
    imagerow[i].live
    => \/ \E w \in Threads : Deletes(request[w], i)
       \/ /\ image_exists(pool, i)
          /\ imagerow[i].snap \in pool[i].protected \/ \E w \in Threads : Updates(request[w], i)

SnapRows ==
    /\ \A i \in Images : imagerow[i].snap <= tick
    /\ \A w \in Threads :
          request[w].image \in Images
          => SnapKnows(request[w], imagerow[request[w].image], pool[request[w].image], tick)
    /\ \A w, x \in Threads :
          w # x /\ request[w].image = request[x].image /\ request[w].image \in Images
          => SnapsDiffer(request[w], request[x])
    /\ \A i \in Images : OfferSound(i)

SnapInv == VmInv /\ SnapSetting(setting) /\ SnapRows

\* A request knows what it knew where the row has the same to say and no snapshot
\* of the image is gone.
LEMMA SnapKnown ==
    ASSUME NEW q \in RequestState, NEW row, NEW other, NEW img, NEW new, NEW t \in Nat, NEW u \in Nat,
           SnapKnows(q, row, img, t), t <= u, row.live = other.live, row.snap = other.snap,
           img.protected \subseteq new.protected
    PROVE  SnapKnows(q, other, new, u)
<1>1. q.row.snap \in Nat
  BY RbdAssumption DEF RequestState, ImageRow
<1>2. q.row.snap <= u
  BY <1>1 DEF SnapKnows
<1>3. QED
  BY <1>2 DEF SnapKnows

\* The row and the base image of one image change, or the request about it.
LEMMA SnapsMove ==
    ASSUME SnapInv, VmInv', UNCHANGED setting, tick <= tick', NEW w \in Threads, Moved(w), NEW i \in Images,
           request[w].image \in Images => request[w].image = i,
           request'[w].image \in Images => request'[w].image = i,
           \A j \in Images \ {i} : imagerow'[j] = imagerow[j] /\ pool'[j].size = pool[j].size
                                   /\ pool'[j].protected = pool[j].protected,
           imagerow'[i].snap <= tick',
           \A x \in Threads \ {w} : request[x].image = i
              => SnapKnows(request[x], imagerow'[i], pool'[i], tick')
                 /\ SnapsDiffer(request[x], request'[w]) /\ SnapsDiffer(request'[w], request[x]),
           request'[w].image = i => SnapKnows(request'[w], imagerow'[i], pool'[i], tick'),
           OfferSound(i)'
    PROVE  SnapInv'
<1>1. /\ \A x \in Threads \ {w} : request'[x] = request[x]
      /\ request \in [Threads -> RequestState]
      /\ tick \in Nat /\ tick' \in Nat
      /\ imagerow \in [Images -> ImageRow]
  BY RbdAssumption DEF Moved, VmInv, MInv, TInv, SnapInv
<1>2. \A j \in Images : imagerow'[j].snap <= tick'
  <2>1. ASSUME NEW j \in Images \ {i}
        PROVE  imagerow'[j].snap <= tick'
    BY <1>1, RbdAssumption DEF SnapInv, SnapRows, ImageRow
  <2>2. QED
    BY <2>1
<1>3. ASSUME NEW x \in Threads, request'[x].image \in Images
      PROVE  SnapKnows(request'[x], imagerow'[request'[x].image], pool'[request'[x].image], tick')
  <2>1. CASE x = w
    BY <1>3, <2>1
  <2>2. CASE x # w /\ request[x].image = i
    BY <1>1, <2>2
  <2>3. CASE x # w /\ request[x].image # i
    <3> DEFINE j == request[x].image
    <3>1. /\ request'[x] = request[x] /\ j \in Images \ {i} /\ request[x] \in RequestState
      BY <1>1, <1>3, <2>3
    <3>2. SnapKnows(request[x], imagerow[j], pool[j], tick)
      BY <3>1 DEF SnapInv, SnapRows
    <3>3. imagerow'[j] = imagerow[j] /\ pool'[j].protected = pool[j].protected
      BY <3>1
    <3> HIDE DEF j
    <3>4. SnapKnows(request[x], imagerow'[j], pool'[j], tick')
      BY <1>1, <3>1, <3>2, <3>3, SnapKnown
    <3>5. QED
      BY <3>1, <3>4 DEF j
  <2>4. QED
    BY <2>1, <2>2, <2>3
<1>4. ASSUME NEW x \in Threads, NEW y \in Threads, x # y, request'[x].image = request'[y].image,
             request'[x].image \in Images
      PROVE  SnapsDiffer(request'[x], request'[y])
  BY <1>1, <1>4 DEF SnapInv, SnapRows
<1>5. ASSUME NEW j \in Images \ {i}
      PROVE  OfferSound(j)'
  BY <1>1 DEF Deletes, Updates, SnapInv, SnapRows, OfferSound, image_exists
<1>6. SnapRows'
  BY <1>2, <1>3, <1>4, <1>5 DEF SnapRows
<1>7. QED
  BY <1>6 DEF SnapInv

\* A request goes on with its image as it was.
LEMMA SnapsStay ==
    ASSUME SnapInv, VmInv', UNCHANGED setting, tick <= tick', NEW w \in Threads, Moved(w),
           \A j \in Images : /\ imagerow'[j].live = imagerow[j].live /\ imagerow'[j].snap = imagerow[j].snap
                             /\ imagerow[j].live /\ image_exists(pool, j) => image_exists(pool', j)
                             /\ pool'[j].protected = pool[j].protected,
           NEW q, request'[w] = q,
           q.image \in Images => SnapKnows(q, imagerow[q.image], pool[q.image], tick),
           \A x \in Threads \ {w} : request[x].image = q.image /\ q.image \in Images
              => SnapsDiffer(request[x], q) /\ SnapsDiffer(q, request[x]),
           \A j \in Images : (Deletes(request[w], j) => Deletes(q, j)) /\ (Updates(request[w], j) => Updates(q, j))
    PROVE  SnapInv'
<1>1. /\ \A x \in Threads \ {w} : request'[x] = request[x]
      /\ request \in [Threads -> RequestState] /\ request' \in [Threads -> RequestState]
      /\ tick \in Nat /\ tick' \in Nat
      /\ imagerow \in [Images -> ImageRow]
  BY RbdAssumption DEF Moved, VmInv, MInv, TInv, SnapInv
<1>2. ASSUME NEW j \in Images
      PROVE  imagerow'[j].snap <= tick'
  BY <1>1, RbdAssumption DEF SnapInv, SnapRows, ImageRow
<1>3. ASSUME NEW x \in Threads, request'[x].image \in Images
      PROVE  SnapKnows(request'[x], imagerow'[request'[x].image], pool'[request'[x].image], tick')
  <2> DEFINE j == request'[x].image
  <2>1. request'[x] \in RequestState /\ j \in Images
    BY <1>1, <1>3
  <2>2. SnapKnows(request'[x], imagerow[j], pool[j], tick)
    BY <1>1, <1>3 DEF SnapInv, SnapRows
  <2>3. imagerow[j].live = imagerow'[j].live /\ imagerow[j].snap = imagerow'[j].snap
        /\ pool[j].protected = pool'[j].protected
    BY <2>1
  <2> HIDE DEF j
  <2>4. SnapKnows(request'[x], imagerow'[j], pool'[j], tick')
    BY <1>1, <2>1, <2>2, <2>3, SnapKnown
  <2>5. QED
    BY <2>4 DEF j
<1>4. ASSUME NEW x \in Threads, NEW y \in Threads, x # y, request'[x].image = request'[y].image,
             request'[x].image \in Images
      PROVE  SnapsDiffer(request'[x], request'[y])
  BY <1>1, <1>4 DEF SnapInv, SnapRows
<1>5. ASSUME NEW j \in Images
      PROVE  OfferSound(j)'
  <2>1. \A x \in Threads : (Deletes(request[x], j) => Deletes(request'[x], j))
                           /\ (Updates(request[x], j) => Updates(request'[x], j))
    <3>1. ASSUME NEW x \in Threads
          PROVE  (Deletes(request[x], j) => Deletes(request'[x], j))
                 /\ (Updates(request[x], j) => Updates(request'[x], j))
      BY <1>1
    <3>2. QED
      BY <3>1
  <2>2. OfferSound(j)
    BY DEF SnapInv, SnapRows
  <2>3. /\ imagerow'[j].live = imagerow[j].live /\ imagerow'[j].snap = imagerow[j].snap
        /\ imagerow[j].live /\ image_exists(pool, j) => image_exists(pool', j)
        /\ pool'[j].protected = pool[j].protected
    OBVIOUS
  <2>4. ASSUME imagerow'[j].live
        PROVE  \/ \E x \in Threads : Deletes(request'[x], j)
               \/ /\ image_exists(pool', j)
                  /\ imagerow'[j].snap \in pool'[j].protected \/ \E x \in Threads : Updates(request'[x], j)
    BY <2>1, <2>2, <2>3, <2>4 DEF OfferSound
  <2>5. QED
    BY <2>4 DEF OfferSound
<1>6. SnapRows'
  BY <1>2, <1>3, <1>4, <1>5 DEF SnapRows
<1>7. QED
  BY <1>6 DEF SnapInv

\* Two pools that say the same of the base images and their protected snapshots.
SameOffer(p, q) ==
    \A i \in Images : p[i].size = q[i].size /\ p[i].protected = q[i].protected

\* What is done to the disk of a machine leaves the base images alone.
LEMMA DiskIsElsewhere ==
    ASSUME NEW p, NEW t, PoolSound(p, t), NEW v \in Machines
    PROVE  /\ \A s : /\ SameOffer(Snapped(p, v, s), p) /\ SameOffer(Protected(p, v, s), p)
                     /\ SameOffer(Unsnapped(p, v, s), p) /\ SameOffer(Unheld(p, v, s), p)
                     /\ SameOffer(Sized(p, v, s), p)
           /\ \A n, s : SameOffer(Cloned(p, n, s, v), p)
           /\ SameOffer(Gone(p, v), p)
           /\ SameOffer(Renamed(p, v, Aside(v)), p) /\ SameOffer(Renamed(p, Aside(v), v), p)
<1>1. /\ v \in Keys /\ Aside(v) \in Keys /\ v # Aside(v)
      /\ \A i \in Images : i \in Keys /\ i # v /\ i # Aside(v)
  BY Names
<1>2. p \in [Keys -> RbdImage]
  BY DEF PoolSound
<1>3. \A s : /\ SameOffer(Snapped(p, v, s), p)
             /\ SameOffer(Unsnapped(p, v, s), p) /\ SameOffer(Unheld(p, v, s), p)
                     /\ SameOffer(Sized(p, v, s), p)
  BY <1>1, <1>2 DEF SameOffer, Snapped, Unsnapped, Unheld, Sized
<1>4. \A s : SameOffer(Protected(p, v, s), p)
  BY <1>1, <1>2 DEF SameOffer, Snapped, Protected
<1>5. (\A n, s : SameOffer(Cloned(p, n, s, v), p)) /\ SameOffer(Gone(p, v), p)
  BY <1>1, <1>2 DEF SameOffer, Cloned, Gone
<1>6. ASSUME NEW a \in Keys, NEW b \in Keys, a # b, \A i \in Images : i # a /\ i # b
      PROVE  SameOffer(Renamed(p, a, b), p)
  <2>1. ASSUME NEW i \in Images
        PROVE  Renamed(p, a, b)[i].size = p[i].size /\ Renamed(p, a, b)[i].protected = p[i].protected
    <3>1. i \in Keys \ {a} /\ i # b
      BY <1>1, <1>6
    <3>2. QED
      BY <1>6, <3>1, RenamedPool
  <2>2. QED
    BY <2>1 DEF SameOffer
<1>7. SameOffer(Renamed(p, v, Aside(v)), p) /\ SameOffer(Renamed(p, Aside(v), v), p)
  BY <1>1, <1>6
<1>8. QED
  BY <1>3, <1>4, <1>5, <1>7

\* A request about a machine goes on, other than a release.
MachineGoesOn(w) ==
    \/ CloneDisk(w) \/ ResizeNewDisk(w) \/ SaveMachine(w) \/ DefineMachine(w) \/ RemoveNewDisk(w)
    \/ RenameSysDisk(w) \/ CloneNewDisk(w) \/ DefineNew(w) \/ SaveNew(w)
    \/ RemountDevices(w) \/ RemoveNew(w) \/ RenameBack(w)
    \/ ReadSize(w) \/ SaveSize(w) \/ ResizeSysDisk(w)
    \/ TakeSysSnap(w) \/ SaveSysSnap(w) \/ RemoveSysSnap(w) \/ DeleteSysSnapRow(w) \/ RollbackDisk(w)

\* It has the row it loaded, or ends.
KeepsRow(w) == request'[w] = NoRequest \/ request'[w].row = request[w].row

\* It leaves the base images alone.
LEMMA MachineElsewhere ==
    ASSUME TInv, UNCHANGED setting, NEW w \in Threads, MachineGoesOn(w)
    PROVE  /\ Moved(w) /\ request[w].pc # "idle"
           /\ request[w].op \in {"create_machine", "change_sys_disk", "rollback", "sys_disk_expand",
                                 "create_sys_snap", "delete_sys_snap"}
           /\ UNCHANGED imagerow
           /\ SameOffer(pool', pool) /\ tick <= tick'
           /\ KeepsRow(w)
<1>1. /\ PoolSound(pool, tick) /\ tick \in Nat /\ Formed(request[w])
      /\ SameOffer(pool, pool) /\ tick <= tick /\ tick <= tick + 1
  BY RbdAssumption DEF TInv, SameOffer
<1>2. /\ request[w] \in RequestState
      /\ \A pc : [request[w] EXCEPT !.pc = pc].row = request[w].row
      /\ \A pc, s : /\ [request[w] EXCEPT !.snap = s, !.pc = pc].row = request[w].row
                    /\ [request[w] EXCEPT !.size = s, !.pc = pc].row = request[w].row
  BY DEF TInv, RequestState
<1> DEFINE steps == {"clone_disk", "resize_new", "save_machine", "define_machine", "remove_disk",
                     "rename_disk", "clone_new", "define_new", "save_new", "remove_new", "rename_back",
                     "remount", "size_read", "size_save", "sys_snap", "sys_snap_save", "remove_sys_snap",
                     "snap_rowdel", "rollback", "resize"}
           goal == /\ request[w].pc \in steps /\ Moved(w) /\ UNCHANGED imagerow
                   /\ SameOffer(pool', pool) /\ tick <= tick'
                   /\ KeepsRow(w)
<1>3. ASSUME CloneDisk(w)
      PROVE  goal
  <2>1. /\ request[w].pc = "clone_disk" /\ Moved(w) /\ OnlyCeph /\ UNCHANGED tick
        /\ request[w].machine \in Machines
        /\ \/ /\ pool' = Cloned(pool, request[w].image, request[w].row.snap, request[w].machine)
              /\ request'[w] = [request[w] EXCEPT !.pc = "resize_new"]
           \/ pool' = pool /\ request'[w] = NoRequest
    BY <1>3, CloneDiskTyped
  <2>2. SameOffer(pool', pool)
    BY <1>1, <2>1, DiskIsElsewhere
  <2>3. KeepsRow(w)
    BY <1>2, <2>1 DEF KeepsRow, RequestState
  <2>4. QED
    BY <1>1, <2>1, <2>2, <2>3 DEF OnlyCeph, ImageRowsSame
<1>4. ASSUME CloneNewDisk(w)
      PROVE  goal
  <2>1. /\ request[w].pc = "clone_new" /\ Moved(w) /\ OnlyCeph /\ UNCHANGED tick
        /\ request[w].machine \in Machines
        /\ \/ pool' = Cloned(pool, request[w].image, request[w].row.snap, request[w].machine)
           \/ pool' = pool
        /\ \/ request'[w] = [request[w] EXCEPT !.pc = "define_new"]
           \/ request'[w] = [request[w] EXCEPT !.pc = "rename_back"]
           \/ request'[w] = NoRequest
    BY <1>4, CloneNewDiskTyped
  <2>2. SameOffer(pool', pool)
    BY <1>1, <2>1, DiskIsElsewhere
  <2>3. KeepsRow(w)
    BY <1>2, <2>1 DEF KeepsRow, RequestState
  <2>4. QED
    BY <1>1, <2>1, <2>2, <2>3 DEF OnlyCeph, ImageRowsSame
<1>5. ASSUME ResizeNewDisk(w) \/ ResizeSysDisk(w) \/ RollbackDisk(w)
      PROVE  goal
  <2>1. /\ request[w].pc \in steps /\ Moved(w) /\ OnlyCeph /\ UNCHANGED tick
        /\ request[w].machine \in Machines
        /\ pool' = pool \/ \E size : pool' = Sized(pool, request[w].machine, size)
        /\ request'[w] = NoRequest \/ \E pc : request'[w] = [request[w] EXCEPT !.pc = pc]
    <3>1. CASE ResizeNewDisk(w)
      BY <3>1, ResizeNewDiskTyped
    <3>2. CASE ResizeSysDisk(w)
      BY <3>2, ResizeSysDiskTyped
    <3>3. CASE RollbackDisk(w)
      <4> DEFINE size == pool[request[w].machine].snaps[request[w].snap]
      <4>1. /\ request[w].pc = "rollback" /\ Moved(w) /\ OnlyCeph /\ UNCHANGED tick
            /\ request[w].machine \in Machines
            /\ \/ /\ pool' = Sized(pool, request[w].machine, size)
                  /\ request'[w] = [request[w] EXCEPT !.pc = "size_read"]
               \/ pool' = pool /\ request'[w] = NoRequest
        BY <3>3, RollbackDiskTyped
      <4> HIDE DEF size
      <4>2. QED
        BY <4>1
    <3>4. QED
      BY <1>5, <3>1, <3>2, <3>3
  <2>2. SameOffer(pool', pool)
    BY <1>1, <2>1, DiskIsElsewhere
  <2>3. KeepsRow(w)
    BY <1>2, <2>1 DEF KeepsRow, RequestState
  <2>4. QED
    BY <1>1, <2>1, <2>2, <2>3 DEF OnlyCeph, ImageRowsSame
<1>6. ASSUME SaveMachine(w) \/ SaveNew(w) \/ SaveSysSnap(w) \/ DeleteSysSnapRow(w) \/ SaveSize(w)
      PROVE  goal
  <2>1. /\ request[w].pc \in steps /\ Moved(w) /\ OnlyMachineRow
        /\ request'[w] = NoRequest \/ \E pc : request'[w] = [request[w] EXCEPT !.pc = pc]
    BY <1>6, SaveMachineTyped, SaveNewTyped, SaveSysSnapTyped, DeleteSysSnapRowTyped, SaveSizeTyped
  <2>2. UNCHANGED <<imagerow, pool, tick>>
    BY <2>1 DEF OnlyMachineRow, ImageRowsSame, CephSame
  <2>3. KeepsRow(w)
    BY <1>2, <2>1 DEF KeepsRow, RequestState
  <2>4. QED
    BY <1>1, <2>1, <2>2, <2>3
<1>7. ASSUME DefineMachine(w)
      PROVE  goal
  BY <1>1, <1>2, <1>7, DefineMachineTyped DEF KeepsRow, RequestState
<1>8. ASSUME DefineNew(w) \/ RemountDevices(w) \/ ReadSize(w)
      PROVE  goal
  <2>1. /\ request[w].pc \in steps /\ Moved(w) /\ OnlyRequest
        /\ \/ request'[w] = NoRequest
           \/ \E pc : request'[w] = [request[w] EXCEPT !.pc = pc]
           \/ \E pc, s : request'[w] = [request[w] EXCEPT !.size = s, !.pc = pc]
    BY <1>8, DefineNewTyped, RemountTyped, ReadSizeTyped
  <2>2. UNCHANGED <<imagerow, pool, tick>>
    BY <2>1 DEF OnlyRequest, OnlyCeph, ImageRowsSame, CephSame
  <2>3. KeepsRow(w)
    BY <1>2, <2>1 DEF KeepsRow, RequestState
  <2>4. QED
    BY <1>1, <2>1, <2>2, <2>3
<1>9. ASSUME RemoveNewDisk(w) \/ RemoveNew(w)
      PROVE  goal
  <2>1. /\ request[w].pc \in steps /\ Moved(w) /\ OnlyCeph /\ UNCHANGED tick
        /\ request[w].machine \in Machines
        /\ pool' = pool \/ pool' = Gone(pool, request[w].machine)
        /\ request'[w] = NoRequest \/ \E pc : request'[w] = [request[w] EXCEPT !.pc = pc]
    BY <1>9, RemoveNewDiskTyped, RemoveNewTyped
  <2>2. SameOffer(pool', pool)
    BY <1>1, <2>1, DiskIsElsewhere
  <2>3. KeepsRow(w)
    BY <1>2, <2>1 DEF KeepsRow, RequestState
  <2>4. QED
    BY <1>1, <2>1, <2>2, <2>3 DEF OnlyCeph, ImageRowsSame
<1>10. ASSUME RenameSysDisk(w) \/ RenameBack(w)
      PROVE  goal
  <2>1. /\ request[w].pc \in steps /\ Moved(w) /\ OnlyCeph /\ UNCHANGED tick
        /\ request[w].machine \in Machines
        /\ \/ pool' = pool
           \/ pool' = Renamed(pool, request[w].machine, Aside(request[w].machine))
           \/ pool' = Renamed(pool, Aside(request[w].machine), request[w].machine)
        /\ request'[w] = NoRequest \/ \E pc : request'[w] = [request[w] EXCEPT !.pc = pc]
    BY <1>10, RenameSysDiskTyped, RenameBackTyped
  <2>2. SameOffer(pool', pool)
    BY <1>1, <2>1, DiskIsElsewhere
  <2>3. KeepsRow(w)
    BY <1>2, <2>1 DEF KeepsRow, RequestState
  <2>4. QED
    BY <1>1, <2>1, <2>2, <2>3 DEF OnlyCeph, ImageRowsSame
<1>11. ASSUME TakeSysSnap(w)
      PROVE  goal
  <2>1. /\ request[w].pc = "sys_snap" /\ Moved(w) /\ OnlyCeph /\ tick' = tick + 1
        /\ request[w].machine \in Machines
        /\ pool' = pool \/ pool' = Snapped(pool, request[w].machine, tick + 1)
        /\ \/ request'[w] = NoRequest
           \/ request'[w] = [request[w] EXCEPT !.snap = tick + 1, !.pc = "sys_snap_save"]
    BY <1>11, TakeSysSnapTyped
  <2>2. SameOffer(pool', pool)
    BY <1>1, <2>1, DiskIsElsewhere
  <2>3. KeepsRow(w)
    BY <1>2, <2>1 DEF KeepsRow, RequestState
  <2>4. QED
    BY <1>1, <2>1, <2>2, <2>3 DEF OnlyCeph, ImageRowsSame
<1>12. ASSUME RemoveSysSnap(w)
      PROVE  goal
  <2>1. /\ request[w].pc = "remove_sys_snap" /\ Moved(w) /\ OnlyCeph /\ UNCHANGED tick
        /\ request[w].machine \in Machines
        /\ \/ pool' = pool \/ pool' = Unsnapped(pool, request[w].machine, request[w].snap)
           \/ pool' = Unheld(pool, request[w].machine, request[w].snap)
        /\ request'[w] = NoRequest \/ request'[w] = [request[w] EXCEPT !.pc = "snap_rowdel"]
    BY <1>12, RemoveSysSnapTyped
  <2>2. SameOffer(pool', pool)
    BY <1>1, <2>1, DiskIsElsewhere
  <2>3. KeepsRow(w)
    BY <1>2, <2>1 DEF KeepsRow, RequestState
  <2>4. QED
    BY <1>1, <2>1, <2>2, <2>3 DEF OnlyCeph, ImageRowsSame
<1>13. goal
  BY <1>3, <1>4, <1>5, <1>6, <1>7, <1>8, <1>9, <1>10, <1>11, <1>12 DEF MachineGoesOn
<1>14. request[w].pc # "idle" /\ request[w].op \in {"create_machine", "change_sys_disk", "rollback",
                                 "sys_disk_expand", "create_sys_snap", "delete_sys_snap"}
  BY <1>1, <1>13, OpsAt
<1>15. QED
  BY <1>13, <1>14

\* A request that has no snapshot in hand, or ends, goes on with its image as it was.
LEMMA SnapsRest ==
    ASSUME SnapInv, VmInv', UNCHANGED setting, tick <= tick', NEW w \in Threads, Moved(w),
           \A j \in Images : /\ imagerow'[j].live = imagerow[j].live /\ imagerow'[j].snap = imagerow[j].snap
                             /\ imagerow[j].live /\ image_exists(pool, j) => image_exists(pool', j)
                             /\ pool'[j].protected = pool[j].protected,
           NEW q, request'[w] = q, ~InHand(q), q.pc # "snap_remove",
           q.image \in Images => SnapKnows(q, imagerow[q.image], pool[q.image], tick),
           \A j \in Images : (Deletes(request[w], j) => Deletes(q, j)) /\ (Updates(request[w], j) => Updates(q, j))
    PROVE  SnapInv'
<1>1. \A x \in Threads \ {w} : SnapsDiffer(request[x], q) /\ SnapsDiffer(q, request[x])
  BY DEF SnapsDiffer
<1>2. QED
  BY <1>1, SnapsStay

\* Most kinds of request need to know nothing of the row, and have nothing in hand.
LEMMA PlainKnows ==
    ASSUME NEW q, Formed(q), q.op \notin NeedsRow \cup {"add_image", "release"},
           NEW row, NEW img, NEW t, q.row.snap <= t
    PROVE  SnapKnows(q, row, img, t) /\ ~InHand(q) /\ q.pc # "snap_remove"
<1>1. /\ q.pc \notin {"insert", "snap_remove", "save_all"}
      /\ q.pc \notin {"save_vm", "define_vm", "reset_vm"}
  BY OpsAt DEF NeedsRow
<1>2. QED
  BY <1>1 DEF SnapKnows, InHand, RowLoaded, NeedsRow

\* The end of a request.
LEMMA NoneInHand ==
    ASSUME TInv
    PROVE  /\ \A row, img : SnapKnows(NoRequest, row, img, tick)
           /\ ~InHand(NoRequest) /\ NoRequest.pc # "snap_remove"
           /\ NoRequest.op = "none" /\ NoRequest.pc = "idle" /\ NoRequest.row.snap = 0
           /\ NoRequest.image \notin Images
<1>1. /\ NoRequest.op = "none" /\ NoRequest.pc = "idle" /\ NoRequest.row.snap = 0
      /\ NoRequest.image \notin Images
  BY Names DEF NoRequest, NoImageRow
<1>2. 0 <= tick
  BY RbdAssumption DEF TInv
<1>3. QED
  BY <1>1, <1>2, NoRequestFormed, PlainKnows DEF NeedsRow

\* Which requests about an image cannot meet.
LEMMA CannotMeet ==
    ASSUME SnapInv, NEW w \in Threads, NEW x \in Threads \ {w}, request[w].image \in Images,
           request[x].image = request[w].image
    PROVE  /\ request[w].op = "snap_update" => request[x].op \notin {"enable_update", "delete_image"}
           /\ request[w].op = "enable_update" => request[x].op \notin {"snap_update", "delete_image"}
           /\ request[w].op = "delete_image"
              => request[x].op \notin {"add_image", "enable_update", "release", "snap_update"}
           /\ request[w].op = "release" => request[x].op \notin {"add_image", "release", "delete_image"}
           /\ request[w].op = "add_image" => request[x].op \notin {"delete_image", "release"}
<1> DEFINE a == request[w].op
           b == request[x].op
<1>1. ASSUME a \notin {"none", "change_sys_disk"}, b \notin {"none", "change_sys_disk"}
      PROVE  /\ a \in setting.ops /\ b \in setting.ops
             /\ <<a, b>> \in setting.overlaps \/ <<b, a>> \in setting.overlaps
  BY <1>1, Names DEF NoRequest, SnapInv, VmInv, MInv, Meeting, Meet
<1> HIDE DEF a, b
<1>2. /\ a = "snap_update" => b \notin {"enable_update", "delete_image"}
      /\ b = "snap_update" => a \notin {"enable_update", "delete_image"}
  BY <1>1 DEF SnapInv, SnapSetting, Apart
<1>3. /\ a = "delete_image" => b \notin {"add_image", "enable_update", "release"}
      /\ b = "delete_image" => a \notin {"add_image", "enable_update", "release"}
  BY <1>1 DEF SnapInv, SnapSetting, Apart
<1>4. /\ a = "release" => b \notin {"add_image", "release"}
      /\ b = "release" => a \notin {"add_image", "release"}
  BY <1>1 DEF SnapInv, SnapSetting, Apart
<1>5. QED
  BY <1>2, <1>3, <1>4 DEF a, b

\* What a request knows.
LEMMA KnownOf ==
    ASSUME SnapInv, NEW w \in Threads
    PROVE  /\ TInv /\ MInv /\ VmInv /\ Formed(request[w]) /\ request[w] \in RequestState
           /\ PoolSound(pool, tick) /\ tick \in Nat /\ tick <= tick /\ tick <= tick + 1
           /\ imagerow \in [Images -> ImageRow]
           /\ \A i \in Images : imagerow[i].snap <= tick /\ imagerow[i].snap \in Nat /\ OfferSound(i)
           /\ request[w].image \in Images
              => SnapKnows(request[w], imagerow[request[w].image], pool[request[w].image], tick)
<1>1. TInv /\ MInv /\ VmInv
  BY DEF SnapInv, VmInv, MInv
<1>2. \A i \in Images : imagerow[i].snap \in Nat
  BY <1>1, RbdAssumption DEF TInv, ImageRow
<1>3. tick \in Nat /\ tick <= tick /\ tick <= tick + 1
  BY <1>1, RbdAssumption DEF TInv
<1>4. QED
  BY <1>1, <1>2, <1>3 DEF SnapInv, SnapRows, TInv

\* Requests about machines go on.
LEMMA MachineSnaps ==
    ASSUME SnapInv, VmInv', UNCHANGED setting, NEW w \in Threads, MachineGoesOn(w)
    PROVE  SnapInv'
<1>1. /\ Moved(w) /\ request[w].pc # "idle"
      /\ request[w].op \in {"create_machine", "change_sys_disk", "rollback", "sys_disk_expand",
                            "create_sys_snap", "delete_sys_snap"}
      /\ UNCHANGED imagerow
      /\ SameOffer(pool', pool) /\ tick <= tick'
      /\ KeepsRow(w)
  BY KnownOf, MachineElsewhere
<1> DEFINE q == request'[w]
<1>2. /\ Formed(q)
      /\ q = NoRequest \/ (q.op = request[w].op /\ q.image = request[w].image /\ q.row = request[w].row)
  BY <1>1, GoesOn DEF Moved, KeepsRow
<1>3. /\ q.op \notin NeedsRow \cup {"add_image", "release"}
      /\ q.image \in Images => q.row.snap <= tick
  BY <1>1, <1>2, KnownOf, NoneInHand DEF NeedsRow, SnapKnows
<1>4. \A j \in Images : /\ imagerow'[j].live = imagerow[j].live /\ imagerow'[j].snap = imagerow[j].snap
                        /\ imagerow[j].live /\ image_exists(pool, j) => image_exists(pool', j)
                        /\ pool'[j].protected = pool[j].protected
  BY <1>1 DEF SameOffer, image_exists
<1>5. \A j : ~Deletes(request[w], j) /\ ~Updates(request[w], j)
  BY <1>1 DEF Deletes, Updates
<1> HIDE DEF q
<1>6. ~InHand(q) /\ q.pc # "snap_remove"
  BY <1>2, <1>3, OpsAt DEF NeedsRow, InHand
<1>7. q.image \in Images => SnapKnows(q, imagerow[q.image], pool[q.image], tick)
  BY <1>2, <1>3, PlainKnows
<1>8. request'[w] = q
  BY DEF q
<1>9. QED
  BY <1>1, <1>4, <1>5, <1>6, <1>7, <1>8, SnapsRest

\* Requests about machines arrive.
LEMMA MachineArrivesSnaps ==
    ASSUME SnapInv, VmInv', UNCHANGED setting, NEW w \in Threads, NEW v \in Machines,
           \/ CreateSysSnap(w, v)
           \/ \E size \in 1 .. MaxSize :
                \/ ExpandSysDisk(w, v, size)
                \/ \E i \in Images : CreateMachine(w, v, i, size)
           \/ \E i \in Images : ChangeSysDisk(w, v, i)
           \/ \E op \in ImageOps, s \in 1 .. MaxTick : AboutSysSnap(w, op, v, s)
    PROVE  SnapInv'
<1>1. /\ Moved(w) /\ request[w] = NoRequest
      /\ request'[w].op \in {"create_sys_snap", "sys_disk_expand", "create_machine", "change_sys_disk",
                             "delete_sys_snap", "rollback"}
  BY KnownOf, MachineArrives
<1>2. /\ NoRequest.row.snap = 0 /\ NoImageRow.snap = 0 /\ 0 <= tick /\ TInv
      /\ \A i \in Images : imagerow[i].snap <= tick
  BY KnownOf, NoneInHand DEF NoImageRow
<1>3. request'[w].row.snap <= tick /\ (OnlyRequest \/ OnlyMachineRow)
  <2>1. CASE CreateSysSnap(w, v)
    <3>1. /\ OnlyRequest
          /\ request'[w] = [NoRequest EXCEPT !.op = "create_sys_snap", !.image = NoOne, !.machine = v,
                              !.pc = "sys_snap", !.row = NoImageRow]
      BY <1>2, <2>1, CreateSysSnapTyped
    <3>2. QED
      BY <1>2, <3>1 DEF NoRequest
  <2>2. ASSUME NEW size \in 1 .. MaxSize, ExpandSysDisk(w, v, size)
        PROVE  request'[w].row.snap <= tick /\ OnlyRequest
    <3>1. /\ OnlyRequest
          /\ request'[w] = [NoRequest EXCEPT !.op = "sys_disk_expand", !.machine = v,
                              !.size = machine[v].sys_disk_size + size, !.pc = "resize"]
      BY <1>2, <2>2, ExpandSysDiskTyped
    <3>2. QED
      BY <1>2, <3>1 DEF NoRequest
  <2>3. ASSUME NEW size \in 1 .. MaxSize, NEW i \in Images, CreateMachine(w, v, i, size)
        PROVE  request'[w].row.snap <= tick /\ OnlyRequest
    <3>1. /\ OnlyRequest
          /\ request' = [request EXCEPT ![w] =
                            [NoRequest EXCEPT !.op = "create_machine", !.image = i, !.machine = v,
                                              !.row = imagerow[i], !.size = size, !.pc = "clone_disk"]]
      BY <2>3 DEF CreateMachine
    <3>2. request'[w].row = imagerow[i]
      BY <1>2, <3>1 DEF NoRequest, TInv
    <3>3. QED
      BY <1>2, <3>1, <3>2
  <2>4. ASSUME NEW i \in Images, ChangeSysDisk(w, v, i)
        PROVE  request'[w].row.snap <= tick /\ OnlyMachineRow
    <3>1. /\ OnlyMachineRow
          /\ request'[w] = [NoRequest EXCEPT !.op = "change_sys_disk", !.image = i, !.machine = v,
                              !.pc = "rename_disk", !.row = imagerow[i]]
      BY <1>2, <2>4, ChangeSysDiskTyped
    <3>2. QED
      BY <1>2, <3>1 DEF NoRequest
  <2>5. ASSUME NEW op \in ImageOps, NEW s \in 1 .. MaxTick, AboutSysSnap(w, op, v, s)
        PROVE  request'[w].row.snap <= tick /\ OnlyRequest
    <3>1. /\ OnlyRequest
          /\ request' = [request EXCEPT ![w] =
                            [NoRequest EXCEPT !.op = op, !.machine = v, !.snap = s,
                                              !.pc = IF op = "rollback" THEN "rollback" ELSE "remove_sys_snap"]]
      BY <2>5 DEF AboutSysSnap
    <3>2. request'[w].row = NoRequest.row
      BY <1>2, <3>1 DEF NoRequest, TInv
    <3>3. QED
      BY <1>2, <3>1, <3>2
  <2>6. QED
    BY <2>1, <2>2, <2>3, <2>4, <2>5
<1>4. UNCHANGED <<imagerow, pool, tick>>
  BY <1>3 DEF OnlyRequest, OnlyMachineRow, OnlyCeph, ImageRowsSame, CephSame
<1>5. \A j : ~Deletes(request[w], j) /\ ~Updates(request[w], j)
  BY <1>1, NoneInHand, KnownOf DEF Deletes, Updates
<1> DEFINE q == request'[w]
<1>6. Formed(q) /\ q.op \notin NeedsRow \cup {"add_image", "release"} /\ q.row.snap <= tick
  BY <1>1, <1>3 DEF Moved, NeedsRow
<1> HIDE DEF q
<1>7. ~InHand(q) /\ q.pc # "snap_remove"
      /\ \A row, img : SnapKnows(q, row, img, tick)
  BY <1>6, PlainKnows
<1>8. request'[w] = q /\ tick <= tick'
  BY <1>4, KnownOf DEF q
<1>9. QED
  BY <1>1, <1>4, <1>5, <1>7, <1>8, SnapsRest

\* Nothing that matters changes.
LEMMA SnapsUnmoved ==
    ASSUME SnapInv, VmInv', UNCHANGED <<setting, imagerow, pool, tick, request>>
    PROVE  SnapInv'
  BY DEF SnapInv, SnapRows, OfferSound, image_exists

\* Power, and a release that arrives or is refused.
LEMMA ReleaseArrivesSnaps ==
    ASSUME SnapInv, VmInv', UNCHANGED setting, NEW w \in Threads, NEW v \in Machines,
           MachinePower(w, v) \/ \E i \in Images : ReleaseImage(w, v, i)
    PROVE  SnapInv'
<1>1. CASE MachinePower(w, v)
  BY <1>1, MachinePowerTyped, KnownOf, SnapsUnmoved
<1>2. ASSUME NEW i \in Images, ReleaseImage(w, v, i)
      PROVE  SnapInv'
  <2>1. /\ UNCHANGED <<imagerow, pool, tick>>
        /\ \/ request' = request
           \/ /\ Moved(w) /\ request[w] = NoRequest
              /\ request'[w] = [NoRequest EXCEPT !.op = "release", !.image = i, !.machine = v,
                                  !.pc = "rel_exists"]
    BY <1>2, ReleaseImageTyped, KnownOf
  <2>2. CASE request' = request
    BY <2>1, <2>2, SnapsUnmoved
  <2>3. CASE Moved(w) /\ request[w] = NoRequest
             /\ request'[w] = [NoRequest EXCEPT !.op = "release", !.image = i, !.machine = v,
                                 !.pc = "rel_exists"]
    <3> DEFINE q == request'[w]
    <3>1. q.op = "release" /\ q.pc = "rel_exists" /\ q.row.snap = 0 /\ q.image = i
      BY <2>3, NoneInHand, KnownOf DEF NoRequest
    <3>2. \A j : ~Deletes(request[w], j) /\ ~Updates(request[w], j)
      BY <2>3, NoneInHand, KnownOf DEF Deletes, Updates
    <3> HIDE DEF q
    <3>3. request'[w] = q /\ tick <= tick' /\ 0 <= tick
      BY <2>1, KnownOf DEF q
    <3>4. SnapKnows(q, imagerow[i], pool[i], tick) /\ ~InHand(q) /\ q.pc # "snap_remove"
      BY <3>1, <3>3 DEF SnapKnows, InHand, RowLoaded, NeedsRow
    <3>5. QED
      BY <2>1, <2>3, <3>1, <3>2, <3>3, <3>4, SnapsRest
  <2>4. QED
    BY <2>1, <2>2, <2>3
<1>3. QED
  BY <1>1, <1>2

\* A release goes on, up to where its image is added.
ReleaseGoesOn(w) ==
    \/ ReleaseExists(w) \/ ReleaseSnap(w) \/ ReleaseClone(w) \/ ReleaseFlatten(w)
    \/ ReleaseRemove(w) \/ ReleaseUndoSnap(w) \/ ReleaseUnsnap(w)

\* No image in the list loses its base image or a protected snapshot.
OfferStays ==
    \A j \in Images : /\ imagerow[j].live /\ image_exists(pool, j) => image_exists(pool', j)
                      /\ pool'[j].protected = pool[j].protected

\* What leaves the base images as they are leaves those of images in the list.
LEMMA SameOfferStays ==
    ASSUME SameOffer(pool', pool)
    PROVE  OfferStays
  BY DEF SameOffer, OfferStays, image_exists

\* What is not there has no snapshot, and what has no snapshot no protected one.
LEMMA NothingProtected ==
    ASSUME NEW p, NEW t, PoolSound(p, t), NEW i \in Images
    PROVE  /\ ~image_exists(p, i) => p[i].protected = {}
           /\ (\A s \in 1 .. MaxTick : ~HasSnap(p, i, s)) => p[i].protected = {}
           /\ \A s \in p[i].protected : HasSnap(p, i, s)
<1>1. p[i] \in RbdImage /\ Sound(p[i], t)
  BY Names DEF PoolSound
<1>2. ~image_exists(p, i) => p[i].protected = {}
  BY <1>1, RbdAssumption DEF RbdImage, Sound, image_exists, NoImage
<1>3. \A s \in p[i].protected : HasSnap(p, i, s)
  BY <1>1 DEF Sound, HasSnap, RbdImage
<1>4. QED
  BY <1>1, <1>2, <1>3 DEF RbdImage

\* A release goes on.
LEMMA ReleaseSnaps ==
    ASSUME SnapInv, VmInv', UNCHANGED setting, NEW w \in Threads, ReleaseGoesOn(w)
    PROVE  SnapInv'
<1>1. /\ Moved(w) /\ request[w].op = "release" /\ KeepsRow(w) /\ Formed(request'[w])
  BY KnownOf, ReleaseKeepsRow DEF ReleaseGoesOn, KeepsRow, Moved
<1>2. /\ PoolSound(pool, tick) /\ TInv /\ Formed(request[w]) /\ tick \in Nat
      /\ tick <= tick /\ tick <= tick + 1 /\ SameOffer(pool, pool)
  BY KnownOf DEF SameOffer
<1>3. /\ request[w].image \in Images /\ request[w].pc # "idle"
      /\ SnapKnows(request[w], imagerow[request[w].image], pool[request[w].image], tick)
  BY <1>1, <1>2, NoneInHand, StagesAreSteps, KnownOf DEF Formed, MachineOnly
<1>4. request[w].pc # "rel_exists" => ~imagerow[request[w].image].live
  BY <1>1, <1>3 DEF SnapKnows
<1>5. ~image_exists(pool, request[w].image) => ~imagerow[request[w].image].live
  <2>1. \A x \in Threads : ~Deletes(request[x], request[w].image)
    <3>1. ~Deletes(request[w], request[w].image)
      BY <1>1 DEF Deletes
    <3>2. ASSUME NEW x \in Threads \ {w}
          PROVE  ~Deletes(request[x], request[w].image)
      BY <1>1, <1>3, CannotMeet DEF Deletes
    <3>3. QED
      BY <3>1, <3>2
  <2>2. OfferSound(request[w].image)
    BY <1>3, KnownOf
  <2>3. QED
    BY <2>1, <2>2 DEF OfferSound
<1> DEFINE i == request[w].image
           on == request'[w].pc \in {"rel_snap", "rel_clone", "rel_flatten", "rel_unsnap", "rel_remove",
                                     "rel_unsnap_failed", "create_image"}
           goal == /\ UNCHANGED imagerow /\ tick <= tick' /\ OfferStays
                   /\ request'[w] = NoRequest \/ (on /\ ~imagerow[i].live)
<1>6. \A pc : [request[w] EXCEPT !.pc = pc].pc = pc
  BY <1>2 DEF TInv, RequestState
<1>7. ASSUME ReleaseExists(w)
      PROVE  goal
  <2>1. /\ UNCHANGED <<imagerow, tick, pool>>
        /\ \/ /\ ~image_exists(pool, request[w].image)
              /\ request'[w] = [request[w] EXCEPT !.pc = "rel_snap"]
           \/ request'[w] = NoRequest
    BY <1>2, <1>7, ReleaseExistsTyped
  <2>2. SameOffer(pool', pool)
    BY <1>2, <2>1
  <2>3. QED
    BY <1>2, <1>5, <1>6, <2>1, <2>2, SameOfferStays
<1>8. ASSUME ReleaseSnap(w)
      PROVE  goal
  <2>1. /\ UNCHANGED imagerow /\ tick' = tick + 1
        /\ request[w].pc = "rel_snap" /\ request[w].machine \in Machines
        /\ \/ pool' = Protected(pool, request[w].machine, tick + 1)
           \/ pool' = pool
           \/ pool' = Snapped(pool, request[w].machine, tick + 1)
        /\ \/ request'[w] = [request[w] EXCEPT !.snap = tick + 1, !.pc = "rel_clone"]
           \/ request'[w] = NoRequest
    BY <1>2, <1>8, ReleaseSnapTyped
  <2>2. SameOffer(pool', pool)
    BY <1>2, <2>1, DiskIsElsewhere
  <2>3. ~imagerow[i].live /\ OfferStays
    BY <1>4, <2>1, <2>2, SameOfferStays
  <2>4. request'[w] = NoRequest \/ request'[w].pc = "rel_clone"
    BY <2>1, KnownOf DEF RequestState
  <2>5. tick <= tick'
    BY <1>2, <2>1
  <2>6. QED
    BY <2>1, <2>3, <2>4, <2>5
<1>9. ASSUME ReleaseClone(w)
      PROVE  goal
  <2>1. /\ UNCHANGED <<imagerow, tick>>
        /\ request[w].pc = "rel_clone"
        /\ \/ /\ ~image_exists(pool, request[w].image)
              /\ pool' = Cloned(pool, request[w].machine, request[w].snap, request[w].image)
              /\ request'[w] = [request[w] EXCEPT !.pc = "rel_flatten"]
           \/ pool' = pool /\ request'[w] = NoRequest
    BY <1>2, <1>9, ReleaseCloneTyped
  <2>2. ASSUME ~image_exists(pool, i),
               pool' = Cloned(pool, request[w].machine, request[w].snap, request[w].image)
        PROVE  OfferStays
    BY <1>2, <1>3, <2>2, Names, NothingProtected DEF PoolSound, Cloned, NoImage, OfferStays, image_exists
  <2>3. OfferStays
    BY <1>2, <2>1, <2>2, SameOfferStays
  <2>4. QED
    BY <1>2, <1>4, <1>6, <2>1, <2>3
<1>10. ASSUME ReleaseFlatten(w)
       PROVE  goal
  <2>1. /\ UNCHANGED <<imagerow, tick>>
        /\ request[w].pc = "rel_flatten"
        /\ pool' = Flat(pool, request[w].image) \/ pool' = pool
        /\ \/ request'[w] = [request[w] EXCEPT !.pc = "rel_unsnap"]
           \/ request'[w] = [request[w] EXCEPT !.pc = "rel_remove"]
    BY <1>2, <1>10, ReleaseFlattenTyped
  <2>2. SameOffer(pool', pool)
    <3>1. i \in Keys /\ pool \in [Keys -> RbdImage] /\ Images \subseteq Keys
      BY <1>2, <1>3, Names DEF PoolSound
    <3>2. QED
      BY <1>2, <2>1, <3>1 DEF Flat, SameOffer, RbdImage
  <2>3. ~imagerow[i].live /\ OfferStays
    BY <1>4, <2>1, <2>2, SameOfferStays
  <2>4. QED
    BY <1>2, <1>6, <2>1, <2>3
<1>11. ASSUME ReleaseRemove(w)
       PROVE  goal
  <2>1. /\ UNCHANGED <<imagerow, tick>>
        /\ request[w].pc = "rel_remove"
        /\ \/ /\ \A s \in 1 .. MaxTick : ~HasSnap(pool, request[w].image, s)
              /\ pool' = Gone(pool, request[w].image)
              /\ request'[w] = [request[w] EXCEPT !.pc = "rel_unsnap_failed"]
           \/ pool' = pool /\ request'[w] = NoRequest
    BY <1>2, <1>11, ReleaseRemoveTyped
  <2>2. ASSUME \A s \in 1 .. MaxTick : ~HasSnap(pool, request[w].image, s),
               pool' = Gone(pool, request[w].image)
        PROVE  OfferStays
    <3>1. i \in Keys /\ i \in Images /\ pool[i].protected = {} /\ pool \in [Keys -> RbdImage]
      BY <1>2, <1>3, <2>2, Names, NothingProtected DEF PoolSound
    <3>2. (\A j \in Images \ {i} : pool'[j] = pool[j]) /\ pool'[i].protected = {}
      BY <2>2, <3>1, Names DEF Gone, NoImage
    <3>3. ~imagerow[i].live
      BY <1>4, <2>1
    <3>4. QED
      BY <3>1, <3>2, <3>3 DEF OfferStays, image_exists
  <2>3. OfferStays
    BY <1>2, <2>1, <2>2, SameOfferStays
  <2>4. QED
    BY <1>2, <1>4, <1>6, <2>1, <2>3
<1>12. ASSUME ReleaseUndoSnap(w) \/ ReleaseUnsnap(w)
       PROVE  goal
  <2>1. /\ UNCHANGED <<imagerow, tick>> /\ request[w].machine \in Machines
        /\ request[w].pc # "rel_exists"
        /\ request'[w] = [request[w] EXCEPT !.pc = "create_image"] \/ request'[w] = NoRequest
        /\ \/ pool' = pool \/ pool' = Unsnapped(pool, request[w].machine, request[w].snap)
           \/ pool' = Unheld(pool, request[w].machine, request[w].snap)
    BY <1>2, <1>12, ReleaseUnsnapTyped
  <2>2. SameOffer(pool', pool)
    BY <1>2, <2>1, DiskIsElsewhere
  <2>3. ~imagerow[i].live /\ OfferStays
    BY <1>4, <2>1, <2>2, SameOfferStays
  <2>4. QED
    BY <1>2, <1>6, <2>1, <2>3
<1>13. goal
  BY <1>7, <1>8, <1>9, <1>10, <1>11, <1>12 DEF ReleaseGoesOn
<1> DEFINE q == request'[w]
<1>14. /\ ~InHand(q) /\ q.pc # "snap_remove"
       /\ q.image \in Images => SnapKnows(q, imagerow[q.image], pool[q.image], tick)
  <2>1. CASE q = NoRequest
    BY <1>2, <2>1, NoneInHand
  <2>2. CASE q # NoRequest
    BY <1>1, <1>3, <1>13, <2>2, GoesOn DEF KeepsRow, SnapKnows, InHand, RowLoaded, NeedsRow
  <2>3. QED
    BY <2>1, <2>2
<1>15. \A j : ~Deletes(request[w], j) /\ ~Updates(request[w], j)
  BY <1>1 DEF Deletes, Updates
<1>16. \A j \in Images : /\ imagerow'[j].live = imagerow[j].live /\ imagerow'[j].snap = imagerow[j].snap
                         /\ imagerow[j].live /\ image_exists(pool, j) => image_exists(pool', j)
                         /\ pool'[j].protected = pool[j].protected
  BY <1>13 DEF OfferStays
<1> HIDE DEF q
<1>17. request'[w] = q /\ tick <= tick'
  BY <1>13 DEF q
<1>18. QED
  BY <1>1, <1>14, <1>15, <1>16, <1>17, SnapsRest

\* The requests about an image.
LEMMA ImageRequest ==
    ASSUME SnapInv, NEW w \in Threads, NEW i \in Images, request[w].image = i
    PROVE  /\ SnapKnows(request[w], imagerow[i], pool[i], tick)
           /\ \A x \in Threads \ {w} :
                 request[x].image = i
                 => /\ SnapKnows(request[x], imagerow[i], pool[i], tick)
                    /\ SnapsDiffer(request[x], request[w]) /\ SnapsDiffer(request[w], request[x])
                    /\ Formed(request[x]) /\ request[x] \in RequestState
                    /\ request[x].row.snap \in Nat
<1>1. \A x \in Threads : Formed(request[x]) /\ request[x] \in RequestState
  BY KnownOf
<1>2. \A x \in Threads : request[x].row.snap \in Nat
  BY <1>1, RbdAssumption DEF RequestState, ImageRow
<1>3. QED
  BY <1>1, <1>2 DEF SnapInv, SnapRows

\* The base image is made, or found.
LEMMA CreateBaseSnaps ==
    ASSUME SnapInv, VmInv', UNCHANGED setting, NEW w \in Threads, CreateBaseImage(w)
    PROVE  SnapInv'
<1>1. /\ request[w].pc = "create_image" /\ UNCHANGED <<imagerow, tick>>
  BY DEF CreateBaseImage, InStep, ImageRowsSame
<1>2. /\ PoolSound(pool, tick) /\ TInv /\ Formed(request[w]) /\ tick <= tick'
      /\ request[w] \in RequestState
  BY <1>1, KnownOf
<1>3. request[w].op \in {"add_image", "release"} /\ request[w].image \in Images
  BY <1>1, <1>2, OpsAt, AboutAt DEF MachineOnly
<1> DEFINE i == request[w].image
           q == request'[w]
<1>4. SnapKnows(request[w], imagerow[i], pool[i], tick)
  BY <1>3, KnownOf
<1>5. /\ Moved(w)
      /\ \/ /\ pool' = Made(pool, request[w].image, 1)
            /\ request'[w] = [request[w] EXCEPT !.pc = "create_snap"]
         \/ pool' = pool /\ request'[w] = NoRequest
  BY <1>2, CreateBaseImageTyped
<1>6. OfferStays
  <2>1. CASE pool' = Made(pool, request[w].image, 1)
    <3>1. i \in Keys /\ i \in Images /\ 1 \in 1 .. MaxSize /\ Images \subseteq Keys
      BY <1>3, Names, RbdAssumption
    <3> HIDE DEF i
    <3>2. /\ \A m \in Keys \ {i} : Made(pool, i, 1)[m] = pool[m]
          /\ image_exists(Made(pool, i, 1), i)
          /\ \A s \in 1 .. MaxTick : Made(pool, i, 1)[i].protected = pool[i].protected
      BY <1>2, <3>1, MadePool
    <3>3. 1 \in 1 .. MaxTick
      BY RbdAssumption
    <3>4. pool' = Made(pool, i, 1)
      BY <2>1 DEF i
    <3>5. QED
      BY <3>1, <3>2, <3>3, <3>4 DEF OfferStays, image_exists
  <2>2. CASE pool' = pool
    BY <2>2 DEF OfferStays
  <2>3. QED
    BY <1>5, <2>1, <2>2
<1>7. /\ ~InHand(q) /\ q.pc # "snap_remove"
      /\ q.image \in Images => SnapKnows(q, imagerow[q.image], pool[q.image], tick)
  <2>1. CASE q = NoRequest
    BY <1>2, <2>1, NoneInHand
  <2>2. CASE q = [request[w] EXCEPT !.pc = "create_snap"]
    BY <1>1, <1>2, <1>3, <1>4, <2>2 DEF RequestState, SnapKnows, InHand, RowLoaded, NeedsRow
  <2>3. QED
    BY <1>5, <2>1, <2>2
<1>8. \A j : ~Deletes(request[w], j) /\ ~Updates(request[w], j)
  BY <1>3 DEF Deletes, Updates
<1>9. \A j \in Images : /\ imagerow'[j].live = imagerow[j].live /\ imagerow'[j].snap = imagerow[j].snap
                        /\ imagerow[j].live /\ image_exists(pool, j) => image_exists(pool', j)
                        /\ pool'[j].protected = pool[j].protected
  BY <1>1, <1>6 DEF OfferStays
<1> HIDE DEF q
<1>10. request'[w] = q
  BY DEF q
<1>11. QED
  BY <1>2, <1>5, <1>7, <1>8, <1>9, <1>10, SnapsRest

\* A request that could not make the snapshot ends.  An update gets it.
LEMMA CreateSnapFails ==
    ASSUME SnapInv, VmInv', UNCHANGED <<setting, imagerow>>, NEW w \in Threads, Moved(w), tick' = tick + 1,
           request[w].pc \in {"create_snap", "snap_create"}, request[w].image \in Images,
           request'[w] = NoRequest,
           \/ /\ pool' = pool
              /\ Breaks("create_snap") \/ ~image_exists(pool, request[w].image)
           \/ /\ pool' = Snapped(pool, request[w].image, tick + 1)
              /\ Breaks("protect_snap")
    PROVE  SnapInv'
<1>1. /\ TInv /\ PoolSound(pool, tick) /\ Formed(request[w]) /\ tick <= tick'
      /\ OfferSound(request[w].image)
      /\ SnapKnows(request[w], imagerow[request[w].image], pool[request[w].image], tick)
  BY KnownOf
<1>2. request[w].op \in {"add_image", "release"}
  <2>1. request[w].op \in {"add_image", "release", "snap_update"}
    BY <1>1, OpsAt
  <2>2. ASSUME request[w].op = "snap_update" PROVE FALSE
    <3>1. request[w] # NoRequest /\ "snap_update" \in setting.ops
      BY <2>2, NoneInHand, <1>1 DEF SnapInv, VmInv, MInv
    <3>2. ~Breaks("create_snap") /\ ~Breaks("protect_snap")
      BY <3>1 DEF SnapInv, SnapSetting, Breaks
    <3>3. imagerow[request[w].image].live
      BY <1>1, <2>2 DEF SnapKnows, NeedsRow
    <3>4. \A x \in Threads : ~Deletes(request[x], request[w].image)
      <4>1. ~Deletes(request[w], request[w].image)
        BY <2>2 DEF Deletes
      <4>2. ASSUME NEW x \in Threads \ {w}
            PROVE  ~Deletes(request[x], request[w].image)
        BY <2>2, CannotMeet DEF Deletes
      <4>3. QED
        BY <4>1, <4>2
    <3>5. image_exists(pool, request[w].image)
      BY <1>1, <3>3, <3>4 DEF OfferSound
    <3>6. QED
      BY <3>2, <3>5
  <2>3. QED
    BY <2>1, <2>2
<1>3. \A j : ~Deletes(request[w], j) /\ ~Updates(request[w], j)
  BY <1>2 DEF Deletes, Updates
<1>4. SameOffer(pool', pool)
  <2>1. pool \in [Keys -> RbdImage] /\ Images \subseteq Keys
    BY <1>1, Names DEF PoolSound
  <2>2. QED
    BY <2>1 DEF SameOffer, Snapped, RbdImage
<1>5. \A j \in Images : /\ imagerow'[j].live = imagerow[j].live /\ imagerow'[j].snap = imagerow[j].snap
                        /\ imagerow[j].live /\ image_exists(pool, j) => image_exists(pool', j)
                        /\ pool'[j].protected = pool[j].protected
  BY <1>4 DEF SameOffer, image_exists
<1>6. ~InHand(NoRequest) /\ NoRequest.pc # "snap_remove" /\ NoRequest.image \notin Images
  BY <1>1, NoneInHand
<1>7. QED
  BY <1>1, <1>3, <1>5, <1>6, SnapsRest

\* The snapshot is made, which nobody else has.
LEMMA SnapMade ==
    ASSUME SnapInv, VmInv', UNCHANGED <<setting, imagerow>>, NEW w \in Threads, Moved(w),
           tick' = tick + 1, tick + 1 \in 1 .. MaxTick,
           request[w].pc \in {"create_snap", "snap_create"}, NEW i \in Images, request[w].image = i,
           request[w].op \in {"add_image", "release", "snap_update"},
           image_exists(pool, i), pool' = Protected(pool, i, tick + 1),
           NEW q, request'[w] = q, q.op = request[w].op, q.image = i,
           q.row.live = request[w].row.live, q.row.snap = tick + 1,
           q.pc = IF request[w].pc = "create_snap" THEN "insert" ELSE "save_all"
    PROVE  SnapInv'
<1>1. /\ TInv /\ PoolSound(pool, tick) /\ Formed(request[w]) /\ tick \in Nat /\ OfferSound(i)
      /\ tick <= tick' /\ tick' \in Nat /\ imagerow[i].snap <= tick /\ imagerow[i].snap \in Nat
  BY KnownOf
<1>2. SnapKnows(request[w], imagerow[i], pool[i], tick)
  BY ImageRequest
<1>3. /\ \A j \in Images \ {i} : pool'[j] = pool[j]
      /\ pool'[i].size = pool[i].size
      /\ pool'[i].protected = pool[i].protected \cup {tick + 1}
  BY <1>1, Names, ProtectedPool
<1>4. request[w].pc = "create_snap" <=> request[w].op # "snap_update"
  BY <1>1, OpsAt
<1>5. SnapKnows(q, imagerow[i], pool'[i], tick')
  BY <1>1, <1>2, <1>3 DEF RowLoaded, SnapKnows
<1>6. ASSUME NEW x \in Threads \ {w}, request[x].image = i
      PROVE  SnapKnows(request[x], imagerow'[i], pool'[i], tick')
             /\ SnapsDiffer(request[x], q) /\ SnapsDiffer(q, request[x])
  <2> DEFINE r == request[x]
  <2>1. r \in RequestState /\ SnapKnows(r, imagerow[i], pool[i], tick) /\ r.row.snap \in Nat
    BY <1>6, ImageRequest
  <2> HIDE DEF r
  <2>2. r.row.snap # q.row.snap
    BY <1>1, <2>1 DEF SnapKnows
  <2>3. pool[i].protected \subseteq pool'[i].protected
    BY <1>3
  <2>4. SnapKnows(r, imagerow[i], pool'[i], tick')
    BY <1>1, <2>1, <2>3, SnapKnown
  <2>5. QED
    BY <2>2, <2>4 DEF SnapsDiffer, r
<1>7. OfferSound(i)'
  <2>1. \A x \in Threads : /\ Deletes(request[x], i) => Deletes(request'[x], i)
                           /\ Updates(request[x], i) => Updates(request'[x], i)
    BY DEF Moved, Deletes, Updates
  <2>2. QED
    BY <1>1, <1>3, <2>1 DEF OfferSound, image_exists
<1>8. QED
  BY <1>1, <1>3, <1>5, <1>6, <1>7, SnapsMove

\* The snapshot is made and protected, or the request ends.
LEMMA CreateSnapSnaps ==
    ASSUME SnapInv, VmInv', UNCHANGED setting, NEW w \in Threads, CreateSnap(w)
    PROVE  SnapInv'
<1>1. TInv /\ Formed(request[w]) /\ request[w] \in RequestState
  BY KnownOf
<1>2. /\ Moved(w)
      /\ tick' = tick + 1 /\ tick' \in 1 .. MaxTick /\ UNCHANGED imagerow
      /\ request[w].pc \in {"create_snap", "snap_create"}
      /\ request[w].image \in Images
      /\ \/ /\ pool' = Protected(pool, request[w].image, tick + 1)
            /\ image_exists(pool, request[w].image)
            /\ request'[w] = [request[w] EXCEPT !.row.snap = tick + 1,
                                !.pc = IF request[w].pc = "create_snap" THEN "insert" ELSE "save_all"]
         \/ /\ pool' = pool /\ request'[w] = NoRequest
            /\ Breaks("create_snap") \/ ~image_exists(pool, request[w].image)
         \/ /\ pool' = Snapped(pool, request[w].image, tick + 1) /\ request'[w] = NoRequest
            /\ image_exists(pool, request[w].image) /\ Breaks("protect_snap")
  BY <1>1, CreateSnapTyped
<1>3. CASE /\ pool' = Protected(pool, request[w].image, tick + 1)
           /\ image_exists(pool, request[w].image)
           /\ request'[w] = [request[w] EXCEPT !.row.snap = tick + 1,
                               !.pc = IF request[w].pc = "create_snap" THEN "insert" ELSE "save_all"]
  <2> DEFINE i == request[w].image
             q == request'[w]
  <2>1. /\ q.op = request[w].op /\ q.image = i
        /\ q.row.live = request[w].row.live /\ q.row.snap = tick + 1
        /\ q.pc = IF request[w].pc = "create_snap" THEN "insert" ELSE "save_all"
    BY <1>1, <1>3 DEF RequestState, ImageRow
  <2>2. request[w].op \in {"add_image", "release", "snap_update"}
    BY <1>1, <1>2, OpsAt
  <2>3. i \in Images /\ request[w].image = i /\ request'[w] = q /\ tick + 1 \in 1 .. MaxTick
        /\ image_exists(pool, i) /\ pool' = Protected(pool, i, tick + 1)
    BY <1>2, <1>3
  <2> HIDE DEF i, q
  <2>4. QED
    BY <1>2, <2>1, <2>2, <2>3, SnapMade
<1>4. QED
  BY <1>2, <1>3, CreateSnapFails

\* The row of an image gets a snapshot that is protected.
LEMMA RowSaved ==
    ASSUME SnapInv, VmInv', UNCHANGED <<setting, pool, tick>>, NEW w \in Threads, Moved(w),
           request'[w] = NoRequest, NEW i \in Images, request[w].image = i, InHand(request[w]),
           \A j \in Images \ {i} : imagerow'[j] = imagerow[j],
           imagerow'[i].live, imagerow'[i].snap = request[w].row.snap,
           \A x \in Threads \ {w} : request[x].image = i
              => ~RowLoaded(request[x]) /\ (request[x].op # "release" \/ request[x].pc = "rel_exists")
    PROVE  SnapInv'
<1>1. /\ TInv /\ PoolSound(pool, tick) /\ Formed(request[w]) /\ tick \in Nat
      /\ tick <= tick'
  BY KnownOf
<1>2. SnapKnows(request[w], imagerow[i], pool[i], tick)
  BY ImageRequest
<1>3. imagerow'[i].snap \in pool[i].protected /\ imagerow'[i].snap <= tick'
  BY <1>2 DEF SnapKnows
<1>4. image_exists(pool, i)
  BY <1>1, <1>3, NothingProtected
<1>5. ASSUME NEW x \in Threads \ {w}, request[x].image = i
      PROVE  SnapKnows(request[x], imagerow'[i], pool'[i], tick')
  BY <1>5, ImageRequest DEF SnapsDiffer, SnapKnows
<1>6. OfferSound(i)'
  BY <1>3, <1>4 DEF OfferSound
<1>7. ~InHand(NoRequest) /\ NoRequest.pc # "snap_remove" /\ NoRequest.image \notin Images
  BY <1>1, NoneInHand
<1>8. \A x \in Threads \ {w} : SnapsDiffer(request[x], NoRequest) /\ SnapsDiffer(NoRequest, request[x])
  BY <1>7 DEF SnapsDiffer
<1>9. QED
  BY <1>1, <1>3, <1>5, <1>6, <1>7, <1>8, SnapsMove

\* The row of a new image.
LEMMA InsertSnaps ==
    ASSUME SnapInv, VmInv', UNCHANGED setting, NEW w \in Threads, InsertImage(w)
    PROVE  SnapInv'
<1>1. TInv /\ Formed(request[w]) /\ request[w].row \in ImageRow /\ tick <= tick
      /\ imagerow \in [Images -> ImageRow]
  BY KnownOf DEF RequestState
<1>2. /\ Moved(w) /\ request'[w] = NoRequest
      /\ request[w].pc = "insert" /\ request[w].image \in Images
      /\ UNCHANGED <<pool, tick>>
      /\ IF imagerow[request[w].image].live THEN imagerow' = imagerow
         ELSE imagerow' = [imagerow EXCEPT ![request[w].image] =
                              [request[w].row EXCEPT !.live = TRUE, !.enable = TRUE]]
  BY <1>1, InsertImageTyped
<1>3. request[w].op \in {"add_image", "release"} /\ InHand(request[w])
  BY <1>1, <1>2, OpsAt DEF InHand
<1>4. CASE imagerow[request[w].image].live
  BY <1>1, <1>2, <1>3, <1>4, NoneInHand, SnapsRest DEF Deletes, Updates
<1>5. CASE ~imagerow[request[w].image].live
  <2> DEFINE i == request[w].image
  <2>1. /\ \A j \in Images \ {i} : imagerow'[j] = imagerow[j]
        /\ imagerow'[i].live /\ imagerow'[i].snap = request[w].row.snap
    <3>1. /\ [request[w].row EXCEPT !.live = TRUE, !.enable = TRUE].live
          /\ [request[w].row EXCEPT !.live = TRUE, !.enable = TRUE].snap = request[w].row.snap
      BY <1>1 DEF ImageRow
    <3>2. imagerow' = [imagerow EXCEPT ![i] = [request[w].row EXCEPT !.live = TRUE, !.enable = TRUE]]
          /\ i \in Images
      BY <1>2, <1>5
    <3>3. QED
      BY <1>1, <3>1, <3>2
  <2>2. ASSUME NEW x \in Threads \ {w}, request[x].image = i
        PROVE  ~RowLoaded(request[x]) /\ request[x].op # "release"
    BY <1>2, <1>3, <1>5, <2>2, ImageRequest, OpsAt, CannotMeet DEF SnapKnows, NeedsRow, RowLoaded
  <2>3. i \in Images /\ request[w].image = i
    BY <1>2
  <2> HIDE DEF i
  <2>4. QED
    BY <1>2, <1>3, <2>1, <2>2, <2>3, RowSaved
<1>6. QED
  BY <1>4, <1>5

\* The snapshot that an update replaces is removed, or is not.
LEMMA RemoveOldSnaps ==
    ASSUME SnapInv, VmInv', UNCHANGED setting, NEW w \in Threads, RemoveOldSnap(w)
    PROVE  SnapInv'
<1>1. /\ TInv /\ Formed(request[w]) /\ request[w] \in RequestState /\ PoolSound(pool, tick)
      /\ tick <= tick
  BY KnownOf
<1> DEFINE q == request'[w]
<1>2. PICK i \in Images : request[w].image = i
  BY <1>1, RemoveOldSnapTyped
<1>3. /\ Moved(w) /\ q = [request[w] EXCEPT !.pc = "snap_create"]
      /\ request[w].pc = "snap_remove" /\ i \in Images
      /\ UNCHANGED <<imagerow, tick>>
      /\ \/ pool' = pool \/ pool' = Unsnapped(pool, i, request[w].row.snap)
         \/ pool' = Unheld(pool, i, request[w].row.snap)
  BY <1>1, <1>2, RemoveOldSnapTyped
<1>4. /\ q.op = request[w].op /\ q.image = i /\ q.row = request[w].row /\ q.pc = "snap_create"
      /\ request[w].op = "snap_update"
  BY <1>1, <1>2, <1>3, OpsAt DEF RequestState
<1>5. /\ \A j \in Images \ {i} : pool'[j] = pool[j]
      /\ pool'[i].size = pool[i].size
      /\ pool[i].protected \ {request[w].row.snap} \subseteq pool'[i].protected
  BY <1>1, <1>3, Names DEF PoolSound, Unsnapped, Unheld, RbdImage
<1> HIDE DEF q
<1>6. request[w].image = i /\ request'[w] = q
  BY <1>2 DEF q
<1>7. SnapKnows(request[w], imagerow[i], pool[i], tick)
  BY <1>3, <1>6, ImageRequest
<1>8. SnapKnows(q, imagerow[i], pool'[i], tick)
  BY <1>4, <1>7 DEF RowLoaded, InHand, SnapKnows
<1>9. ASSUME NEW x \in Threads \ {w}, request[x].image = i
      PROVE  /\ SnapKnows(request[x], imagerow[i], pool'[i], tick)
             /\ SnapsDiffer(request[x], q) /\ SnapsDiffer(q, request[x])
  BY <1>3, <1>4, <1>5, <1>6, <1>9, ImageRequest DEF SnapKnows, SnapsDiffer, InHand
<1>10. OfferSound(i)'
  <2>1. \A x \in Threads \ {w} : request'[x] = request[x]
    BY <1>3 DEF Moved
  <2>2. /\ ~Deletes(request[w], i) /\ Updates(request'[w], i)
    BY <1>4, <1>6 DEF Deletes, Updates
  <2>3. OfferSound(i)
    BY <1>3, KnownOf
  <2>4. ASSUME imagerow'[i].live
        PROVE  \/ \E x \in Threads : Deletes(request'[x], i)
               \/ image_exists(pool', i)
    BY <1>3, <1>5, <2>1, <2>2, <2>3, <2>4 DEF OfferSound, image_exists
  <2>5. QED
    BY <2>2, <2>4 DEF OfferSound
<1>11. imagerow'[i].snap <= tick' /\ tick <= tick'
  BY <1>1, <1>3, KnownOf
<1>12. /\ SnapKnows(request'[w], imagerow'[i], pool'[i], tick')
       /\ \A x \in Threads \ {w} : request[x].image = i
              => SnapKnows(request[x], imagerow'[i], pool'[i], tick')
                 /\ SnapsDiffer(request[x], request'[w]) /\ SnapsDiffer(request'[w], request[x])
  BY <1>3, <1>6, <1>8, <1>9
<1>13. \A j \in Images \ {i} : imagerow'[j] = imagerow[j] /\ pool'[j].size = pool[j].size
                                  /\ pool'[j].protected = pool[j].protected
  BY <1>3, <1>5
<1>14. i \in Images /\ Moved(w)
  BY <1>3
<1>15. QED
  BY <1>6, <1>10, <1>11, <1>12, <1>13, <1>14, <1>4, SnapsMove

\* The row is saved: with the new snapshot, or with the one that it has.
LEMMA SaveImageSnaps ==
    ASSUME SnapInv, VmInv', UNCHANGED setting, NEW w \in Threads, SaveImage(w)
    PROVE  SnapInv'
<1> DEFINE i == request[w].image
<1>1. TInv /\ Formed(request[w]) /\ tick <= tick /\ imagerow \in [Images -> ImageRow]
  BY KnownOf
<1>2. /\ Moved(w) /\ request'[w] = NoRequest
      /\ request[w].pc = "save_all" /\ i \in Images
      /\ imagerow' = [imagerow EXCEPT ![i] = request[w].row]
  BY <1>1, SaveImageTyped
<1>3. UNCHANGED <<pool, tick>>
  BY DEF SaveImage, OnlyImageRow, CephSame
<1>4. request[w].op \in {"snap_update", "enable_update"}
  BY <1>1, <1>2, OpsAt
<1>5. request[w].image = i
  OBVIOUS
<1> HIDE DEF i
<1>6. SnapKnows(request[w], imagerow[i], pool[i], tick)
  BY <1>2, <1>5, ImageRequest
<1>7. (\A j \in Images \ {i} : imagerow'[j] = imagerow[j]) /\ imagerow'[i] = request[w].row
  BY <1>1, <1>2
<1>8. CASE request[w].op = "snap_update"
  <2>1. InHand(request[w]) /\ imagerow'[i].live /\ imagerow'[i].snap = request[w].row.snap
        /\ imagerow[i].live
    BY <1>2, <1>6, <1>7, <1>8 DEF InHand, SnapKnows, NeedsRow
  <2>2. ASSUME NEW x \in Threads \ {w}, request[x].image = i
        PROVE  ~RowLoaded(request[x]) /\ (request[x].op # "release" \/ request[x].pc = "rel_exists")
    <3>1. SnapKnows(request[x], imagerow[i], pool[i], tick) /\ Formed(request[x])
      BY <1>2, <1>5, <2>2, ImageRequest
    <3>2. request[x].op # "enable_update"
      BY <1>2, <1>5, <1>8, <2>2, CannotMeet
    <3>3. request[x].op \notin {"create_image_vm", "unshelve_image_vm"}
      <4>1. ASSUME request[x].op \in {"create_image_vm", "unshelve_image_vm"} PROVE FALSE
        BY <1>2, <1>5, <1>8, <2>2, <4>1, KnownOf, AloneAtVm DEF VmOps, VmOnly
      <4>2. QED
        BY <4>1
    <3>4. request[x].pc \notin {"save_vm", "define_vm", "reset_vm"}
      BY <3>1, <3>3, OpsAt
    <3>5. request[x].op # "release" \/ request[x].pc = "rel_exists"
      BY <2>1, <3>1 DEF SnapKnows
    <3>6. QED
      BY <3>2, <3>4, <3>5 DEF RowLoaded
  <2>3. QED
    BY <1>2, <1>3, <1>5, <1>7, <2>1, <2>2, RowSaved
<1>9. CASE request[w].op = "enable_update"
  <2>1. \A j \in Images : imagerow'[j].live = imagerow[j].live /\ imagerow'[j].snap = imagerow[j].snap
    <3>1. imagerow'[i].live = imagerow[i].live /\ imagerow'[i].snap = imagerow[i].snap
      BY <1>6, <1>7, <1>9 DEF SnapKnows, RowLoaded, NeedsRow
    <3>2. QED
      BY <1>7, <3>1
  <2>2. ~InHand(NoRequest) /\ NoRequest.pc # "snap_remove" /\ NoRequest.image \notin Images
    BY <1>1, NoneInHand
  <2>3. \A j : ~Deletes(request[w], j) /\ ~Updates(request[w], j)
    BY <1>9 DEF Deletes, Updates
  <2>4. tick <= tick'
    BY <1>1, <1>3
  <2>5. QED
    BY <1>2, <1>3, <2>1, <2>2, <2>3, <2>4, SnapsRest
<1>10. QED
  BY <1>4, <1>8, <1>9

\* The base image is put aside.
LEMMA RenameBaseSnaps ==
    ASSUME SnapInv, VmInv', UNCHANGED setting, NEW w \in Threads, RenameBase(w)
    PROVE  SnapInv'
<1> DEFINE q == request'[w]
<1>1. /\ TInv /\ Formed(request[w]) /\ request[w] \in RequestState /\ PoolSound(pool, tick)
      /\ tick <= tick
  BY KnownOf
<1>2. PICK i \in Images : request[w].image = i
  BY <1>1, RenameBaseTyped
<1>3. /\ Moved(w) /\ request[w].pc = "rename_base" /\ UNCHANGED <<imagerow, tick>>
      /\ \/ /\ q = [request[w] EXCEPT !.pc = RemoveVm(request[w].row, "image_rowdel")]
            /\ pool' = pool \/ pool' = Renamed(pool, i, Aside(i))
         \/ q = NoRequest /\ pool' = pool
  BY <1>1, <1>2, RenameBaseTyped
<1>4. request[w].op = "delete_image" /\ SnapKnows(request[w], imagerow[i], pool[i], tick)
  BY <1>1, <1>2, <1>3, OpsAt, ImageRequest
<1>5. /\ Formed(q)
      /\ q # NoRequest => /\ q.op = "delete_image" /\ q.image = i /\ q.row = request[w].row
                          /\ q.pc # "rename_base"
      /\ q # NoRequest \/ pool' = pool
  <2>1. Formed(q)
    BY <1>3 DEF Moved
  <2>2. CASE q = NoRequest /\ pool' = pool
    BY <2>1, <2>2
  <2>3. CASE q = [request[w] EXCEPT !.pc = RemoveVm(request[w].row, "image_rowdel")]
    BY <1>1, <1>2, <1>4, <2>1, <2>3, NoneInHand DEF RequestState, RemoveVm
  <2>4. QED
    BY <1>3, <2>2, <2>3
<1>6. /\ ~InHand(q) /\ q.pc # "snap_remove"
      /\ \A img : q.image \in Images => SnapKnows(q, imagerow[q.image], img, tick)
  <2>1. CASE q = NoRequest
    BY <1>1, <2>1, NoneInHand
  <2>2. CASE q # NoRequest
    <3>1. q.row.snap <= tick /\ q.op \notin NeedsRow \cup {"add_image", "release"}
      BY <1>4, <1>5, <2>2 DEF SnapKnows, NeedsRow
    <3> HIDE DEF q
    <3>2. QED
      BY <1>5, <3>1, PlainKnows
  <2>3. QED
    BY <2>1, <2>2
<1>7. \A j : ~Deletes(request[w], j) /\ ~Updates(request[w], j)
  BY <1>3, <1>4 DEF Deletes, Updates
<1>8. request'[w] = q
  OBVIOUS
<1> HIDE DEF q
<1>9. tick <= tick' /\ imagerow'[i].snap <= tick'
  BY <1>1, <1>3, KnownOf
<1>10. CASE pool' = pool
  BY <1>3, <1>6, <1>7, <1>8, <1>9, <1>10, SnapsRest
<1>11. CASE q # NoRequest /\ pool' = Renamed(pool, i, Aside(i))
  <2>1. ASSUME NEW j \in Images \ {i}
        PROVE  pool'[j].size = pool[j].size /\ pool'[j].protected = pool[j].protected
    <3>1. i \in Keys /\ Aside(i) \in Keys /\ j \in Keys \ {i} /\ i # Aside(i) /\ j # Aside(i)
      BY Names
    <3>2. QED
      BY <1>1, <1>11, <3>1, RenamedPool
  <2>2. ASSUME NEW x \in Threads \ {w}, request[x].image = i
        PROVE  /\ SnapKnows(request[x], imagerow'[i], pool'[i], tick')
               /\ SnapsDiffer(request[x], q) /\ SnapsDiffer(q, request[x])
    BY <1>2, <1>3, <1>4, <1>6, <2>2, ImageRequest, CannotMeet, OpsAt DEF InHand, SnapKnows, SnapsDiffer
  <2>3. Deletes(request'[w], i)
    BY <1>5, <1>8, <1>11 DEF Deletes
  <2>4. OfferSound(i)'
    BY <2>3 DEF OfferSound
  <2>5. SnapKnows(request'[w], imagerow'[i], pool'[i], tick')
    BY <1>3, <1>5, <1>6, <1>8, <1>11
  <2>6. request'[w].image = i
    BY <1>5, <1>8, <1>11
  <2>7. QED
    BY <1>2, <1>3, <1>8, <1>9, <2>1, <2>2, <2>4, <2>5, <2>6, SnapsMove
<1>12. QED
  BY <1>3, <1>5, <1>10, <1>11

\* The row of an image is deleted.
LEMMA DeleteRowSnaps ==
    ASSUME SnapInv, VmInv', UNCHANGED setting, NEW w \in Threads, DeleteImageRow(w)
    PROVE  SnapInv'
<1>1. /\ TInv /\ Formed(request[w]) /\ tick <= tick /\ imagerow \in [Images -> ImageRow] /\ 0 <= tick
  BY KnownOf
<1>2. PICK i \in Images : request[w].image = i
  BY <1>1, DeleteImageRowTyped
<1>3. /\ Moved(w) /\ request'[w] = NoRequest /\ request[w].pc = "image_rowdel"
      /\ UNCHANGED <<pool, tick>>
      /\ imagerow' = [imagerow EXCEPT ![i] = NoImageRow]
  BY <1>1, <1>2, DeleteImageRowTyped
<1>4. request[w].op = "delete_image"
  BY <1>1, <1>3, OpsAt
<1>5. /\ \A j \in Images \ {i} : imagerow'[j] = imagerow[j]
      /\ ~imagerow'[i].live /\ imagerow'[i].snap = 0
  BY <1>1, <1>3 DEF NoImageRow
<1>6. ASSUME NEW x \in Threads \ {w}, request[x].image = i
      PROVE  SnapKnows(request[x], imagerow'[i], pool'[i], tick')
  <2>1. SnapKnows(request[x], imagerow[i], pool[i], tick) /\ Formed(request[x])
    BY <1>2, <1>6, ImageRequest
  <2>2. request[x].op \notin {"add_image", "release", "snap_update", "enable_update"}
    BY <1>2, <1>4, <1>6, CannotMeet
  <2>3. request[x].op \notin {"create_image_vm", "unshelve_image_vm"}
    <3>1. ASSUME request[x].op \in {"create_image_vm", "unshelve_image_vm"} PROVE FALSE
      BY <1>2, <1>4, <1>6, <3>1, KnownOf, AloneAtVm DEF VmOps, VmOnly
    <3>2. QED
      BY <3>1
  <2>4. request[x].op \notin NeedsRow \cup {"add_image", "release"}
    BY <2>2, <2>3 DEF NeedsRow
  <2>5. request[x].row.snap <= tick'
    BY <1>3, <2>1 DEF SnapKnows
  <2>6. QED
    BY <2>1, <2>4, <2>5, PlainKnows
<1>7. ~InHand(NoRequest) /\ NoRequest.pc # "snap_remove" /\ NoRequest.image \notin Images
  BY <1>1, NoneInHand
<1>8. \A x \in Threads \ {w} : SnapsDiffer(request[x], NoRequest) /\ SnapsDiffer(NoRequest, request[x])
  BY <1>7 DEF SnapsDiffer
<1>9. OfferSound(i)'
  BY <1>5 DEF OfferSound
<1>10. tick <= tick' /\ imagerow'[i].snap <= tick'
  BY <1>1, <1>3, <1>5
<1>11. QED
  BY <1>2, <1>3, <1>5, <1>6, <1>7, <1>8, <1>9, <1>10, SnapsMove

\* A request that takes the vm of an image away goes on, or ends; one that
\* deletes the image does not end before its row is gone.
LEMMA RemovalGoesOn ==
    ASSUME SnapInv, VmInv', UNCHANGED <<setting, pool, tick>>, NEW w \in Threads, Moved(w),
           request[w].op \in {"delete_image", "shelve_image_vm", "delete_image_vm", "delshelve_image_vm"},
           NEW i \in Images, request[w].image = i,
           \A j \in Images : imagerow'[j].live = imagerow[j].live /\ imagerow'[j].snap = imagerow[j].snap,
           NEW q, request'[w] = q,
           \/ q = NoRequest /\ request[w].op # "delete_image"
           \/ q.op = request[w].op /\ q.image = i /\ q.row = request[w].row /\ q.pc # "rename_base"
    PROVE  SnapInv'
<1>1. TInv /\ Formed(q) /\ tick <= tick'
  BY KnownOf DEF Moved
<1>2. /\ ~InHand(q) /\ q.pc # "snap_remove"
      /\ q.image \in Images => SnapKnows(q, imagerow[q.image], pool[q.image], tick)
  <2>1. CASE q = NoRequest
    BY <1>1, <2>1, NoneInHand
  <2>2. CASE q.op = request[w].op /\ q.image = i /\ q.row = request[w].row
    <3>1. q.row.snap <= tick
      BY <2>2, ImageRequest DEF SnapKnows
    <3>2. q.op \notin NeedsRow \cup {"add_image", "release"}
      BY <2>2 DEF NeedsRow
    <3>3. QED
      BY <1>1, <3>1, <3>2, PlainKnows
  <2>3. QED
    BY <2>1, <2>2
<1>3. \A j : ~Updates(request[w], j) /\ (Deletes(request[w], j) => Deletes(q, j))
  BY DEF Updates, Deletes
<1>4. QED
  BY <1>1, <1>2, <1>3, SnapsRest

\* A delete that comes to the vm of the image removes it.
LEMMA UndefineSnaps ==
    ASSUME SnapInv, VmInv', UNCHANGED setting, NEW w \in Threads, UndefineImageVm(w)
    PROVE  SnapInv'
<1>1. TInv /\ Formed(request[w]) /\ request[w] \in RequestState
  BY KnownOf
<1>2. PICK i \in Images : request[w].image = i
  BY <1>1, UndefineImageVmTyped
<1>3. /\ Moved(w) /\ request[w].pc = "undefine" /\ UNCHANGED <<imagerow, pool, tick>>
      /\ \/ /\ request'[w] = NoRequest
            /\ request[w].row.vm_host = NoOne \/ Breaks("undefine")
         \/ request'[w] = [request[w] EXCEPT !.pc = "vm_created_sub", !.host = request[w].row.vm_host]
  BY <1>1, UndefineImageVmTyped
<1>4. request[w].op \in {"delete_image", "shelve_image_vm", "delete_image_vm"}
  BY <1>1, <1>3, OpsAt
<1>5. ASSUME request[w].op = "delete_image", request[w].row.vm_host = NoOne \/ Breaks("undefine")
      PROVE  FALSE
  <2>1. /\ imagerow[i].vm_uuid # 0 /\ request[w].row.vm_host = imagerow[i].vm_host
        /\ imagerow[i].vm_host \in Hosts /\ (NoVms(setting) => NoPlace(imagerow[i]))
    BY <1>2, <1>3, KnownOf DEF VmInv, VmRows, VmKnows, SamePlace, PlaceSound
  <2>2. ~NoVms(setting) /\ Breaks("undefine")
    BY <1>5, <2>1, Names DEF NoPlace
  <2>3. "delete_image" \in setting.ops
    BY <1>5, <1>1, NoneInHand DEF SnapInv, VmInv, MInv
  <2>4. QED
    BY <2>2, <2>3 DEF SnapInv, SnapSetting, Breaks
<1> DEFINE q == request'[w]
<1>6. \/ q = NoRequest /\ request[w].op # "delete_image"
      \/ q.op = request[w].op /\ q.image = i /\ q.row = request[w].row /\ q.pc # "rename_base"
  BY <1>1, <1>2, <1>3, <1>5 DEF RequestState
<1>7. request'[w] = q
  OBVIOUS
<1> HIDE DEF q
<1>8. QED
  BY <1>2, <1>3, <1>4, <1>6, <1>7, RemovalGoesOn

\* The other steps of a removal.
LEMMA RemovalSnaps ==
    ASSUME SnapInv, VmInv', UNCHANGED setting, NEW w \in Threads,
           RemovedImageVm(w) \/ FreeImageVm(w) \/ ClearImageVm(w)
    PROVE  SnapInv'
<1>1. TInv /\ Formed(request[w]) /\ request[w] \in RequestState /\ imagerow \in [Images -> ImageRow]
  BY KnownOf
<1> DEFINE q == request'[w]
<1>2. CASE RemovedImageVm(w) \/ FreeImageVm(w)
  <2>1. /\ Moved(w) /\ request[w].pc \in {"vm_created_sub", "free"}
        /\ UNCHANGED <<imagerow, pool, tick>>
        /\ \/ q = [request[w] EXCEPT !.pc = "free"]
           \/ q = [request[w] EXCEPT !.pc = AfterRemoval(request[w].op)]
    BY <1>1, <1>2, RemovedImageVmTyped, FreeImageVmTyped
  <2>2. request[w].op \in {"delete_image", "shelve_image_vm", "delete_image_vm"}
        /\ request[w].image \in Images
    BY <1>1, <2>1, OpsAt, AboutAt DEF MachineOnly
  <2>3. PICK i \in Images : request[w].image = i
    BY <2>2
  <2>4. q.op = request[w].op /\ q.image = i /\ q.row = request[w].row /\ q.pc # "rename_base"
    BY <1>1, <2>1, <2>3 DEF RequestState, AfterRemoval
  <2>5. request'[w] = q
    OBVIOUS
  <2> HIDE DEF q
  <2>6. QED
    BY <2>1, <2>2, <2>3, <2>4, <2>5, RemovalGoesOn
<1>3. CASE ClearImageVm(w)
  <2>1. PICK i \in Images : request[w].image = i
    BY <1>1, <1>3, ClearImageVmTyped
  <2>2. /\ Moved(w) /\ request'[w] = NoRequest /\ request[w].pc = "clear" /\ OnlyImageRow
        /\ \A j \in Images \ {i} : imagerow'[j] = imagerow[j]
        /\ ~imagerow[i].live => imagerow'[i] = imagerow[i]
        /\ imagerow[i].live => imagerow'[i] =
              [imagerow[i] EXCEPT
                 !.vm_uuid = IF request[w].op = "delshelve_image_vm" THEN imagerow[i].vm_uuid ELSE 0,
                 !.vm_host = IF request[w].op = "shelve_image_vm" THEN imagerow[i].vm_host ELSE NoOne]
    BY <1>1, <1>3, <2>1, ClearImageVmTyped
  <2>3. imagerow'[i].live = imagerow[i].live /\ imagerow'[i].snap = imagerow[i].snap
    BY <1>1, <2>2 DEF ImageRow
  <2>4. \A j \in Images : imagerow'[j].live = imagerow[j].live /\ imagerow'[j].snap = imagerow[j].snap
    BY <2>2, <2>3
  <2>5. UNCHANGED <<pool, tick>>
    BY <2>2 DEF OnlyImageRow, CephSame
  <2>6. request[w].op \in {"shelve_image_vm", "delete_image_vm", "delshelve_image_vm"}
    BY <1>1, <2>2, OpsAt
  <2>7. QED
    BY <2>1, <2>2, <2>4, <2>5, <2>6, RemovalGoesOn
<1>4. QED
  BY <1>2, <1>3

\* A request that makes a vm for an image goes on.
LEMMA StartGoesOn ==
    ASSUME SnapInv, VmInv', UNCHANGED <<setting, pool, tick>>, NEW w \in Threads, Moved(w),
           request[w].op \in {"create_image_vm", "unshelve_image_vm"},
           NEW i \in Images, request[w].image = i,
           \A j \in Images : imagerow'[j].live = imagerow[j].live /\ imagerow'[j].snap = imagerow[j].snap,
           NEW q, request'[w] = q,
           \/ q = NoRequest
           \/ /\ q.op = request[w].op /\ q.image = i /\ q.row.snap <= tick
              /\ RowLoaded(q) => q.row.live /\ q.row.snap = imagerow[i].snap
    PROVE  SnapInv'
<1>1. TInv /\ Formed(q) /\ tick <= tick'
  BY KnownOf DEF Moved
<1>2. /\ ~InHand(q) /\ q.pc # "snap_remove"
      /\ q.image \in Images => SnapKnows(q, imagerow[q.image], pool[q.image], tick)
  <2>1. CASE q = NoRequest
    BY <1>1, <2>1, NoneInHand
  <2>2. CASE /\ q.op = request[w].op /\ q.image = i /\ q.row.snap <= tick
             /\ RowLoaded(q) => q.row.live /\ q.row.snap = imagerow[i].snap
    BY <1>1, <2>2, ImageRequest, OpsAt DEF SnapKnows, NeedsRow, InHand
  <2>3. QED
    BY <2>1, <2>2
<1>3. \A j : ~Updates(request[w], j) /\ ~Deletes(request[w], j)
  BY DEF Updates, Deletes
<1>4. QED
  BY <1>1, <1>2, <1>3, SnapsRest

\* What a request that makes a vm knows.
LEMMA StartAt ==
    ASSUME SnapInv, NEW w \in Threads,
           request[w].pc \in {"claim", "get_image", "save_vm", "define_vm", "reset_vm", "unclaim",
                              "vm_created_add"}
    PROVE  /\ request[w].op \in {"create_image_vm", "unshelve_image_vm"} /\ request[w].image \in Images
           /\ request[w].row.snap <= tick /\ imagerow[request[w].image].live
           /\ RowLoaded(request[w])
              => request[w].row.live /\ request[w].row.snap = imagerow[request[w].image].snap
<1>1. request[w].op \in {"create_image_vm", "unshelve_image_vm"} /\ Formed(request[w])
  BY KnownOf, OpsAt
<1>2. request[w].image \in Images
  BY <1>1, AboutAt DEF MachineOnly
<1>3. QED
  BY <1>1, <1>2, KnownOf DEF SnapKnows, NeedsRow

\* The steps that leave the row as it is.
LEMMA StartSnaps ==
    ASSUME SnapInv, VmInv', UNCHANGED setting, NEW w \in Threads,
           ClaimForImage(w) \/ DefineImageVm(w) \/ UnclaimForImage(w) \/ CreatedImageVm(w)
    PROVE  SnapInv'
<1>1. TInv /\ request[w] \in RequestState
  BY KnownOf
<1> DEFINE q == request'[w]
<1>2. /\ Moved(w) /\ request[w].pc \in {"claim", "define_vm", "unclaim", "vm_created_add"}
      /\ UNCHANGED <<imagerow, pool, tick>>
      /\ \/ q = NoRequest
         \/ q = [request[w] EXCEPT !.pc = "get_image"]
         \/ q = [request[w] EXCEPT !.pc = "vm_created_add"]
         \/ request[w].pc = "define_vm" /\ q = [request[w] EXCEPT !.pc = "reset_vm"]
  BY <1>1, ClaimForImageTyped, DefineImageVmTyped, UnclaimForImageTyped, CreatedImageVmTyped
<1>3. /\ request[w].op \in {"create_image_vm", "unshelve_image_vm"} /\ request[w].image \in Images
      /\ request[w].row.snap <= tick
      /\ RowLoaded(request[w])
         => request[w].row.live /\ request[w].row.snap = imagerow[request[w].image].snap
  BY <1>2, StartAt
<1>4. PICK i \in Images : request[w].image = i
  BY <1>3
<1>5. \/ q = NoRequest
      \/ /\ q.op = request[w].op /\ q.image = i /\ q.row = request[w].row
         /\ q.pc \in {"get_image", "vm_created_add"} \/ (q.pc = "reset_vm" /\ request[w].pc = "define_vm")
  BY <1>1, <1>2, <1>4 DEF RequestState
<1>6. request'[w] = q
  OBVIOUS
<1> HIDE DEF q
<1>7. ASSUME q # NoRequest, RowLoaded(q)
      PROVE  q.row.live /\ q.row.snap = imagerow[i].snap
  BY <1>3, <1>4, <1>5, <1>7 DEF RowLoaded
<1>8. \/ q = NoRequest
      \/ /\ q.op = request[w].op /\ q.image = i /\ q.row.snap <= tick
         /\ RowLoaded(q) => q.row.live /\ q.row.snap = imagerow[i].snap
  BY <1>3, <1>5, <1>7
<1>9. QED
  BY <1>2, <1>3, <1>4, <1>6, <1>8, StartGoesOn

\* The row is loaded, gets its vm, and is saved without it.
LEMMA StartRowSnaps ==
    ASSUME SnapInv, VmInv', UNCHANGED setting, NEW w \in Threads,
           GetImage(w) \/ SaveImageVm(w) \/ ResetImageVm(w)
    PROVE  SnapInv'
<1>1. TInv /\ request[w] \in RequestState /\ imagerow \in [Images -> ImageRow]
      /\ \A j \in Images : imagerow[j].snap <= tick
  BY KnownOf
<1>2. request[w].pc \in {"get_image", "save_vm", "reset_vm"} /\ Moved(w)
  BY <1>1, GetImageTyped, SaveImageVmTyped, ResetImageVmTyped
<1>3. /\ request[w].op \in {"create_image_vm", "unshelve_image_vm"} /\ request[w].image \in Images
      /\ request[w].row.snap <= tick /\ imagerow[request[w].image].live
      /\ RowLoaded(request[w])
         => request[w].row.live /\ request[w].row.snap = imagerow[request[w].image].snap
  BY <1>2, StartAt
<1>4. PICK i \in Images : request[w].image = i
  BY <1>3
<1> DEFINE q == request'[w]
           goal == /\ UNCHANGED <<pool, tick>>
                   /\ \A j \in Images : /\ imagerow'[j].live = imagerow[j].live
                                        /\ imagerow'[j].snap = imagerow[j].snap
                   /\ q.op = request[w].op /\ q.image = i /\ q.row.snap <= tick
                   /\ RowLoaded(q) => q.row.live /\ q.row.snap = imagerow[i].snap
<1>5. ASSUME GetImage(w)
      PROVE  goal
  BY <1>1, <1>3, <1>4, <1>5, GetImageTyped DEF RequestState, OnlyRequest, OnlyCeph, ImageRowsSame, CephSame
<1>6. ASSUME SaveImageVm(w)
      PROVE  goal
  <2>1. /\ UNCHANGED <<pool, tick>> /\ request[w].pc = "save_vm" /\ request[w].host \in Hosts
        /\ last_uuid' = last_uuid + 1 /\ last_uuid' \in 1 .. MaxUuid
        /\ imagerow' = [imagerow EXCEPT ![i].vm_uuid = last_uuid + 1, ![i].vm_host = request[w].host]
        /\ q = [request[w] EXCEPT !.row.vm_uuid = last_uuid + 1, !.pc = "define_vm"]
    BY <1>1, <1>3, <1>4, <1>6, SaveImageVmTyped
  <2>2. /\ q.op = request[w].op /\ q.image = i
        /\ q.row.snap = request[w].row.snap /\ q.row.live = request[w].row.live
    BY <1>1, <1>4, <2>1 DEF RequestState, ImageRow
  <2>3. \A j \in Images : imagerow'[j].live = imagerow[j].live /\ imagerow'[j].snap = imagerow[j].snap
    BY <1>1, <2>1 DEF ImageRow
  <2>4. RowLoaded(request[w])
    BY <2>1 DEF RowLoaded
  <2>5. QED
    BY <1>3, <1>4, <2>1, <2>2, <2>3, <2>4
<1>7. ASSUME ResetImageVm(w)
      PROVE  goal
  <2>1. /\ q = [request[w] EXCEPT !.pc = "unclaim"] /\ request[w].pc = "reset_vm" /\ OnlyImageRow
        /\ imagerow' = [imagerow EXCEPT ![i] = [request[w].row EXCEPT !.vm_uuid = 0, !.vm_host = NoOne]]
    BY <1>1, <1>4, <1>7, ResetImageVmTyped
  <2>2. q.op = request[w].op /\ q.image = i /\ q.row = request[w].row /\ q.pc = "unclaim"
    BY <1>1, <1>4, <2>1 DEF RequestState
  <2>3. request[w].row.live /\ request[w].row.snap = imagerow[i].snap /\ imagerow[i].live
    BY <1>3, <1>4, <2>1 DEF RowLoaded
  <2>4. /\ [request[w].row EXCEPT !.vm_uuid = 0, !.vm_host = NoOne].live = request[w].row.live
        /\ [request[w].row EXCEPT !.vm_uuid = 0, !.vm_host = NoOne].snap = request[w].row.snap
    BY <1>1 DEF RequestState, ImageRow
  <2>5. imagerow[i].live = TRUE /\ request[w].row.live = TRUE
    BY <1>1, <2>3 DEF ImageRow, RequestState
  <2>6. \A j \in Images : imagerow'[j].live = imagerow[j].live /\ imagerow'[j].snap = imagerow[j].snap
    BY <1>1, <2>1, <2>3, <2>4, <2>5
  <2>7. ~RowLoaded(q)
    BY <1>3, <2>2 DEF RowLoaded
  <2>8. UNCHANGED <<pool, tick>>
    BY <2>1 DEF OnlyImageRow, CephSame
  <2>9. QED
    BY <1>3, <2>2, <2>6, <2>7, <2>8
<1>8. goal
  BY <1>5, <1>6, <1>7
<1>9. request'[w] = q
  OBVIOUS
<1>10. /\ UNCHANGED <<pool, tick>>
       /\ \A j \in Images : imagerow'[j].live = imagerow[j].live /\ imagerow'[j].snap = imagerow[j].snap
       /\ q.op = request[w].op /\ q.image = i /\ q.row.snap <= tick
       /\ RowLoaded(q) => q.row.live /\ q.row.snap = imagerow[i].snap
  BY <1>8
<1> HIDE DEF q
<1>11. QED
  BY <1>2, <1>3, <1>4, <1>9, <1>10, StartGoesOn

\* A request about an image arrives.
LEMMA ReceivedSnaps ==
    ASSUME SnapInv, VmInv', UNCHANGED <<setting, imagerow, pool, tick>>, NEW w \in Threads, Moved(w),
           request[w].op = "none", NEW i \in Images, NEW q, request'[w] = q, q.image = i,
           SnapKnows(q, imagerow[i], pool[i], tick), ~InHand(q),
           q.pc = "snap_remove" => q.op = "snap_update" /\ q.row.snap = imagerow[i].snap
    PROVE  SnapInv'
<1>1. \A j : ~Deletes(request[w], j) /\ ~Updates(request[w], j)
  BY DEF Deletes, Updates
<1>2. ASSUME NEW x \in Threads \ {w}, request[x].image = i
      PROVE  SnapsDiffer(request[x], q) /\ SnapsDiffer(q, request[x])
  BY <1>2, KnownOf DEF SnapsDiffer, SnapKnows
<1>3. tick <= tick'
  BY KnownOf
<1>4. QED
  BY <1>1, <1>2, <1>3, SnapsStay

\* A request to add, to give a new snapshot, or to delete an image, or to end its vm.
LEMMA LoadedSnaps ==
    ASSUME SnapInv, VmInv', UNCHANGED setting, NEW w \in Threads, NEW i \in Images,
           \/ AddImage(w, i) \/ SnapUpdate(w, i) \/ DeleteImage(w, i)
           \/ \E op \in ImageOps : EndImageVm(w, op, i)
    PROVE  SnapInv'
<1>1. /\ TInv /\ i # NoOne
      /\ imagerow[i].snap <= tick
  BY KnownOf, Names
<1>2. Moved(w) /\ UNCHANGED <<imagerow, pool, tick>> /\ request[w].pc = "idle"
  <2>1. ASSUME NEW op, EndImageVm(w, op, i)
        PROVE  Moved(w)
    BY <1>1, <2>1, EndImageVmTyped
  <2>2. Moved(w)
    BY <1>1, <2>1, AddImageTyped, SnapUpdateTyped, DeleteImageTyped
  <2>3. QED
    BY <2>2 DEF AddImage, SnapUpdate, DeleteImage, EndImageVm, OnlyRequest, OnlyCeph, ImageRowsSame, CephSame,
               Arrives, InStep
<1>3. request[w].op = "none"
  BY <1>2, KnownOf, IdleRequest, NoneInHand
<1> DEFINE q == request'[w]
<1>4. q = q /\ q.row = imagerow[i] /\ q.image = i
      /\ \/ q.op = "add_image" /\ q.pc = "create_image"
         \/ q.op = "snap_update" /\ q.pc = "snap_remove" /\ imagerow[i].live
         \/ q.op \notin NeedsRow \cup {"add_image", "release"}
  <2>1. CASE AddImage(w, i)
    BY <1>1, <2>1, ReceivedIs DEF AddImage
  <2>2. CASE SnapUpdate(w, i)
    BY <1>1, <2>2, ReceivedIs DEF SnapUpdate
  <2>3. CASE DeleteImage(w, i)
    BY <1>1, <2>3, ReceivedIs DEF DeleteImage, NeedsRow
  <2>4. ASSUME NEW op \in ImageOps, EndImageVm(w, op, i)
        PROVE  q.row = imagerow[i] /\ q.image = i /\ q.op \notin NeedsRow \cup {"add_image", "release"}
    <3> DEFINE pc == IF op = "delshelve_image_vm" THEN "clear" ELSE "undefine"
    <3>1. Receive(w, op, i, NoOne, pc) /\ op \in {"shelve_image_vm", "delete_image_vm", "delshelve_image_vm"}
      BY <2>4 DEF EndImageVm
    <3> HIDE DEF pc
    <3>2. QED
      BY <1>1, <3>1, ReceivedIs DEF NeedsRow
  <2>5. QED
    BY <2>1, <2>2, <2>3, <2>4
<1>5. Formed(q)
  BY <1>2 DEF Moved
<1>6. request'[w] = q
  OBVIOUS
<1> HIDE DEF q
<1>7. /\ SnapKnows(q, imagerow[i], pool[i], tick) /\ ~InHand(q)
      /\ q.pc = "snap_remove" => q.op = "snap_update" /\ q.row.snap = imagerow[i].snap
  BY <1>1, <1>4, <1>5, PlainKnows DEF SnapKnows, InHand, RowLoaded, NeedsRow
<1>8. QED
  BY <1>2, <1>3, <1>4, <1>6, <1>7, ReceivedSnaps

\* A request to switch an image on or off.
LEMMA EnableUpdateSnaps ==
    ASSUME SnapInv, VmInv', UNCHANGED setting, NEW w \in Threads, NEW i \in Images, EnableUpdate(w, i)
    PROVE  SnapInv'
<1>1. TInv /\ imagerow[i].snap <= tick /\ imagerow[i] \in ImageRow
  BY KnownOf
<1>2. /\ Moved(w)
      /\ request'[w] = [NoRequest EXCEPT !.op = "enable_update", !.image = i, !.pc = "save_all",
                                         !.row = [imagerow[i] EXCEPT !.enable = ~imagerow[i].enable]]
  BY <1>1, EnableUpdateTyped
<1>3. UNCHANGED <<imagerow, pool, tick>> /\ request[w].pc = "idle" /\ imagerow[i].live
  BY DEF EnableUpdate, OnlyRequest, OnlyCeph, ImageRowsSame, CephSame, Arrives, InStep
<1>4. request[w].op = "none"
  BY <1>3, KnownOf, IdleRequest, NoneInHand
<1> DEFINE q == request'[w]
<1>5. /\ q.op = "enable_update" /\ q.image = i /\ q.pc = "save_all"
      /\ q.row = [imagerow[i] EXCEPT !.enable = ~imagerow[i].enable]
  BY <1>2 DEF NoRequest
<1>6. request'[w] = q
  OBVIOUS
<1> HIDE DEF q
<1>7. q.row.live /\ q.row.snap = imagerow[i].snap
  BY <1>1, <1>3, <1>5 DEF ImageRow
<1>8. SnapKnows(q, imagerow[i], pool[i], tick) /\ ~InHand(q) /\ q.pc # "snap_remove"
  BY <1>1, <1>3, <1>5, <1>7 DEF SnapKnows, InHand
<1>9. QED
  BY <1>2, <1>3, <1>4, <1>5, <1>6, <1>8, ReceivedSnaps

\* A request to make the vm of an image, or power.
LEMMA StartArrivesSnaps ==
    ASSUME SnapInv, VmInv', UNCHANGED setting, NEW w \in Threads, NEW i \in Images,
           ImageVmPower(w, i) \/ \E op \in ImageOps, h \in Hosts : StartImageVm(w, op, i, h)
    PROVE  SnapInv'
<1>1. CASE ImageVmPower(w, i)
  BY <1>1, SnapsUnmoved DEF ImageVmPower, ImageRowsSame, CephSame
<1>2. ASSUME NEW op \in ImageOps, NEW h \in Hosts, StartImageVm(w, op, i, h)
      PROVE  SnapInv'
  <2>1. /\ Moved(w)
        /\ request' = [request EXCEPT ![w] =
                         [NoRequest EXCEPT !.op = op, !.image = i, !.host = h, !.pc = "claim"]]
    BY <1>2, KnownOf, StartImageVmTyped DEF StartImageVm
  <2>2. /\ UNCHANGED <<imagerow, pool, tick>> /\ request[w].pc = "idle" /\ imagerow[i].live
        /\ op \in {"create_image_vm", "unshelve_image_vm"}
    BY <1>2 DEF StartImageVm, OnlyRequest, OnlyCeph, ImageRowsSame, CephSame, Arrives, InStep
  <2>3. request[w].op = "none" /\ NoRequest.row.snap = 0 /\ 0 <= tick
    BY <2>2, KnownOf, IdleRequest, NoneInHand
  <2> DEFINE q == request'[w]
  <2>4. q.op = op /\ q.image = i /\ q.pc = "claim" /\ q.row = NoRequest.row
    BY <2>1, KnownOf DEF TInv, NoRequest
  <2>5. request'[w] = q
    OBVIOUS
  <2> HIDE DEF q
  <2>6. SnapKnows(q, imagerow[i], pool[i], tick) /\ ~InHand(q) /\ q.pc # "snap_remove"
    BY <2>2, <2>3, <2>4 DEF SnapKnows, InHand, RowLoaded
  <2>7. QED
    BY <2>1, <2>2, <2>3, <2>4, <2>5, <2>6, ReceivedSnaps
<1>3. QED
  BY <1>1, <1>2

\* Every step of a request about an image keeps it.
LEMMA ImageSnaps ==
    ASSUME SnapInv, VmInv', UNCHANGED setting, NEW w \in Threads, ImageStep(w)
    PROVE  SnapInv'
<1>1. CASE CreateBaseImage(w) \/ CreateSnap(w) \/ InsertImage(w)
  BY <1>1, CreateBaseSnaps, CreateSnapSnaps, InsertSnaps
<1>2. CASE RemoveOldSnap(w) \/ SaveImage(w)
  BY <1>2, RemoveOldSnaps, SaveImageSnaps
<1>3. CASE RenameBase(w) \/ DeleteImageRow(w)
  BY <1>3, RenameBaseSnaps, DeleteRowSnaps
<1>4. CASE UndefineImageVm(w) \/ RemovedImageVm(w) \/ FreeImageVm(w) \/ ClearImageVm(w)
  BY <1>4, UndefineSnaps, RemovalSnaps
<1>5. CASE ClaimForImage(w) \/ DefineImageVm(w) \/ UnclaimForImage(w) \/ CreatedImageVm(w)
  BY <1>5, StartSnaps
<1>6. CASE GetImage(w) \/ SaveImageVm(w) \/ ResetImageVm(w)
  BY <1>6, StartRowSnaps
<1>7. ASSUME NEW i \in Images,
             \/ AddImage(w, i) \/ SnapUpdate(w, i) \/ DeleteImage(w, i)
             \/ \E op \in ImageOps : EndImageVm(w, op, i)
      PROVE  SnapInv'
  BY <1>7, LoadedSnaps
<1>8. ASSUME NEW i \in Images, EnableUpdate(w, i)
      PROVE  SnapInv'
  BY <1>8, EnableUpdateSnaps
<1>9. ASSUME NEW i \in Images,
             ImageVmPower(w, i) \/ \E op \in ImageOps, h \in Hosts : StartImageVm(w, op, i, h)
      PROVE  SnapInv'
  BY <1>9, StartArrivesSnaps
<1>10. QED
  BY <1>1, <1>2, <1>3, <1>4, <1>5, <1>6, <1>7, <1>8, <1>9 DEF ImageStep

\* So does every step of a request about a machine.
LEMMA MachineStepSnaps ==
    ASSUME SnapInv, VmInv', UNCHANGED setting, NEW w \in Threads, MachineStep(w)
    PROVE  SnapInv'
<1>1. CASE MachineGoesOn(w)
  BY <1>1, MachineSnaps
<1>2. CASE ReleaseGoesOn(w)
  BY <1>2, ReleaseSnaps
<1>3. ASSUME NEW v \in Machines,
             \/ CreateSysSnap(w, v)
             \/ \E size \in 1 .. MaxSize :
                  \/ ExpandSysDisk(w, v, size)
                  \/ \E i \in Images : CreateMachine(w, v, i, size)
             \/ \E i \in Images : ChangeSysDisk(w, v, i)
             \/ \E op \in ImageOps, s \in 1 .. MaxTick : AboutSysSnap(w, op, v, s)
      PROVE  SnapInv'
  BY <1>3, MachineArrivesSnaps
<1>4. ASSUME NEW v \in Machines, MachinePower(w, v) \/ \E i \in Images : ReleaseImage(w, v, i)
      PROVE  SnapInv'
  BY <1>4, ReleaseArrivesSnaps
<1>5. ASSUME NEW v \in Machines,
             \/ MachinePower(w, v) \/ CreateSysSnap(w, v)
             \/ \E size \in 1 .. MaxSize :
                  \/ ExpandSysDisk(w, v, size)
                  \/ \E i \in Images : CreateMachine(w, v, i, size)
             \/ \E i \in Images : ChangeSysDisk(w, v, i) \/ ReleaseImage(w, v, i)
             \/ \E op \in ImageOps, s \in 1 .. MaxTick : AboutSysSnap(w, op, v, s)
      PROVE  SnapInv'
  BY <1>3, <1>4, <1>5
<1>6. QED
  BY <1>1, <1>2, <1>5 DEF MachineStep, MachineGoesOn, ReleaseGoesOn

\* So does every step of the system, and none.
LEMMA StepSnaps ==
    ASSUME SnapInv, [ImagesNext]_imageVars
    PROVE  SnapInv'
<1>1. VmInv
  BY KnownOf DEF SnapInv
<1>2. CASE ImagesNext
  <2>1. VmInv' /\ UNCHANGED setting
    BY <1>1, <1>2, StepVms DEF VmKept
  <2>2. PICK w \in Threads : ImageStep(w) \/ MachineStep(w)
    BY <1>2 DEF ImagesNext
  <2>3. QED
    BY <2>1, <2>2, ImageSnaps, MachineStepSnaps
<1>3. CASE UNCHANGED imageVars
  BY <1>1, <1>3, StutterVms, SnapsUnmoved DEF VmKept, imageVars
<1>4. QED
  BY <1>2, <1>3

\* At the start each image in the list has its snapshot, or there is none.
LEMMA InitSnaps ==
    ASSUME ImagesInit, VmSetting(setting), SnapSetting(setting)
    PROVE  SnapInv
<1>1. VmInv
  BY InitVms
<1>2. TInv /\ (\A w \in Threads : request[w] = NoRequest)
  BY <1>1 DEF ImagesInit, VmInv, MInv
<1>3. NoRequest.image \notin Images
  BY <1>2, NoneInHand
<1> DEFINE first == CHOOSE i \in Images : TRUE
           made == CHOOSE v \in Machines : TRUE
<1>4. /\ tick = 1
      /\ imagerow = [j \in Images |->
                        IF j = first THEN [NoImageRow EXCEPT !.live = TRUE, !.enable = TRUE, !.snap = 1]
                        ELSE NoImageRow]
      /\ pool = [EmptyPool EXCEPT
                   ![first] = [NoImage EXCEPT !.size = 1, !.snaps[1] = 1, !.protected = {1}],
                   ![made] = [NoImage EXCEPT !.size = 1, !.parent = <<first, 1>>]]
  BY DEF ImagesInit
<1>5. made \in Machines
  BY ImageAssumption
<1> HIDE DEF first, made
<1>6. ASSUME NEW i \in Images
      PROVE  imagerow[i].snap <= 1 /\ (imagerow[i].live => i = first)
             /\ (i = first => imagerow[i].snap = 1)
  BY <1>4 DEF NoImageRow
<1>7. ASSUME first \in Images
      PROVE  pool[first].size = 1 /\ pool[first].protected = {1}
  BY <1>4, <1>5, <1>7, Names DEF EmptyPool, NoImage
<1>8. ASSUME NEW i \in Images
      PROVE  OfferSound(i)
  BY <1>6, <1>7 DEF OfferSound, image_exists
<1>9. \A w \in Threads : request[w].image \notin Images
  BY <1>2, <1>3
<1>10. SnapRows
  BY <1>4, <1>6, <1>8, <1>9 DEF SnapRows
<1>11. QED
  BY <1>1, <1>10 DEF SnapInv

\* What is known of snapshots is what has to hold of them.
LEMMA SnapsHeld ==
    ASSUME SnapInv
    PROVE  SnapOfImage
<1>1. ASSUME NEW i \in Images, imagerow[i].live, ~ImageBusy({"snap_update", "delete_image"}, i)
      PROVE  HasSnap(pool, i, imagerow[i].snap) /\ imagerow[i].snap \in pool[i].protected
  <2>1. \A w \in Threads : ~Deletes(request[w], i) /\ ~Updates(request[w], i)
    BY <1>1 DEF ImageBusy, RequestsOn, Deletes, Updates
  <2>2. imagerow[i].snap \in pool[i].protected
    BY <1>1, <2>1 DEF SnapInv, SnapRows, OfferSound
  <2>3. PoolSound(pool, tick)
    BY DEF SnapInv, VmInv, MInv, TInv
  <2>4. QED
    BY <2>2, <2>3, NothingProtected
<1>2. QED
  BY <1>1 DEF SnapOfImage, SnapInPlace

\* Each image in the list names a snapshot of its base image that is there and
\* protected, so that a disk can be cloned from it, unless a request is about to
\* give it another or to delete it; for every number of images, machines and
\* threads and whatever calls of ceph fail, as long as the requests that write
\* the snapshot do not meet each other, those that save the whole row, or the
\* deletion (user_flatten_image checks that the image is not in the list and then
\* makes it), and a call whose failure leaves the row and ceph apart does not fail.
THEOREM SnapsOfImages ==
    ASSUME \A s \in Settings : VmSetting(s) /\ SnapSetting(s)
    PROVE  ImagesSpec => []SnapOfImage
<1>1. ImagesInit => SnapInv
  BY InitSnaps DEF ImagesInit
<1>2. SnapInv /\ [ImagesNext]_imageVars => SnapInv'
  BY StepSnaps
<1>3. SnapInv => SnapOfImage
  BY SnapsHeld
<1>4. QED
  BY <1>1, <1>2, <1>3, PTL DEF ImagesSpec
=============================================================================
