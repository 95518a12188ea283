----------------------------- MODULE DiskProofs -----------------------------
(***************************************************************************)
(* Proofs about the disks of the machines of SystemImages: that a machine  *)
(* has the disk that its row names, and that the rows of the snapshots of  *)
(* disks name snapshots which are there, wherever requests are apart that  *)
(* change one disk or publish one image.                                   *)
(***************************************************************************)
EXTENDS ImageProofs

(* The disks of machines: that they are there, of the size and with the    *)
(* parent that the row of the machine says, and the disk that was put      *)
(* aside while a change of the system may still need it.                   *)

\* Requests that change which disk a machine has, or its size.
Changers == {"create_machine", "change_sys_disk", "rollback", "sys_disk_expand"}

\* No two of them are about one machine at a time, nor is a snapshot taken of a
\* disk whose system changes; and what undoes a change of system does not fail.
DiskSetting(s) ==
    /\ Apart(s, Changers \ {"create_machine"}, Changers)
    /\ Apart(s, {"change_sys_disk"}, {"create_sys_snap", "release"})
    /\ "change_sys_disk" \in s.ops => {"remove_image", "rename_image"} \cap s.failing = {}

\* What the parent of a clone of snapshot s of image i may be: nothing when the
\* image that was put aside is lost for another.
Clones(i, s) == {NoParent, <<i, s>>, <<Aside(i), s>>}

CloneOf(img, i, s) == i \in Images /\ img.size > 0 /\ img.parent \in Clones(i, s)

Whole(row, img, old) ==
    CloneOf(img, row.image_parent, row.image_snap) /\ (img.size = row.sys_disk_size \/ old)

Bare(img) == \A s \in 1 .. MaxTick : ~(img.snaps[s] > 0)

\* What a request knows of the row, the disk, and the disk put aside, of its machine.
DiskKnows(q, row, img, aside, old) ==
    /\ q.pc \in {"clone_disk", "resize_new", "save_machine", "remove_disk"} => ~row.live
    /\ q.pc \in {"resize_new", "save_machine", "define_new", "save_new"}
       => CloneOf(img, q.image, q.row.snap)
    /\ q.pc = "save_machine" => img.size = q.size
    /\ q.pc \in {"define_machine", "rename_disk", "resize", "rollback"} => row.live /\ Whole(row, img, old)
    /\ q.pc \in {"clone_new", "define_new", "save_new", "remove_new", "rename_back"}
       => row.live /\ Whole(row, aside, old)
    /\ q.pc \in {"clone_new", "rename_back"} => img.size = 0
    /\ q.pc \in {"define_new", "save_new", "remove_new"} => Bare(img)
    /\ q.pc \in {"remount", "size_read", "size_save"}
       => row.live /\ CloneOf(img, row.image_parent, row.image_snap)
    /\ q.pc = "size_save" => q.size = img.size

Changes(q, v) == q.machine = v /\ q.op \in Changers

Disks ==
    /\ \A w, x \in Threads, v \in Machines :
          Changes(request[w], v) /\ Changes(request[x], v) => w = x
    /\ \A w \in Threads, v \in Machines :
          Changes(request[w], v)
          => DiskKnows(request[w], machine[v], pool[v], pool[Aside(v)], SizeMayBeOld)
    /\ \A v \in Machines :
          machine[v].live /\ (\A w \in Threads : ~Changes(request[w], v))
          => Whole(machine[v], pool[v], SizeMayBeOld)

DiskInv == MInv /\ DiskSetting(setting) /\ Disks

\* Whether a row may keep an older size is a matter of the setting.
LEMMA OldStays ==
    ASSUME UNCHANGED setting
    PROVE  SizeMayBeOld' = SizeMayBeOld
  BY DEF SizeMayBeOld

\* A clone of an image is one of that image still, whatever is renamed.
Follows(parent, new) == \A i \in Images : \A s : parent \in Clones(i, s) => new \in Clones(i, s)

Like(img, new) == new.size = img.size /\ Follows(img.parent, new.parent)

\* A rename of an image or of a disk, or back.
LEMMA RenameFollows ==
    ASSUME NEW parent, NEW n, NEW m,
           \/ n \in Images \cup Machines /\ m = Aside(n)
           \/ m \in Machines /\ n = Aside(m)
    PROVE  Follows(parent, Reparent(parent, n, m))
<1> SUFFICES ASSUME NEW i \in Images, NEW s, parent \in Clones(i, s)
             PROVE  Reparent(parent, n, m) \in Clones(i, s)
  BY DEF Follows
<1>1. /\ \A k \in Images \cup Machines : Aside(k) \notin Images \cup Machines
      /\ \A k, l : Aside(k) = Aside(l) <=> k = l
      /\ i \notin Machines
  BY Names, AsideNames
<1>2. CASE parent = NoParent
  BY <1>2 DEF Reparent, Clones
<1>3. CASE parent = <<i, s>>
  BY <1>1, <1>3 DEF NoParent, Reparent, Clones
<1>4. CASE parent = <<Aside(i), s>>
  BY <1>1, <1>4 DEF NoParent, Reparent, Clones
<1>5. QED
  BY <1>2, <1>3, <1>4 DEF Clones

\* A disk that is like another is a clone of what that one is a clone of.
LEMMA LikeClone ==
    ASSUME NEW img, NEW new, Like(img, new)
    PROVE  /\ \A i, s : CloneOf(img, i, s) => CloneOf(new, i, s)
           /\ \A row : Whole(row, img, SizeMayBeOld) => Whole(row, new, SizeMayBeOld)
  BY DEF Like, Follows, CloneOf, Whole

\* What is the same is like itself.
LEMMA SameLike ==
    ASSUME NEW img, NEW new, new.size = img.size, new.parent \in {img.parent, NoParent}
    PROVE  Like(img, new)
  BY DEF Like, Follows, Clones

\* A request knows as much of disks that are like those it knew.
LEMMA DiskKnown ==
    ASSUME NEW q, Formed(q), NEW row, NEW img, NEW aside, NEW new, NEW newaside,
           DiskKnows(q, row, img, aside, SizeMayBeOld), Like(img, new), Like(aside, newaside),
           q.op = "change_sys_disk" /\ Bare(img) => Bare(new)
    PROVE  DiskKnows(q, row, new, newaside, SizeMayBeOld)
<1>1. /\ \A i, s : CloneOf(img, i, s) => CloneOf(new, i, s)
      /\ \A r : Whole(r, img, SizeMayBeOld) => Whole(r, new, SizeMayBeOld)
      /\ \A r : Whole(r, aside, SizeMayBeOld) => Whole(r, newaside, SizeMayBeOld)
      /\ new.size = img.size
  BY LikeClone DEF Like
<1>2. q.pc \in {"define_new", "save_new", "remove_new"} => q.op = "change_sys_disk"
  BY OpsAt
<1>3. QED
  BY <1>1, <1>2 DEF DiskKnows

\* The disks of machines other than v, and those put aside, are as they were.
Elsewhere(p, q, v) ==
    \A u \in Machines \ {v} : Like(p[u], q[u]) /\ Like(p[Aside(u)], q[Aside(u)]) /\ (Bare(p[u]) => Bare(q[u]))

\* What is known of requests and disks.
LEMMA DiskOf ==
    ASSUME DiskInv, NEW w \in Threads
    PROVE  /\ TInv /\ MInv /\ Formed(request[w]) /\ request[w] \in RequestState
           /\ PoolSound(pool, tick) /\ pool \in [Keys -> RbdImage]
           /\ \A v \in Machines :
                 /\ machine[v] \in MachineRow
                 /\ Changes(request[w], v)
                    => /\ DiskKnows(request[w], machine[v], pool[v], pool[Aside(v)], SizeMayBeOld)
                       /\ \A x \in Threads \ {w} : ~Changes(request[x], v)
                 /\ machine[v].live /\ (\A x \in Threads : ~Changes(request[x], v))
                    => Whole(machine[v], pool[v], SizeMayBeOld)
  BY DEF DiskInv, MInv, TInv, PoolSound, Disks

\* A request that changes the disk of a machine goes on, or arrives where no
\* other is, or ends and leaves the machine with its disk.
LEMMA DisksMove ==
    ASSUME DiskInv, MInv', UNCHANGED setting, NEW w \in Threads, NEW v \in Machines, Moved(w),
           Elsewhere(pool, pool', v),
           \A u \in Machines \ {v} : machine'[u] = machine[u],
           \A u \in Machines \ {v} : ~Changes(request[w], u) /\ ~Changes(request'[w], u),
           \A x \in Threads \ {w} : ~Changes(request[x], v),
           Changes(request'[w], v)
           => DiskKnows(request'[w], machine'[v], pool'[v], pool'[Aside(v)], SizeMayBeOld),
           ~Changes(request'[w], v) /\ machine'[v].live => Whole(machine'[v], pool'[v], SizeMayBeOld)
    PROVE  DiskInv'
<1>1. \A x \in Threads \ {w} : request'[x] = request[x]
  BY DEF Moved
<1>2. \A x \in Threads, u \in Machines \ {v} : Changes(request'[x], u) <=> Changes(request[x], u)
  BY <1>1
<1>3. ASSUME NEW x \in Threads, NEW y \in Threads, NEW u \in Machines,
             Changes(request'[x], u), Changes(request'[y], u)
      PROVE  x = y
  BY <1>1, <1>2, <1>3 DEF DiskInv, Disks
<1>4. ASSUME NEW x \in Threads, NEW u \in Machines, Changes(request'[x], u)
      PROVE  DiskKnows(request'[x], machine'[u], pool'[u], pool'[Aside(u)], SizeMayBeOld)
  <2>1. CASE u = v
    BY <1>1, <1>4, <2>1
  <2>2. CASE u # v
    BY <1>1, <1>2, <1>4, <2>2, DiskOf, DiskKnown DEF Elsewhere
  <2>3. QED
    BY <2>1, <2>2
<1>5. ASSUME NEW u \in Machines, machine'[u].live, \A x \in Threads : ~Changes(request'[x], u)
      PROVE  Whole(machine'[u], pool'[u], SizeMayBeOld)
  <2>1. CASE u = v
    BY <1>5, <2>1
  <2>2. CASE u # v
    BY <1>2, <1>5, <2>2, LikeClone DEF DiskInv, Disks, Elsewhere
  <2>3. QED
    BY <2>1, <2>2
<1>6. Disks'
  BY <1>3, <1>4, <1>5, OldStays DEF Disks
<1>7. QED
  BY <1>6 DEF DiskInv

\* The row of a machine says the same of its disk.
SameDisk(row, other) ==
    /\ other.live = row.live /\ other.sys_disk_size = row.sys_disk_size
    /\ other.image_parent = row.image_parent /\ other.image_snap = row.image_snap

\* What is known of a machine's disk is then the same.
LEMMA SameDiskKnown ==
    ASSUME NEW row, NEW other, SameDisk(row, other)
    PROVE  /\ \A img : Whole(row, img, SizeMayBeOld) => Whole(other, img, SizeMayBeOld)
           /\ \A q, img, aside : DiskKnows(q, row, img, aside, SizeMayBeOld)
                                  => DiskKnows(q, other, img, aside, SizeMayBeOld)
<1>1. \A img : Whole(row, img, SizeMayBeOld) => Whole(other, img, SizeMayBeOld)
  BY DEF SameDisk, Whole
<1>2. QED
  BY <1>1 DEF SameDisk, DiskKnows

\* A request that changes no disk goes on, or arrives, or ends.
LEMMA DisksStay ==
    ASSUME DiskInv, MInv', UNCHANGED setting, NEW w \in Threads,
           \A u \in Machines : SameDisk(machine[u], machine'[u]),
           \A x \in Threads \ {w} : request'[x] = request[x],
           request[w].op \notin Changers, request'[w].op \notin Changers,
           \A u \in Machines : Like(pool[u], pool'[u]) /\ Like(pool[Aside(u)], pool'[Aside(u)]),
           \A u \in Machines, x \in Threads :
              request[x].machine = u /\ request[x].op = "change_sys_disk" /\ Bare(pool[u]) => Bare(pool'[u])
    PROVE  DiskInv'
<1>1. \A x \in Threads, u \in Machines : Changes(request'[x], u) <=> Changes(request[x], u)
  BY DEF Changes
<1>2. \A x \in Threads, u \in Machines : Changes(request[x], u) => request'[x] = request[x]
  BY DEF Changes
<1>3. \A x, y \in Threads, u \in Machines : Changes(request'[x], u) /\ Changes(request'[y], u) => x = y
  BY <1>1 DEF DiskInv, Disks
<1>4. ASSUME NEW x \in Threads, NEW u \in Machines, Changes(request'[x], u)
      PROVE  DiskKnows(request'[x], machine'[u], pool'[u], pool'[Aside(u)], SizeMayBeOld)
  <2>1. Changes(request[x], u) /\ request'[x] = request[x]
    BY <1>1, <1>2, <1>4
  <2>2. Formed(request[x]) /\ DiskKnows(request[x], machine[u], pool[u], pool[Aside(u)], SizeMayBeOld)
    BY <2>1, DiskOf
  <2>3. Like(pool[u], pool'[u]) /\ Like(pool[Aside(u)], pool'[Aside(u)])
    OBVIOUS
  <2>4. request[x].op = "change_sys_disk" /\ Bare(pool[u]) => Bare(pool'[u])
    BY <2>1 DEF Changes
  <2>5. DiskKnows(request[x], machine[u], pool'[u], pool'[Aside(u)], SizeMayBeOld)
    BY <2>2, <2>3, <2>4, DiskKnown
  <2>6. QED
    BY <2>1, <2>5, SameDiskKnown
<1>5. ASSUME NEW u \in Machines, machine'[u].live, \A x \in Threads : ~Changes(request'[x], u)
      PROVE  Whole(machine'[u], pool'[u], SizeMayBeOld)
  BY <1>1, <1>5, LikeClone, SameDiskKnown DEF DiskInv, Disks, SameDisk
<1>6. Disks'
  BY <1>3, <1>4, <1>5, OldStays DEF Disks
<1>7. QED
  BY <1>6 DEF DiskInv

\* What is done to one image leaves the disks that others have alone.
LEMMA OthersDisks ==
    ASSUME NEW p, NEW q, NEW n \in RbdNames, NEW v, v = n \/ n \in Images,
           \A k \in Keys \ {n} : q[k] = p[k]
    PROVE  Elsewhere(p, q, v)
<1>1. /\ \A u \in Machines \ {v} : u \in Keys \ {n} /\ Aside(u) \in Keys \ {n}
  BY Names, AsideNames, ImageAssumption
<1>2. \A img : Like(img, img)
  BY SameLike
<1>3. QED
  BY <1>1, <1>2 DEF Elsewhere

\* So does a rename of it, or back.
LEMMA OthersRenamed ==
    ASSUME NEW p, NEW t, PoolSound(p, t), NEW n \in Images \cup Machines, NEW v, v = n \/ n \in Images
    PROVE  /\ Elsewhere(p, Renamed(p, n, Aside(n)), v)
           /\ n \in Machines => Elsewhere(p, Renamed(p, Aside(n), n), v)
<1>1. /\ n \in Keys /\ Aside(n) \in Keys /\ Aside(n) # n
      /\ \A u \in Machines \ {v} : /\ u \in Keys \ {n, Aside(n)}
                                   /\ Aside(u) \in Keys \ {n, Aside(n)}
  <2>1. Aside(n) \notin Machines /\ n \in Keys /\ Aside(n) \in Keys /\ Aside(n) # n
    BY Names
  <2>2. ASSUME NEW u \in Machines \ {v}
        PROVE  u \in Keys /\ u # n /\ Aside(u) \in Keys /\ Aside(u) # n /\ Aside(u) # Aside(n)
    BY Names, AsideNames
  <2>3. QED
    BY <2>1, <2>2
<1>2. ASSUME NEW a \in {n, Aside(n)}, NEW b \in {n, Aside(n)}, a # b,
             \/ a \in Images \cup Machines /\ b = Aside(a)
             \/ b \in Machines /\ a = Aside(b)
      PROVE  Elsewhere(p, Renamed(p, a, b), v)
  <2>1. a \in Keys /\ b \in Keys
    BY <1>1
  <2>2. ASSUME NEW k \in Keys \ {a, b}
        PROVE  /\ Renamed(p, a, b)[k].size = p[k].size /\ Renamed(p, a, b)[k].snaps = p[k].snaps
               /\ Renamed(p, a, b)[k].parent = Reparent(p[k].parent, a, b)
    BY <1>2, <2>1, RenamedPool
  <2>3. ASSUME NEW k \in Keys \ {a, b}
        PROVE  Like(p[k], Renamed(p, a, b)[k]) /\ (Bare(p[k]) => Bare(Renamed(p, a, b)[k]))
    BY <1>2, <2>2, RenameFollows DEF Like, Bare
  <2>4. QED
    BY <1>1, <2>3 DEF Elsewhere
<1>3. QED
  BY <1>1, <1>2

\* What is done to the disk of a machine leaves those of the others alone.
LEMMA OthersElsewhere ==
    ASSUME NEW p, NEW t, PoolSound(p, t), NEW v \in Machines
    PROVE  /\ Elsewhere(p, p, v)
           /\ \A n, s : Elsewhere(p, Cloned(p, n, s, v), v)
           /\ \A s : Elsewhere(p, Sized(p, v, s), v)
           /\ Elsewhere(p, Gone(p, v), v)
           /\ Elsewhere(p, Renamed(p, v, Aside(v)), v) /\ Elsewhere(p, Renamed(p, Aside(v), v), v)
<1>1. v \in RbdNames /\ v \in Keys /\ p \in [Keys -> RbdImage]
  BY Names, ImageAssumption DEF PoolSound
<1>2. /\ \A n, s : \A k \in Keys \ {v} : Cloned(p, n, s, v)[k] = p[k]
      /\ \A s : \A k \in Keys \ {v} : Sized(p, v, s)[k] = p[k]
      /\ \A k \in Keys \ {v} : Gone(p, v)[k] = p[k]
  BY <1>1 DEF Cloned, Sized, Gone
<1>3. Elsewhere(p, p, v) /\ Elsewhere(p, Gone(p, v), v)
  BY <1>1, <1>2, OthersDisks
<1>4. (\A n, s : Elsewhere(p, Cloned(p, n, s, v), v)) /\ (\A s : Elsewhere(p, Sized(p, v, s), v))
  BY <1>1, <1>2, OthersDisks
<1>5. QED
  BY <1>3, <1>4, OthersRenamed

\* What is done to an image leaves the disks of all machines alone.
LEMMA ImageElsewhere ==
    ASSUME NEW p, NEW t, PoolSound(p, t), NEW i \in Images
    PROVE  /\ Elsewhere(p, p, NoOne)
           /\ \A s : /\ Elsewhere(p, Made(p, i, s), NoOne) /\ Elsewhere(p, Snapped(p, i, s), NoOne)
                     /\ Elsewhere(p, Protected(p, i, s), NoOne)
                     /\ Elsewhere(p, Unsnapped(p, i, s), NoOne)
                     /\ Elsewhere(p, Unheld(p, i, s), NoOne)
           /\ \A n, s : Elsewhere(p, Cloned(p, n, s, i), NoOne)
           /\ Elsewhere(p, Flat(p, i), NoOne) /\ Elsewhere(p, Gone(p, i), NoOne)
           /\ Elsewhere(p, Renamed(p, i, Aside(i)), NoOne)
<1>1. i \in RbdNames /\ i \in Keys /\ p \in [Keys -> RbdImage]
  BY Names, ImageAssumption DEF PoolSound
<1>2. \A s : \A k \in Keys \ {i} : /\ Made(p, i, s)[k] = p[k] /\ Snapped(p, i, s)[k] = p[k]
                                   /\ Unsnapped(p, i, s)[k] = p[k] /\ Unheld(p, i, s)[k] = p[k]
  BY <1>1 DEF Made, Snapped, Unsnapped, Unheld
<1>3. \A s : \A k \in Keys \ {i} : Protected(p, i, s)[k] = p[k]
  BY <1>1 DEF Protected, Snapped
<1>4. \A n, s : \A k \in Keys \ {i} : Cloned(p, n, s, i)[k] = p[k]
  BY <1>1 DEF Cloned
<1>5. \A k \in Keys \ {i} : Flat(p, i)[k] = p[k] /\ Gone(p, i)[k] = p[k]
  BY <1>1 DEF Flat, Gone
<1>6. ASSUME NEW q, \A k \in Keys \ {i} : q[k] = p[k]
      PROVE  Elsewhere(p, q, NoOne)
  BY <1>1, <1>6, OthersDisks
<1>7. \A s : /\ Elsewhere(p, Made(p, i, s), NoOne) /\ Elsewhere(p, Snapped(p, i, s), NoOne)
             /\ Elsewhere(p, Unsnapped(p, i, s), NoOne) /\ Elsewhere(p, Unheld(p, i, s), NoOne)
  BY <1>2, <1>6
<1>8. \A s : Elsewhere(p, Protected(p, i, s), NoOne)
  BY <1>3, <1>6
<1>9. \A n, s : Elsewhere(p, Cloned(p, n, s, i), NoOne)
  BY <1>4, <1>6
<1>10. Elsewhere(p, p, NoOne) /\ Elsewhere(p, Flat(p, i), NoOne) /\ Elsewhere(p, Gone(p, i), NoOne)
  BY <1>5, <1>6
<1>11. Elsewhere(p, Renamed(p, i, Aside(i)), NoOne)
  BY OthersRenamed
<1>12. QED
  BY <1>7, <1>8, <1>9, <1>10, <1>11

\* Snapshots of a disk, taken or removed, leave it and all the others as they are.
LEMMA SnapsElsewhere ==
    ASSUME NEW p, NEW t, PoolSound(p, t), NEW v \in Machines
    PROVE  \A s, k : /\ k \in Keys => Like(p[k], Snapped(p, v, s)[k])
                     /\ k \in Keys => Like(p[k], Protected(p, v, s)[k])
                     /\ k \in Keys => Like(p[k], Unsnapped(p, v, s)[k])
                     /\ k \in Keys => Like(p[k], Unheld(p, v, s)[k])
                     /\ k \in Keys /\ Bare(p[k])
                        => Bare(Unsnapped(p, v, s)[k]) /\ Bare(Unheld(p, v, s)[k])
                     /\ k \in Keys \ {v} /\ Bare(p[k])
                        => Bare(Snapped(p, v, s)[k]) /\ Bare(Protected(p, v, s)[k])
<1>1. v \in Keys /\ p \in [Keys -> RbdImage]
  BY Names DEF PoolSound
<1> SUFFICES ASSUME NEW s, NEW k \in Keys
             PROVE  /\ Like(p[k], Snapped(p, v, s)[k]) /\ Like(p[k], Protected(p, v, s)[k])
                    /\ Like(p[k], Unsnapped(p, v, s)[k]) /\ Like(p[k], Unheld(p, v, s)[k])
                    /\ Bare(p[k]) => Bare(Unsnapped(p, v, s)[k]) /\ Bare(Unheld(p, v, s)[k])
                    /\ k # v /\ Bare(p[k]) => Bare(Snapped(p, v, s)[k]) /\ Bare(Protected(p, v, s)[k])
  OBVIOUS
<1>2. /\ Snapped(p, v, s)[k].size = p[k].size /\ Snapped(p, v, s)[k].parent = p[k].parent
      /\ k # v => Snapped(p, v, s)[k] = p[k]
  BY <1>1 DEF Snapped, RbdImage
<1>3. /\ Protected(p, v, s)[k].size = p[k].size /\ Protected(p, v, s)[k].parent = p[k].parent
      /\ k # v => Protected(p, v, s)[k] = p[k]
  BY <1>1 DEF Protected, Snapped, RbdImage
<1>4. /\ Unsnapped(p, v, s)[k].size = p[k].size /\ Unsnapped(p, v, s)[k].parent = p[k].parent
      /\ \A x \in 1 .. MaxTick : Unsnapped(p, v, s)[k].snaps[x] \in {0, p[k].snaps[x]}
  BY <1>1 DEF Unsnapped, RbdImage
<1>5. /\ Unheld(p, v, s)[k].size = p[k].size /\ Unheld(p, v, s)[k].parent = p[k].parent
      /\ Unheld(p, v, s)[k].snaps = p[k].snaps
  BY <1>1 DEF Unheld, RbdImage
<1>6. Bare(p[k]) => Bare(Unsnapped(p, v, s)[k]) /\ Bare(Unheld(p, v, s)[k])
  BY <1>4, <1>5 DEF Bare
<1>7. QED
  BY <1>2, <1>3, <1>4, <1>5, <1>6, SameLike

\* A request about an image leaves what the rows of machines say of their disks,
\* and the rows of snapshots.
LEMMA ImagesLeave ==
    ASSUME TInv, NEW w \in Threads, ImageStep(w)
    PROVE  /\ \A v \in Machines : SameDisk(machine[v], machine'[v])
           /\ snaprow' = snaprow /\ (tick' = tick \/ CreateSnap(w))
           /\ \/ pool' = pool
              \/ CreateBaseImage(w) \/ CreateSnap(w) \/ RemoveOldSnap(w) \/ RenameBase(w)
<1>0. \A row : SameDisk(row, row)
  BY DEF SameDisk
<1>1. CASE DeleteImageRow(w)
  <2>1. pool' = pool /\ snaprow' = snaprow /\ tick' = tick
    BY <1>1 DEF DeleteImageRow, CephSame
  <2>2. ASSUME NEW v \in Machines
        PROVE  SameDisk(machine[v], machine'[v])
    BY <1>1 DEF TInv, DeleteImageRow, SameDisk, MachineRow
  <2>3. QED
    BY <2>1, <2>2
<1>2. CASE CreateBaseImage(w) \/ CreateSnap(w) \/ RemoveOldSnap(w) \/ RenameBase(w)
  BY <1>0, <1>2 DEF CreateBaseImage, CreateSnap, RemoveOldSnap, RenameBase, OnlyCeph, MachineRowsSame, CephSame
<1>3. CASE \/ InsertImage(w) \/ SaveImage(w) \/ UndefineImageVm(w) \/ RemovedImageVm(w) \/ FreeImageVm(w)
           \/ ClearImageVm(w)
  <2>1. UNCHANGED <<machine, pool, snaprow, tick>>
    BY <1>3 DEF InsertImage, SaveImage, UndefineImageVm, RemovedImageVm, FreeImageVm, ClearImageVm,
                OnlyImageRow, OnlyRequest, OnlyCeph, MachineRowsSame, CephSame
  <2>2. QED
    BY <1>0, <2>1
<1>4. CASE \/ ClaimForImage(w) \/ GetImage(w) \/ SaveImageVm(w) \/ DefineImageVm(w)
           \/ ResetImageVm(w) \/ UnclaimForImage(w) \/ CreatedImageVm(w)
  <2>1. UNCHANGED <<machine, pool, snaprow, tick>>
    BY <1>4 DEF ClaimForImage, GetImage, SaveImageVm, DefineImageVm, ResetImageVm, UnclaimForImage,
                CreatedImageVm, OnlyImageRow, OnlyRequest, OnlyCeph, MachineRowsSame, CephSame
  <2>2. QED
    BY <1>0, <2>1
<1>5. ASSUME NEW i \in Images,
             \/ AddImage(w, i) \/ SnapUpdate(w, i) \/ EnableUpdate(w, i) \/ DeleteImage(w, i)
             \/ ImageVmPower(w, i)
             \/ \E op \in ImageOps : EndImageVm(w, op, i)
             \/ \E op \in ImageOps, h \in Hosts : StartImageVm(w, op, i, h)
      PROVE  UNCHANGED <<machine, pool, snaprow, tick>>
  BY <1>5 DEF AddImage, SnapUpdate, EnableUpdate, DeleteImage, ImageVmPower, EndImageVm, StartImageVm,
              OnlyRequest, OnlyCeph, MachineRowsSame, CephSame
<1>6. QED
  BY <1>0, <1>1, <1>2, <1>3, <1>4, <1>5 DEF ImageStep

\* A request about an image changes no disk of a machine, nor does a release or
\* one about a snapshot of a disk.
LEMMA ChangesNone ==
    ASSUME TInv, NEW w \in Threads, Moved(w), request[w].pc # "idle", request[w].op \notin Changers
    PROVE  request'[w].op \notin Changers
<1>1. NoRequest.op = "none"
  BY DEF NoRequest
<1>2. QED
  BY <1>1, GoesOn DEF Changers

\* Requests about the disk of a machine, and those that publish it.
DiskKinds == Changers \cup {"create_sys_snap", "delete_sys_snap"}

\* A request about an image is none of those, but for a release that adds its image.
LEMMA ImageKinds ==
    ASSUME TInv, UNCHANGED setting, NEW w \in Threads, ImageStep(w)
    PROVE  /\ \A x \in Threads \ {w} : request'[x] = request[x]
           /\ request[w].op \notin DiskKinds /\ request'[w].op \notin DiskKinds
           /\ \/ request[w].op # "release" /\ request'[w].op # "release"
              \/ CreateBaseImage(w) \/ CreateSnap(w) \/ InsertImage(w)
<1> DEFINE others == DiskKinds \cup {"release"}
<1>1. TInv /\ Formed(request[w]) /\ (request' = request \/ Moved(w))
  BY ImageStepTyped DEF TInv
<1>2. \A x \in Threads \ {w} : request'[x] = request[x]
  BY <1>1 DEF Moved
<1>3. /\ NoRequest.op = "none"
      /\ others = {"create_machine", "change_sys_disk", "rollback", "sys_disk_expand", "create_sys_snap",
                   "delete_sys_snap", "release"}
  BY DEF NoRequest, DiskKinds, Changers
<1> HIDE DEF others
<1>4. ASSUME request[w].pc # "idle", NEW S, request[w].op \notin S, "none" \notin S
      PROVE  request'[w].op \notin S
  BY <1>1, <1>3, <1>4, GoesOn
<1>5. ASSUME NEW i \in Images,
             \/ AddImage(w, i) \/ SnapUpdate(w, i) \/ EnableUpdate(w, i) \/ DeleteImage(w, i)
             \/ ImageVmPower(w, i)
             \/ \E op \in ImageOps : EndImageVm(w, op, i)
             \/ \E op \in ImageOps, h \in Hosts : StartImageVm(w, op, i, h)
      PROVE  request[w].op \notin others /\ request'[w].op \notin others
  <2>1. request[w].pc = "idle"
    BY <1>5 DEF AddImage, SnapUpdate, EnableUpdate, DeleteImage, ImageVmPower, EndImageVm, StartImageVm,
                Arrives, InStep
  <2>2. request[w] = NoRequest
    BY <1>1, <2>1, IdleRequest
  <2>3. CASE AddImage(w, i)
    BY <1>1, <1>3, <2>2, <2>3, ReceivedIs DEF AddImage
  <2>4. CASE SnapUpdate(w, i) \/ DeleteImage(w, i)
    BY <1>1, <1>3, <2>2, <2>4, ReceivedIs DEF SnapUpdate, DeleteImage
  <2>5. CASE EnableUpdate(w, i)
    BY <1>1, <1>3, <2>2, <2>5 DEF EnableUpdate, NoRequest, TInv
  <2>6. CASE ImageVmPower(w, i)
    BY <1>1, <1>3, <2>2, <2>6, ImageVmPowerTyped
  <2>7. ASSUME NEW op, EndImageVm(w, op, i)
        PROVE  request[w].op \notin others /\ request'[w].op \notin others
    BY <1>1, <1>3, <2>2, <2>7, ReceivedIs DEF EndImageVm
  <2>8. ASSUME NEW op, NEW h \in Hosts, StartImageVm(w, op, i, h)
        PROVE  request[w].op \notin others /\ request'[w].op \notin others
    BY <1>1, <1>3, <2>2, <2>8 DEF StartImageVm, NoRequest, TInv
  <2>9. QED
    BY <1>5, <2>3, <2>4, <2>5, <2>6, <2>7, <2>8
<1>6. CASE CreateBaseImage(w) \/ CreateSnap(w) \/ InsertImage(w)
  BY <1>1, <1>2, <1>4, <1>6, OpsAt DEF CreateBaseImage, CreateSnap, InsertImage, InStep, DiskKinds, Changers
<1> DEFINE steps == {"snap_remove", "save_all", "rename_base", "image_rowdel", "undefine", "vm_created_sub",
                     "free", "clear", "claim", "get_image", "save_vm", "define_vm", "reset_vm", "unclaim",
                     "vm_created_add"}
<1>7. ASSUME request[w].pc \in steps
      PROVE  request[w].op \notin others /\ request'[w].op \notin others
  BY <1>1, <1>3, <1>4, <1>7, OpsAt
<1>8. CASE request[w].op \notin others /\ request'[w].op \notin others
  BY <1>2, <1>8 DEF others
<1>9. CASE RemoveOldSnap(w) \/ SaveImage(w) \/ RenameBase(w) \/ DeleteImageRow(w)
  BY <1>7, <1>8, <1>9 DEF RemoveOldSnap, SaveImage, RenameBase, DeleteImageRow, InStep
<1>10. CASE UndefineImageVm(w) \/ RemovedImageVm(w) \/ FreeImageVm(w) \/ ClearImageVm(w)
  BY <1>7, <1>8, <1>10 DEF UndefineImageVm, RemovedImageVm, FreeImageVm, ClearImageVm, InStep
<1>11. CASE \/ ClaimForImage(w) \/ GetImage(w) \/ SaveImageVm(w) \/ DefineImageVm(w)
            \/ ResetImageVm(w) \/ UnclaimForImage(w) \/ CreatedImageVm(w)
  BY <1>7, <1>8, <1>11 DEF ClaimForImage, GetImage, SaveImageVm, DefineImageVm, ResetImageVm, UnclaimForImage,
                           CreatedImageVm, InStep
<1>12. QED
  BY <1>5, <1>6, <1>8, <1>9, <1>10, <1>11 DEF ImageStep

\* A request about an image keeps it.
LEMMA ImageDisks ==
    ASSUME DiskInv, MInv', UNCHANGED setting, NEW w \in Threads, ImageStep(w)
    PROVE  DiskInv'
<1>1. TInv /\ Formed(request[w]) /\ PoolSound(pool, tick)
  BY DiskOf
<1>2. \A x \in Threads \ {w} : request'[x] = request[x]
  BY <1>1, ImageKinds
<1>3. /\ \A v \in Machines : SameDisk(machine[v], machine'[v])
      /\ \/ pool' = pool
         \/ CreateBaseImage(w) \/ CreateSnap(w) \/ RemoveOldSnap(w) \/ RenameBase(w)
  BY <1>1, ImagesLeave
<1>4. Elsewhere(pool, pool', NoOne)
  <2>0. request[w].image \in Images =>
           /\ Elsewhere(pool, pool, NoOne)
           /\ \A s : /\ Elsewhere(pool, Made(pool, request[w].image, s), NoOne)
                     /\ Elsewhere(pool, Snapped(pool, request[w].image, s), NoOne)
                     /\ Elsewhere(pool, Protected(pool, request[w].image, s), NoOne)
                     /\ Elsewhere(pool, Unsnapped(pool, request[w].image, s), NoOne)
                     /\ Elsewhere(pool, Unheld(pool, request[w].image, s), NoOne)
           /\ Elsewhere(pool, Renamed(pool, request[w].image, Aside(request[w].image)), NoOne)
    BY <1>1, ImageElsewhere
  <2>1. CASE pool' = pool
    <3>1. PICK i \in Images : TRUE
      BY ImageAssumption
    <3>2. QED
      BY <1>1, <2>1, <3>1, ImageElsewhere
  <2>2. CASE CreateBaseImage(w)
    <3>1. request[w].pc = "create_image"
      BY <2>2 DEF CreateBaseImage, InStep
    <3>2. request[w].image \in Images
      BY <1>1, <3>1, AboutAt, OpsAt DEF MachineOnly
    <3>3. QED
      BY <1>1, <2>0, <2>2, <3>2, CreateBaseImageTyped
  <2>3. CASE CreateSnap(w)
    BY <1>1, <2>0, <2>3, CreateSnapTyped
  <2>4. CASE RemoveOldSnap(w)
    <3>1. /\ request[w].image \in Images
          /\ \/ pool' = pool
             \/ pool' = Unsnapped(pool, request[w].image, request[w].row.snap)
             \/ pool' = Unheld(pool, request[w].image, request[w].row.snap)
      BY <1>1, <2>4, RemoveOldSnapTyped
    <3>2. QED
      BY <2>0, <3>1
  <2>5. CASE RenameBase(w)
    BY <1>1, <2>0, <2>5, RenameBaseTyped
  <2>6. QED
    BY <1>3, <2>1, <2>2, <2>3, <2>4, <2>5
<1>5. request[w].op \notin Changers /\ request'[w].op \notin Changers
  BY <1>1, ImageKinds DEF DiskKinds
<1>6. /\ \A u \in Machines : Like(pool[u], pool'[u]) /\ Like(pool[Aside(u)], pool'[Aside(u)])
      /\ \A u \in Machines : Bare(pool[u]) => Bare(pool'[u])
  BY <1>4, Names DEF Elsewhere
<1>7. QED
  BY <1>2, <1>3, <1>5, <1>6, DisksStay

\* The system of a disk is not being changed while a snapshot of it is taken.
LEMMA SystemStays ==
    ASSUME DiskInv, NEW w \in Threads, request[w].op \in {"create_sys_snap", "release"},
           NEW v \in Machines, request[w].machine = v, NEW x \in Threads, request[x].machine = v
    PROVE  request[x].op # "change_sys_disk"
<1> SUFFICES ASSUME request[x].op = "change_sys_disk"
             PROVE  FALSE
  OBVIOUS
<1>1. w # x /\ v # NoOne /\ request[w] # NoRequest /\ request[x] # NoRequest
  BY Names DEF NoRequest
<1>2. Meet(request[w].op, request[x].op)
  BY <1>1 DEF DiskInv, MInv, Meeting
<1>3. request[w].op \in setting.ops /\ request[x].op \in setting.ops
  BY <1>1 DEF DiskInv, MInv
<1>4. Apart(setting, {"change_sys_disk"}, {"create_sys_snap", "release"})
  BY DEF DiskInv, DiskSetting
<1>5. QED
  BY <1>2, <1>3, <1>4 DEF Apart, Meet

\* Snapshots of the disk of a machine are taken and removed, and released.
LEMMA SnapDisks ==
    ASSUME DiskInv, MInv', UNCHANGED <<setting, machine>>, NEW w \in Threads, Moved(w),
           request[w].op \in {"create_sys_snap", "delete_sys_snap", "release"}, request[w].pc # "idle",
           \/ Elsewhere(pool, pool', NoOne)
           \/ \E s : \/ pool' = Unsnapped(pool, request[w].machine, s)
                     \/ pool' = Unheld(pool, request[w].machine, s)
           \/ /\ request[w].op # "delete_sys_snap"
              /\ \E s : \/ pool' = Snapped(pool, request[w].machine, s)
                        \/ pool' = Protected(pool, request[w].machine, s)
    PROVE  DiskInv'
<1>1. TInv /\ Formed(request[w]) /\ PoolSound(pool, tick)
  BY DiskOf
<1>2. PICK v \in Machines : request[w].machine = v
  BY <1>1, AboutAt DEF ImageOnly
<1>3. request[w].op \notin Changers
  BY DEF Changers
<1>4. request'[w].op \notin Changers
  BY <1>1, <1>3, ChangesNone
<1>5. \A u \in Machines : u \in Keys /\ Aside(u) \in Keys /\ u # NoOne
  BY Names
<1>6. /\ \A x \in Threads \ {w} : request'[x] = request[x]
      /\ \A u \in Machines : SameDisk(machine[u], machine'[u])
  BY DEF Moved, SameDisk
<1>7. SUFFICES /\ \A u \in Machines : Like(pool[u], pool'[u]) /\ Like(pool[Aside(u)], pool'[Aside(u)])
               /\ \A u \in Machines, x \in Threads :
                     request[x].machine = u /\ request[x].op = "change_sys_disk" /\ Bare(pool[u])
                     => Bare(pool'[u])
  BY <1>3, <1>4, <1>6, DisksStay
<1>8. CASE Elsewhere(pool, pool', NoOne)
  BY <1>5, <1>8 DEF Elsewhere
<1>9. ASSUME NEW s, pool' = Unsnapped(pool, v, s) \/ pool' = Unheld(pool, v, s)
      PROVE  /\ \A k \in Keys : Like(pool[k], pool'[k])
             /\ \A u \in Machines : Bare(pool[u]) => Bare(pool'[u])
  BY <1>1, <1>5, <1>9, SnapsElsewhere
<1>10. ASSUME NEW s, pool' = Snapped(pool, v, s) \/ pool' = Protected(pool, v, s)
       PROVE  /\ \A k \in Keys : Like(pool[k], pool'[k])
              /\ \A u \in Machines \ {v} : Bare(pool[u]) => Bare(pool'[u])
  BY <1>1, <1>5, <1>10, SnapsElsewhere
<1>11. CASE \E s : pool' = Unsnapped(pool, v, s) \/ pool' = Unheld(pool, v, s)
  BY <1>5, <1>9, <1>11
<1>12. CASE /\ request[w].op # "delete_sys_snap"
            /\ \E s : pool' = Snapped(pool, v, s) \/ pool' = Protected(pool, v, s)
  BY <1>2, <1>5, <1>10, <1>12, SystemStays
<1>13. QED
  BY <1>2, <1>8, <1>11, <1>12

\* A request about a snapshot of a disk keeps it.
LEMMA SysSnapDisks ==
    ASSUME DiskInv, MInv', UNCHANGED setting, NEW w \in Threads,
           TakeSysSnap(w) \/ SaveSysSnap(w) \/ RemoveSysSnap(w) \/ DeleteSysSnapRow(w)
    PROVE  DiskInv'
<1>1. TInv /\ Formed(request[w]) /\ PoolSound(pool, tick)
  BY DiskOf
<1>2. Elsewhere(pool, pool, NoOne)
  <2>1. PICK i \in Images : TRUE
    BY ImageAssumption
  <2>2. QED
    BY <1>1, <2>1, ImageElsewhere
<1>3. machine' = machine
  BY DEF TakeSysSnap, SaveSysSnap, RemoveSysSnap, DeleteSysSnapRow, OnlyCeph, MachineRowsSame
<1>4. CASE TakeSysSnap(w)
  BY <1>1, <1>2, <1>3, <1>4, TakeSysSnapTyped, OpsAt, SnapDisks
<1>5. CASE SaveSysSnap(w)
  BY <1>1, <1>2, <1>3, <1>5, SaveSysSnapTyped, OpsAt, SnapDisks DEF OnlyMachineRow, CephSame
<1>6. CASE RemoveSysSnap(w)
  BY <1>1, <1>2, <1>3, <1>6, RemoveSysSnapTyped, OpsAt, SnapDisks
<1>7. CASE DeleteSysSnapRow(w)
  BY <1>1, <1>2, <1>3, <1>7, DeleteSysSnapRowTyped, OpsAt, SnapDisks DEF OnlyMachineRow, CephSame
<1>8. QED
  BY <1>4, <1>5, <1>6, <1>7

\* So does a release.
LEMMA ReleaseDisks ==
    ASSUME DiskInv, MInv', UNCHANGED setting, NEW w \in Threads, ReleaseGoesOn(w)
    PROVE  DiskInv'
<1>1. TInv /\ Formed(request[w]) /\ PoolSound(pool, tick)
  BY DiskOf
<1>2. Moved(w) /\ request[w].op = "release"
  BY <1>1, ReleaseKeepsRow DEF ReleaseGoesOn
<1>3. request[w].pc # "idle" /\ request[w].image \in Images
  BY <1>1, <1>2, IdleRequest, AboutAt DEF NoRequest, MachineOnly
<1>4. /\ Elsewhere(pool, pool, NoOne)
      /\ \A n, s : Elsewhere(pool, Cloned(pool, n, s, request[w].image), NoOne)
      /\ Elsewhere(pool, Flat(pool, request[w].image), NoOne)
      /\ Elsewhere(pool, Gone(pool, request[w].image), NoOne)
  BY <1>1, <1>3, ImageElsewhere
<1> DEFINE goal == /\ machine' = machine
                   /\ \/ Elsewhere(pool, pool', NoOne)
                      \/ \E s : \/ pool' = Unsnapped(pool, request[w].machine, s)
                                \/ pool' = Unheld(pool, request[w].machine, s)
                                \/ pool' = Snapped(pool, request[w].machine, s)
                                \/ pool' = Protected(pool, request[w].machine, s)
<1>5. ASSUME ReleaseExists(w)
      PROVE  goal
  BY <1>1, <1>4, <1>5, ReleaseExistsTyped
<1>6. ASSUME ReleaseSnap(w)
      PROVE  goal
  BY <1>1, <1>4, <1>6, ReleaseSnapTyped
<1>7. ASSUME ReleaseClone(w)
      PROVE  goal
  <2>1. /\ machine' = machine
        /\ \/ pool' = Cloned(pool, request[w].machine, request[w].snap, request[w].image)
           \/ pool' = pool
    BY <1>1, <1>7, ReleaseCloneTyped
  <2>2. QED
    BY <1>4, <2>1
<1>8. ASSUME ReleaseFlatten(w)
      PROVE  goal
  BY <1>1, <1>4, <1>8, ReleaseFlattenTyped
<1>9. ASSUME ReleaseRemove(w)
      PROVE  goal
  BY <1>1, <1>4, <1>9, ReleaseRemoveTyped
<1>10. ASSUME ReleaseUndoSnap(w) \/ ReleaseUnsnap(w)
       PROVE  goal
  BY <1>1, <1>4, <1>10, ReleaseUnsnapTyped
<1>11. goal
  BY <1>5, <1>6, <1>7, <1>8, <1>9, <1>10 DEF ReleaseGoesOn
<1>12. QED
  BY <1>2, <1>3, <1>11, SnapDisks

\* Requests that change no disk arrive, or change the power of the machine.
LEMMA OthersArrive ==
    ASSUME DiskInv, MInv', UNCHANGED setting, NEW w \in Threads, NEW v \in Machines,
           \/ MachinePower(w, v) \/ CreateSysSnap(w, v) \/ \E i \in Images : ReleaseImage(w, v, i)
           \/ \E s \in 1 .. MaxTick : AboutSysSnap(w, "delete_sys_snap", v, s)
    PROVE  DiskInv'
<1>1. TInv /\ Formed(request[w]) /\ PoolSound(pool, tick)
  BY DiskOf
<1>2. machine' = machine /\ pool' = pool /\ request[w].pc = "idle"
  BY DEF MachinePower, CreateSysSnap, ReleaseImage, AboutSysSnap, AboutMachine, Arrives, InStep,
         OnlyRequest, OnlyCeph, MachineRowsSame, CephSame
<1>3. request[w] = NoRequest /\ NoRequest.op = "none" /\ "none" \notin Changers
  BY <1>1, <1>2, IdleRequest DEF NoRequest, Changers
<1>4. (\A x \in Threads \ {w} : request'[x] = request[x]) /\ request'[w].op \notin Changers
  <2>1. CASE MachinePower(w, v)
    BY <1>1, <1>3, <2>1, MachinePowerTyped
  <2>2. CASE CreateSysSnap(w, v)
    <3>1. Moved(w) /\ Receive(w, "create_sys_snap", NoOne, v, "sys_snap")
      BY <1>1, <2>2, CreateSysSnapTyped DEF CreateSysSnap
    <3>2. QED
      BY <1>1, <3>1, ReceivedIs DEF Moved, Changers
  <2>3. ASSUME NEW i \in Images, ReleaseImage(w, v, i)
        PROVE  (\A x \in Threads \ {w} : request'[x] = request[x]) /\ request'[w].op \notin Changers
    <3>1. \/ request' = request
          \/ /\ Moved(w)
             /\ request'[w] = [NoRequest EXCEPT !.op = "release", !.image = i, !.machine = v,
                                 !.pc = "rel_exists"]
      BY <1>1, <2>3, ReleaseImageTyped
    <3>2. [NoRequest EXCEPT !.op = "release", !.image = i, !.machine = v, !.pc = "rel_exists"].op = "release"
      BY DEF NoRequest
    <3>3. QED
      BY <1>3, <3>1, <3>2 DEF Moved, Changers
  <2>4. ASSUME NEW s \in 1 .. MaxTick, AboutSysSnap(w, "delete_sys_snap", v, s)
        PROVE  (\A x \in Threads \ {w} : request'[x] = request[x]) /\ request'[w].op \notin Changers
    <3>1. Moved(w)
      BY <1>1, <2>4, AboutSysSnapTyped
    <3>2. request'[w].op = "delete_sys_snap"
      <4>1. request \in [Threads -> RequestState]
        BY <1>1 DEF TInv
      <4>2. request'[w] = [NoRequest EXCEPT !.op = "delete_sys_snap", !.machine = v, !.snap = s,
                                            !.pc = "remove_sys_snap"]
        BY <2>4, <4>1 DEF AboutSysSnap
      <4>3. QED
        BY <4>2 DEF NoRequest
    <3>3. QED
      BY <3>1, <3>2 DEF Moved, Changers
  <2>5. QED
    BY <2>1, <2>2, <2>3, <2>4
<1>5. /\ \A u \in Machines : SameDisk(machine[u], machine'[u])
      /\ \A u \in Machines : Like(pool[u], pool'[u]) /\ Like(pool[Aside(u)], pool'[Aside(u)])
  BY <1>2, SameLike DEF SameDisk
<1>6. \A u \in Machines : Bare(pool[u]) => Bare(pool'[u])
  BY <1>2
<1>7. QED
  BY <1>3, <1>4, <1>5, <1>6, DisksStay

\* A request that changes the disk of a machine goes on, or ends.
LEMMA DisksGo ==
    ASSUME DiskInv, MInv', UNCHANGED setting, NEW w \in Threads, Moved(w), request[w].pc # "idle",
           NEW v \in Machines, request[w].machine = v, request[w].op \in Changers,
           Elsewhere(pool, pool', v), \A u \in Machines \ {v} : machine'[u] = machine[u],
           \/ request'[w] = NoRequest /\ (machine'[v].live => Whole(machine'[v], pool'[v], SizeMayBeOld))
           \/ request'[w] # NoRequest
              /\ DiskKnows(request'[w], machine'[v], pool'[v], pool'[Aside(v)], SizeMayBeOld)
    PROVE  DiskInv'
<1>1. Changes(request[w], v) /\ (\A u \in Machines \ {v} : ~Changes(request[w], u))
  BY DEF Changes
<1>2. \A x \in Threads \ {w} : ~Changes(request[x], v)
  BY <1>1, DiskOf
<1>3. NoRequest.op = "none" /\ "none" \notin Changers
  BY DEF NoRequest, Changers
<1>4. CASE request'[w] = NoRequest
  BY <1>1, <1>2, <1>3, <1>4, DisksMove DEF Changes
<1>5. CASE request'[w] # NoRequest
  BY <1>1, <1>2, <1>5, GoesOn, DisksMove DEF Changes
<1>6. QED
  BY <1>4, <1>5

\* What such a request knows of the disk.
LEMMA ChangerAt ==
    ASSUME DiskInv, NEW w \in Threads,
           request[w].pc \in {"clone_disk", "resize_new", "save_machine", "define_machine", "remove_disk",
                              "rename_disk", "clone_new", "define_new", "save_new", "remove_new",
                              "rename_back", "remount", "size_read", "size_save", "resize", "rollback"}
    PROVE  /\ request[w].op \in Changers /\ request[w].machine \in Machines /\ request[w].pc # "idle"
           /\ DiskKnows(request[w], machine[request[w].machine], pool[request[w].machine],
                        pool[Aside(request[w].machine)], SizeMayBeOld)
           /\ Elsewhere(pool, pool, request[w].machine)
<1>1. Formed(request[w]) /\ PoolSound(pool, tick)
  BY DiskOf
<1>2. request[w].op \in Changers
  BY <1>1, OpsAt DEF Changers
<1>3. request[w].pc # "idle" /\ request[w].op \notin ImageOnly
  BY <1>2 DEF Changers, ImageOnly
<1>4. request[w].machine \in Machines
  BY <1>1, <1>3, AboutAt
<1>5. Changes(request[w], request[w].machine)
  BY <1>2 DEF Changes
<1>6. QED
  BY <1>1, <1>2, <1>3, <1>4, <1>5, DiskOf, OthersElsewhere

\* The disk of a new machine is cloned.
LEMMA CloneDisks ==
    ASSUME DiskInv, MInv', UNCHANGED setting, NEW w \in Threads, CloneDisk(w)
    PROVE  DiskInv'
<1>1. TInv /\ request[w] \in RequestState /\ PoolSound(pool, tick)
  BY DiskOf
<1>2. Moved(w) /\ machine' = machine /\ request[w].pc = "clone_disk" /\ request[w].image \in Images
  BY <1>1, CloneDiskTyped DEF OnlyCeph, MachineRowsSame
<1>3. PICK v \in Machines : request[w].machine = v
  BY <1>1, CloneDiskTyped
<1>4. /\ request[w].op \in Changers /\ ~machine[v].live /\ Elsewhere(pool, pool, v)
      /\ v \in Keys
  BY <1>2, <1>3, ChangerAt, Names DEF DiskKnows
<1>5. PICK i \in Images : \E s : request[w].image = i /\ request[w].row.snap = s
  BY <1>2
<1>6. PICK s : request[w].image = i /\ request[w].row.snap = s
  BY <1>5
<1>7. \/ /\ HasSnap(pool, i, s) /\ ~image_exists(pool, v) /\ pool' = Cloned(pool, i, s, v)
         /\ request'[w] = [request[w] EXCEPT !.pc = "resize_new"]
      \/ pool' = pool /\ request'[w] = NoRequest
  BY <1>1, <1>3, <1>6, CloneDiskTyped
<1>8. CASE pool' = pool /\ request'[w] = NoRequest
  BY <1>2, <1>3, <1>4, <1>8, DisksGo
<1>9. CASE /\ HasSnap(pool, i, s) /\ ~image_exists(pool, v) /\ pool' = Cloned(pool, i, s, v)
           /\ request'[w] = [request[w] EXCEPT !.pc = "resize_new"]
  <2> DEFINE q == request'[w]
  <2>1. q.pc = "resize_new" /\ q.image = i /\ q.row.snap = s /\ q # NoRequest
    BY <1>1, <1>6, <1>9 DEF RequestState, NoRequest
  <2>2. i \in Keys
    BY Names
  <2>3. pool'[v].size > 0 /\ pool'[v].parent = <<i, s>>
    BY <1>1, <1>4, <1>9, <2>2, ClonedPool
  <2>4. request'[w] = q
    OBVIOUS
  <2> HIDE DEF q
  <2>5. CloneOf(pool'[v], i, s)
    BY <2>3 DEF CloneOf, Clones
  <2>6. DiskKnows(q, machine'[v], pool'[v], pool'[Aside(v)], SizeMayBeOld)
    BY <1>2, <1>4, <2>1, <2>5 DEF DiskKnows
  <2>7. Elsewhere(pool, pool', v)
    BY <1>1, <1>9, OthersElsewhere
  <2>8. QED
    BY <1>2, <1>3, <1>4, <2>1, <2>4, <2>6, <2>7, DisksGo
<1>10. QED
  BY <1>7, <1>8, <1>9

\* It is made as large as asked for.
LEMMA ResizeNewDisks ==
    ASSUME DiskInv, MInv', UNCHANGED setting, NEW w \in Threads, ResizeNewDisk(w)
    PROVE  DiskInv'
<1>1. TInv /\ request[w] \in RequestState /\ PoolSound(pool, tick)
  BY DiskOf
<1>2. Moved(w) /\ machine' = machine /\ request[w].pc = "resize_new"
  BY <1>1, ResizeNewDiskTyped DEF OnlyCeph, MachineRowsSame
<1>3. PICK v \in Machines : request[w].machine = v
  BY <1>1, ResizeNewDiskTyped
<1>4. /\ request[w].op \in Changers /\ ~machine[v].live /\ Elsewhere(pool, pool, v)
      /\ CloneOf(pool[v], request[w].image, request[w].row.snap) /\ v \in Keys
  BY <1>2, <1>3, ChangerAt, Names DEF DiskKnows
<1>5. PICK size \in 0 .. MaxSize : request[w].size = size
  BY <1>1 DEF RequestState
<1>6. \/ /\ size \in 1 .. MaxSize /\ pool' = Sized(pool, v, size)
         /\ request'[w] = [request[w] EXCEPT !.pc = "save_machine"]
      \/ pool' = pool /\ request'[w] = [request[w] EXCEPT !.pc = "remove_disk"]
  BY <1>1, <1>3, <1>5, ResizeNewDiskTyped
<1> DEFINE q == request'[w]
<1>7. /\ q.image = request[w].image /\ q.row = request[w].row /\ q.size = size
      /\ q.pc \in {"save_machine", "remove_disk"}
      /\ q.pc = "save_machine" => size \in 1 .. MaxSize /\ pool' = Sized(pool, v, size)
      /\ q.pc = "remove_disk" => pool' = pool
  BY <1>1, <1>5, <1>6 DEF RequestState
<1>8. request'[w] = q
  OBVIOUS
<1> HIDE DEF q
<1>9. q # NoRequest
  BY <1>7 DEF NoRequest
<1>10. Elsewhere(pool, pool', v)
  BY <1>1, <1>4, <1>7, OthersElsewhere
<1>11. q.pc = "save_machine" => /\ CloneOf(pool'[v], q.image, q.row.snap)
                                /\ pool'[v].size = q.size
  <2>1. ASSUME q.pc = "save_machine"
        PROVE  pool'[v].size = size /\ pool'[v].parent = pool[v].parent /\ size > 0
    BY <1>1, <1>4, <1>7, <2>1, SizedPool
  <2>2. QED
    BY <1>4, <1>7, <2>1 DEF CloneOf
<1>12. DiskKnows(q, machine'[v], pool'[v], pool'[Aside(v)], SizeMayBeOld)
  BY <1>2, <1>4, <1>7, <1>11 DEF DiskKnows
<1>13. QED
  BY <1>2, <1>3, <1>4, <1>8, <1>9, <1>10, <1>12, DisksGo

\* The row that is saved says what the disk is.
LEMMA SaveMachineDisks ==
    ASSUME DiskInv, MInv', UNCHANGED setting, NEW w \in Threads, SaveMachine(w)
    PROVE  DiskInv'
<1>1. TInv /\ request[w] \in RequestState /\ machine \in [Machines -> MachineRow]
  BY DiskOf DEF TInv
<1>2. /\ Moved(w) /\ pool' = pool /\ request[w].pc = "save_machine"
      /\ request'[w] = [request[w] EXCEPT !.pc = "define_machine"]
  BY <1>1, SaveMachineTyped DEF OnlyMachineRow, CephSame
<1>3. PICK v \in Machines : request[w].machine = v
  BY <1>1, SaveMachineTyped
<1>4. /\ request[w].op \in Changers /\ Elsewhere(pool, pool, v)
      /\ CloneOf(pool[v], request[w].image, request[w].row.snap) /\ pool[v].size = request[w].size
  BY <1>2, <1>3, ChangerAt DEF DiskKnows
<1>5. machine' = [machine EXCEPT ![v] =
                    [live |-> TRUE, image |-> request[w].image, image_parent |-> request[w].image,
                     image_snap |-> request[w].row.snap, sys_disk_size |-> request[w].size]]
  BY <1>1, <1>3, SaveMachineTyped
<1> DEFINE q == request'[w]
<1>6. q.pc = "define_machine"
  BY <1>1, <1>2 DEF RequestState
<1>7. request'[w] = q
  OBVIOUS
<1> HIDE DEF q
<1>8. q # NoRequest
  BY <1>6 DEF NoRequest
<1>9. /\ \A u \in Machines \ {v} : machine'[u] = machine[u]
      /\ machine'[v].live /\ Whole(machine'[v], pool[v], SizeMayBeOld)
  BY <1>1, <1>4, <1>5 DEF Whole
<1>10. DiskKnows(q, machine'[v], pool'[v], pool'[Aside(v)], SizeMayBeOld)
  BY <1>2, <1>6, <1>9 DEF DiskKnows
<1>11. QED
  BY <1>2, <1>3, <1>4, <1>7, <1>8, <1>9, <1>10, DisksGo

\* The row of a machine whose domain is not defined goes, and its disk after it.
LEMMA DefineMachineDisks ==
    ASSUME DiskInv, MInv', UNCHANGED setting, NEW w \in Threads, DefineMachine(w) \/ RemoveNewDisk(w)
    PROVE  DiskInv'
<1>1. TInv /\ request[w] \in RequestState /\ PoolSound(pool, tick) /\ machine \in [Machines -> MachineRow]
  BY DiskOf DEF TInv
<1>2. CASE DefineMachine(w)
  <2>1. Moved(w) /\ pool' = pool /\ request[w].pc = "define_machine"
    BY <1>1, <1>2, DefineMachineTyped
  <2>2. PICK v \in Machines : request[w].machine = v
    BY <1>1, <1>2, DefineMachineTyped
  <2>3. /\ request[w].op \in Changers /\ Elsewhere(pool, pool, v) /\ machine[v].live
        /\ Whole(machine[v], pool[v], SizeMayBeOld)
    BY <2>1, <2>2, ChangerAt DEF DiskKnows
  <2>4. \/ machine' = machine /\ request'[w] = [request[w] EXCEPT !.pc = "size_read"]
        \/ /\ machine' = [machine EXCEPT ![v] = NoMachine]
           /\ request'[w] = [request[w] EXCEPT !.pc = "remove_disk"]
    BY <1>1, <1>2, <2>2, DefineMachineTyped
  <2> DEFINE q == request'[w]
  <2>5. \/ machine' = machine /\ q.pc = "size_read"
        \/ machine' = [machine EXCEPT ![v] = NoMachine] /\ q.pc = "remove_disk"
    BY <1>1, <2>4 DEF RequestState
  <2>6. request'[w] = q
    OBVIOUS
  <2> HIDE DEF q
  <2>7. q # NoRequest
    BY <2>5 DEF NoRequest
  <2>8. \A u \in Machines \ {v} : machine'[u] = machine[u]
    BY <1>1, <2>5
  <2>9. DiskKnows(q, machine'[v], pool'[v], pool'[Aside(v)], SizeMayBeOld)
    <3>1. CASE machine' = machine /\ q.pc = "size_read"
      BY <2>1, <2>3, <3>1 DEF DiskKnows, Whole
    <3>2. CASE machine' = [machine EXCEPT ![v] = NoMachine] /\ q.pc = "remove_disk"
      BY <1>1, <3>2 DEF NoMachine, DiskKnows
    <3>3. QED
      BY <2>5, <3>1, <3>2
  <2>10. Elsewhere(pool, pool', v)
    BY <2>1, <2>3
  <2>11. QED
    BY <2>1, <2>2, <2>3, <2>6, <2>7, <2>8, <2>9, <2>10, DisksGo
<1>3. CASE RemoveNewDisk(w)
  <2>1. /\ Moved(w) /\ machine' = machine /\ request[w].pc = "remove_disk" /\ request'[w] = NoRequest
    BY <1>1, <1>3, RemoveNewDiskTyped DEF OnlyCeph, MachineRowsSame
  <2>2. PICK v \in Machines : request[w].machine = v
    BY <1>1, <1>3, RemoveNewDiskTyped
  <2>3. request[w].op \in Changers /\ Elsewhere(pool, pool, v) /\ ~machine[v].live
    BY <2>1, <2>2, ChangerAt DEF DiskKnows
  <2>4. pool' = Gone(pool, v) \/ pool' = pool
    BY <1>1, <1>3, <2>2, RemoveNewDiskTyped
  <2>5. Elsewhere(pool, pool', v)
    BY <1>1, <2>3, <2>4, OthersElsewhere
  <2>6. QED
    BY <2>1, <2>2, <2>3, <2>5, DisksGo
<1>4. QED
  BY <1>2, <1>3

\* The calls that undo a change of system are not those that fail.
LEMMA UndoWorks ==
    ASSUME DiskInv, NEW w \in Threads, request[w].op = "change_sys_disk"
    PROVE  ~Breaks("remove_image") /\ ~Breaks("rename_image")
<1>1. request[w] # NoRequest
  BY DEF NoRequest
<1>2. "change_sys_disk" \in setting.ops
  BY <1>1 DEF DiskInv, MInv
<1>3. QED
  BY <1>2 DEF DiskInv, DiskSetting, Breaks

\* A disk that takes another's name, which is its own put aside, or the other way
\* round, is still the clone that it was.
LEMMA RenamedWhole ==
    ASSUME NEW p, NEW t, PoolSound(p, t), NEW v \in Machines
    PROVE  /\ \A row : Whole(row, p[v], SizeMayBeOld)
                       => Whole(row, Renamed(p, v, Aside(v))[Aside(v)], SizeMayBeOld)
           /\ Renamed(p, v, Aside(v))[v].size = 0
           /\ \A row : Whole(row, p[Aside(v)], SizeMayBeOld)
                       => Whole(row, Renamed(p, Aside(v), v)[v], SizeMayBeOld)
<1>1. v \in Keys /\ Aside(v) \in Keys /\ v # Aside(v)
  BY Names
<1>2. /\ Renamed(p, v, Aside(v))[v] = NoImage
      /\ Renamed(p, v, Aside(v))[Aside(v)].size = p[v].size
      /\ Renamed(p, v, Aside(v))[Aside(v)].parent = Reparent(p[v].parent, v, Aside(v))
  BY <1>1, RenamedPool
<1>3. /\ Renamed(p, Aside(v), v)[v].size = p[Aside(v)].size
      /\ Renamed(p, Aside(v), v)[v].parent = Reparent(p[Aside(v)].parent, Aside(v), v)
  BY <1>1, RenamedPool
<1>4. Like(p[v], Renamed(p, v, Aside(v))[Aside(v)]) /\ Like(p[Aside(v)], Renamed(p, Aside(v), v)[v])
  BY <1>2, <1>3, RenameFollows DEF Like
<1>5. QED
  BY <1>2, <1>4, LikeClone DEF NoImage

\* The disk is put aside, or is the machine's again.
LEMMA RenameDisks ==
    ASSUME DiskInv, MInv', UNCHANGED setting, NEW w \in Threads, RenameSysDisk(w) \/ RenameBack(w)
    PROVE  DiskInv'
<1>1. TInv /\ request[w] \in RequestState /\ PoolSound(pool, tick) /\ Formed(request[w])
  BY DiskOf
<1>2. CASE RenameSysDisk(w)
  <2>1. Moved(w) /\ machine' = machine /\ request[w].pc = "rename_disk"
    BY <1>1, <1>2, RenameSysDiskTyped DEF OnlyCeph, MachineRowsSame
  <2>2. PICK v \in Machines : request[w].machine = v
    BY <1>1, <1>2, RenameSysDiskTyped
  <2>3. /\ request[w].op \in Changers /\ Elsewhere(pool, pool, v) /\ machine[v].live
        /\ Whole(machine[v], pool[v], SizeMayBeOld)
    BY <2>1, <2>2, ChangerAt DEF DiskKnows
  <2>4. \/ /\ pool' = Renamed(pool, v, Aside(v))
           /\ request'[w] = [request[w] EXCEPT !.pc = "clone_new"]
        \/ pool' = pool /\ request'[w] = NoRequest
    BY <1>1, <1>2, <2>2, RenameSysDiskTyped
  <2>5. CASE pool' = pool /\ request'[w] = NoRequest
    BY <2>1, <2>2, <2>3, <2>5, DisksGo
  <2>6. CASE /\ pool' = Renamed(pool, v, Aside(v))
             /\ request'[w] = [request[w] EXCEPT !.pc = "clone_new"]
    <3> DEFINE q == request'[w]
    <3>1. q.pc = "clone_new" /\ q # NoRequest
      BY <1>1, <2>6 DEF RequestState, NoRequest
    <3>2. request'[w] = q
      OBVIOUS
    <3> HIDE DEF q
    <3>3. Whole(machine[v], pool'[Aside(v)], SizeMayBeOld) /\ pool'[v].size = 0
      BY <1>1, <2>3, <2>6, RenamedWhole
    <3>4. DiskKnows(q, machine'[v], pool'[v], pool'[Aside(v)], SizeMayBeOld)
      BY <2>1, <2>3, <3>1, <3>3 DEF DiskKnows
    <3>5. Elsewhere(pool, pool', v)
      BY <1>1, <2>6, OthersElsewhere
    <3>6. QED
      BY <2>1, <2>2, <2>3, <3>1, <3>2, <3>4, <3>5, DisksGo
  <2>7. QED
    BY <2>4, <2>5, <2>6
<1>3. CASE RenameBack(w)
  <2>1. /\ Moved(w) /\ machine' = machine /\ request[w].pc = "rename_back" /\ request'[w] = NoRequest
    BY <1>1, <1>3, RenameBackTyped DEF OnlyCeph, MachineRowsSame
  <2>2. PICK v \in Machines : request[w].machine = v
    BY <1>1, <1>3, RenameBackTyped
  <2>3. /\ request[w].op \in Changers /\ machine[v].live /\ Whole(machine[v], pool[Aside(v)], SizeMayBeOld)
        /\ pool[v].size = 0
    BY <2>1, <2>2, ChangerAt DEF DiskKnows
  <2>4. ~Breaks("rename_image")
    BY <1>1, <2>1, OpsAt, UndoWorks
  <2>5. image_exists(pool, Aside(v)) /\ ~image_exists(pool, v)
    BY <2>3 DEF Whole, CloneOf, image_exists
  <2>6. pool' = Renamed(pool, Aside(v), v)
    BY <1>1, <1>3, <2>2, <2>4, <2>5, RenameBackTyped
  <2>7. Whole(machine[v], pool'[v], SizeMayBeOld) /\ Elsewhere(pool, pool', v)
    BY <1>1, <2>3, <2>6, RenamedWhole, OthersElsewhere
  <2>8. QED
    BY <2>1, <2>2, <2>3, <2>7, DisksGo
<1>4. QED
  BY <1>2, <1>3

\* The disk of the new system is cloned.
LEMMA CloneNewDisks ==
    ASSUME DiskInv, MInv', UNCHANGED setting, NEW w \in Threads, CloneNewDisk(w)
    PROVE  DiskInv'
<1>1. TInv /\ request[w] \in RequestState /\ PoolSound(pool, tick) /\ pool \in [Keys -> RbdImage]
  BY DiskOf
<1>2. Moved(w) /\ machine' = machine /\ request[w].pc = "clone_new" /\ request[w].image \in Images
  BY <1>1, CloneNewDiskTyped DEF OnlyCeph, MachineRowsSame
<1>3. PICK v \in Machines : request[w].machine = v
  BY <1>1, CloneNewDiskTyped
<1>4. /\ request[w].op \in Changers /\ machine[v].live /\ Whole(machine[v], pool[Aside(v)], SizeMayBeOld)
      /\ pool[v].size = 0 /\ Elsewhere(pool, pool, v) /\ v \in Keys /\ Aside(v) \in Keys \ {v}
  BY <1>2, <1>3, ChangerAt, Names DEF DiskKnows
<1>5. PICK i \in Images : request[w].image = i
  BY <1>2
<1>6. PICK s : request[w].row.snap = s
  OBVIOUS
<1>7. ~image_exists(pool, v)
  BY <1>4 DEF image_exists
<1>8. \/ /\ HasSnap(pool, i, s) /\ pool' = Cloned(pool, i, s, v)
         /\ request'[w] = [request[w] EXCEPT !.pc = "define_new"]
      \/ pool' = pool /\ request'[w] = [request[w] EXCEPT !.pc = "rename_back"]
  BY <1>1, <1>3, <1>5, <1>6, <1>7, CloneNewDiskTyped
<1> DEFINE q == request'[w]
<1>9. /\ q.image = i /\ q.row.snap = s
      /\ \/ HasSnap(pool, i, s) /\ pool' = Cloned(pool, i, s, v) /\ q.pc = "define_new"
         \/ pool' = pool /\ q.pc = "rename_back"
  BY <1>1, <1>5, <1>6, <1>8 DEF RequestState
<1>10. request'[w] = q
  OBVIOUS
<1> HIDE DEF q
<1>11. q # NoRequest
  BY <1>9 DEF NoRequest
<1>12. Elsewhere(pool, pool', v)
  BY <1>1, <1>4, <1>9, OthersElsewhere
<1>13. DiskKnows(q, machine'[v], pool'[v], pool'[Aside(v)], SizeMayBeOld)
  <2>1. CASE HasSnap(pool, i, s) /\ pool' = Cloned(pool, i, s, v) /\ q.pc = "define_new"
    <3>1. i \in Keys
      BY Names
    <3>2. /\ pool'[v].size > 0 /\ pool'[v].parent = <<i, s>> /\ pool'[Aside(v)] = pool[Aside(v)]
          /\ \A x \in 1 .. MaxTick : pool'[v].snaps[x] = 0
      BY <1>1, <1>4, <1>7, <2>1, <3>1, ClonedPool
    <3>3. CloneOf(pool'[v], i, s) /\ Bare(pool'[v])
      BY <3>2 DEF CloneOf, Clones, Bare
    <3>4. QED
      BY <1>2, <1>4, <1>9, <2>1, <3>2, <3>3 DEF DiskKnows
  <2>2. CASE pool' = pool /\ q.pc = "rename_back"
    BY <1>2, <1>4, <2>2 DEF DiskKnows
  <2>3. QED
    BY <1>9, <2>1, <2>2
<1>14. QED
  BY <1>2, <1>3, <1>4, <1>10, <1>11, <1>12, <1>13, DisksGo

\* The domain takes it, and the row; or it is removed.
LEMMA NewDisks ==
    ASSUME DiskInv, MInv', UNCHANGED setting, NEW w \in Threads, DefineNew(w) \/ SaveNew(w) \/ RemoveNew(w)
    PROVE  DiskInv'
<1>1. /\ TInv /\ request[w] \in RequestState /\ PoolSound(pool, tick) /\ Formed(request[w])
      /\ machine \in [Machines -> MachineRow]
  BY DiskOf DEF TInv
<1>2. CASE DefineNew(w)
  <2>1. Moved(w) /\ machine' = machine /\ pool' = pool /\ request[w].pc = "define_new"
    BY <1>1, <1>2, DefineNewTyped DEF OnlyRequest, OnlyCeph, MachineRowsSame, CephSame
  <2>2. PICK v \in Machines : request[w].machine = v
    BY <1>1, <1>2, DefineNewTyped
  <2>3. /\ request[w].op \in Changers /\ Elsewhere(pool, pool, v) /\ machine[v].live
        /\ Whole(machine[v], pool[Aside(v)], SizeMayBeOld) /\ Bare(pool[v])
        /\ CloneOf(pool[v], request[w].image, request[w].row.snap)
    BY <2>1, <2>2, ChangerAt DEF DiskKnows
  <2> DEFINE q == request'[w]
  <2>4. q.pc \in {"save_new", "remove_new"} /\ q.image = request[w].image /\ q.row = request[w].row
    BY <1>1, <1>2, DefineNewTyped DEF RequestState
  <2>5. request'[w] = q
    OBVIOUS
  <2> HIDE DEF q
  <2>6. q # NoRequest
    BY <2>4 DEF NoRequest
  <2>7. DiskKnows(q, machine'[v], pool'[v], pool'[Aside(v)], SizeMayBeOld)
    BY <2>1, <2>3, <2>4 DEF DiskKnows
  <2>8. QED
    BY <2>1, <2>2, <2>3, <2>5, <2>6, <2>7, DisksGo
<1>3. CASE SaveNew(w)
  <2>1. /\ Moved(w) /\ pool' = pool /\ request[w].pc = "save_new"
        /\ request'[w] = [request[w] EXCEPT !.pc = "remount"]
    BY <1>1, <1>3, SaveNewTyped DEF OnlyMachineRow, CephSame
  <2>2. PICK v \in Machines : request[w].machine = v
    BY <1>1, <1>3, SaveNewTyped
  <2>3. /\ request[w].op \in Changers /\ Elsewhere(pool, pool, v) /\ machine[v].live
        /\ CloneOf(pool[v], request[w].image, request[w].row.snap)
    BY <2>1, <2>2, ChangerAt DEF DiskKnows
  <2>4. machine' = [machine EXCEPT ![v] =
                      [machine[v] EXCEPT !.image = request[w].image, !.image_parent = request[w].image,
                                         !.image_snap = request[w].row.snap]]
    BY <1>1, <1>3, <2>2, SaveNewTyped
  <2> DEFINE q == request'[w]
  <2>5. q.pc = "remount"
    BY <1>1, <2>1 DEF RequestState
  <2>6. request'[w] = q
    OBVIOUS
  <2> HIDE DEF q
  <2>7. q # NoRequest
    BY <2>5 DEF NoRequest
  <2>8. machine[v] \in MachineRow
    BY <1>1
  <2>9. /\ \A u \in Machines \ {v} : machine'[u] = machine[u]
        /\ machine'[v].live /\ machine'[v].image_parent = request[w].image
        /\ machine'[v].image_snap = request[w].row.snap
    BY <1>1, <2>3, <2>4, <2>8 DEF MachineRow
  <2>10. DiskKnows(q, machine'[v], pool'[v], pool'[Aside(v)], SizeMayBeOld)
    BY <2>1, <2>3, <2>5, <2>9 DEF DiskKnows
  <2>11. QED
    BY <2>1, <2>2, <2>3, <2>6, <2>7, <2>9, <2>10, DisksGo
<1>4. CASE RemoveNew(w)
  <2>1. /\ Moved(w) /\ machine' = machine /\ request[w].pc = "remove_new"
        /\ request'[w] = [request[w] EXCEPT !.pc = "rename_back"]
    BY <1>1, <1>4, RemoveNewTyped DEF OnlyCeph, MachineRowsSame
  <2>2. PICK v \in Machines : request[w].machine = v
    BY <1>1, <1>4, RemoveNewTyped
  <2>3. /\ request[w].op \in Changers /\ machine[v].live /\ Whole(machine[v], pool[Aside(v)], SizeMayBeOld)
        /\ Bare(pool[v]) /\ v \in Keys /\ Aside(v) \in Keys \ {v}
    BY <2>1, <2>2, ChangerAt, Names DEF DiskKnows
  <2>4. ~Breaks("remove_image") /\ \A s \in 1 .. MaxTick : ~HasSnap(pool, v, s)
    BY <1>1, <2>1, <2>3, OpsAt, UndoWorks DEF Bare, HasSnap
  <2>5. pool' = Gone(pool, v)
    BY <1>1, <1>4, <2>2, <2>4, RemoveNewTyped
  <2> DEFINE q == request'[w]
  <2>6. q.pc = "rename_back"
    BY <1>1, <2>1 DEF RequestState
  <2>7. request'[w] = q
    OBVIOUS
  <2> HIDE DEF q
  <2>8. q # NoRequest
    BY <2>6 DEF NoRequest
  <2>9. pool'[v].size = 0 /\ pool'[Aside(v)] = pool[Aside(v)] /\ Elsewhere(pool, pool', v)
    BY <1>1, <2>3, <2>5, GonePool, OthersElsewhere DEF NoImage
  <2>10. DiskKnows(q, machine'[v], pool'[v], pool'[Aside(v)], SizeMayBeOld)
    BY <2>1, <2>3, <2>6, <2>9 DEF DiskKnows
  <2>11. QED
    BY <2>1, <2>2, <2>3, <2>7, <2>8, <2>9, <2>10, DisksGo
<1>5. QED
  BY <1>2, <1>3, <1>4

\* A request that may end before it has saved the size of a disk leaves a clone.
LEMMA LeftUnsized ==
    ASSUME NEW row, NEW img, CloneOf(img, row.image_parent, row.image_snap),
           Breaks("remount") \/ Breaks("get_size")
    PROVE  Whole(row, img, SizeMayBeOld)
<1>1. SizeMayBeOld
  BY DEF SizeMayBeOld, Breaks
<1>2. QED
  BY <1>1 DEF Whole

\* What else the machine has is put back, the size is read, and the row says what
\* was read.
LEMMA SizeDisks ==
    ASSUME DiskInv, MInv', UNCHANGED setting, NEW w \in Threads,
           RemountDevices(w) \/ ReadSize(w) \/ SaveSize(w)
    PROVE  DiskInv'
<1>1. TInv /\ request[w] \in RequestState /\ machine \in [Machines -> MachineRow]
  BY DiskOf DEF TInv
<1>2. CASE RemountDevices(w) \/ ReadSize(w)
  <2>1. /\ Moved(w) /\ machine' = machine /\ pool' = pool
        /\ request[w].pc \in {"remount", "size_read"} /\ request[w].machine \in Machines
    BY <1>1, <1>2, RemountTyped, ReadSizeTyped DEF OnlyRequest, OnlyCeph, MachineRowsSame, CephSame
  <2>2. PICK v \in Machines : request[w].machine = v
    BY <2>1
  <2>3. /\ request[w].op \in Changers /\ Elsewhere(pool, pool, v) /\ machine[v].live
        /\ CloneOf(pool[v], machine[v].image_parent, machine[v].image_snap)
    BY <2>1, <2>2, ChangerAt DEF DiskKnows
  <2>4. image_exists(pool, v)
    BY <2>3 DEF CloneOf, image_exists
  <2>5. PICK size : pool[v].size = size
    OBVIOUS
  <2>6. \/ request'[w] = [request[w] EXCEPT !.pc = "size_read"]
        \/ request'[w] = [request[w] EXCEPT !.size = size, !.pc = "size_save"]
        \/ request'[w] = NoRequest /\ (Breaks("remount") \/ Breaks("get_size"))
    <3>1. CASE RemountDevices(w)
      BY <1>1, <3>1, RemountTyped
    <3>2. CASE ReadSize(w)
      BY <1>1, <2>2, <2>4, <2>5, <3>2, ReadSizeTyped
    <3>3. QED
      BY <1>2, <3>1, <3>2
  <2>7. Elsewhere(pool, pool', v) /\ (\A u \in Machines \ {v} : machine'[u] = machine[u])
    BY <2>1, <2>3
  <2>8. CASE request'[w] = NoRequest /\ (Breaks("remount") \/ Breaks("get_size"))
    <3>1. Whole(machine'[v], pool'[v], SizeMayBeOld)
      BY <2>1, <2>3, <2>8, LeftUnsized
    <3>2. QED
      BY <2>1, <2>2, <2>3, <2>7, <2>8, <3>1, DisksGo
  <2>9. CASE \/ request'[w] = [request[w] EXCEPT !.pc = "size_read"]
             \/ request'[w] = [request[w] EXCEPT !.size = size, !.pc = "size_save"]
    <3> DEFINE q == request'[w]
    <3>1. q.pc = "size_read" \/ (q.pc = "size_save" /\ q.size = size)
      BY <1>1, <2>9 DEF RequestState
    <3>2. request'[w] = q
      OBVIOUS
    <3> HIDE DEF q
    <3>3. q # NoRequest
      BY <3>1 DEF NoRequest
    <3>4. DiskKnows(q, machine'[v], pool'[v], pool'[Aside(v)], SizeMayBeOld)
      BY <2>1, <2>3, <2>5, <3>1 DEF DiskKnows
    <3>5. QED
      BY <2>1, <2>2, <2>3, <2>7, <3>2, <3>3, <3>4, DisksGo
  <2>10. QED
    BY <2>6, <2>8, <2>9
<1>3. CASE SaveSize(w)
  <2>1. Moved(w) /\ pool' = pool /\ request[w].pc = "size_save" /\ request'[w] = NoRequest
    BY <1>1, <1>3, SaveSizeTyped DEF OnlyMachineRow, CephSame
  <2>2. PICK v \in Machines : request[w].machine = v
    BY <1>1, <1>3, SaveSizeTyped
  <2>3. /\ request[w].op \in Changers /\ Elsewhere(pool, pool, v) /\ machine[v].live
        /\ CloneOf(pool[v], machine[v].image_parent, machine[v].image_snap)
        /\ request[w].size = pool[v].size
    BY <2>1, <2>2, ChangerAt DEF DiskKnows
  <2>4. machine' = [machine EXCEPT ![v] = [machine[v] EXCEPT !.sys_disk_size = pool[v].size]]
    BY <1>1, <1>3, <2>2, <2>3, SaveSizeTyped
  <2>5. machine[v] \in MachineRow
    BY <1>1
  <2>6. /\ machine'[v].sys_disk_size = pool[v].size /\ machine'[v].image_parent = machine[v].image_parent
        /\ machine'[v].image_snap = machine[v].image_snap
        /\ \A u \in Machines \ {v} : machine'[u] = machine[u]
    BY <1>1, <2>4, <2>5 DEF MachineRow
  <2>7. Whole(machine'[v], pool'[v], SizeMayBeOld)
    BY <2>1, <2>3, <2>6 DEF Whole
  <2>8. Elsewhere(pool, pool', v)
    BY <2>1, <2>3
  <2>9. QED
    BY <2>1, <2>2, <2>3, <2>6, <2>7, <2>8, DisksGo
<1>4. QED
  BY <1>2, <1>3

\* The disk of a machine is made larger, or what it was, and stays a clone.
LEMMA SizedDisks ==
    ASSUME DiskInv, MInv', UNCHANGED setting, NEW w \in Threads, ResizeSysDisk(w) \/ RollbackDisk(w)
    PROVE  DiskInv'
<1>1. TInv /\ request[w] \in RequestState /\ PoolSound(pool, tick)
  BY DiskOf
<1>2. Moved(w) /\ machine' = machine /\ request[w].pc \in {"resize", "rollback"}
  BY <1>1, ResizeSysDiskTyped, RollbackDiskTyped DEF OnlyCeph, MachineRowsSame
<1>3. PICK v \in Machines : request[w].machine = v
  BY <1>1, ResizeSysDiskTyped, RollbackDiskTyped
<1>4. /\ request[w].op \in Changers /\ Elsewhere(pool, pool, v) /\ machine[v].live
      /\ Whole(machine[v], pool[v], SizeMayBeOld) /\ v \in Keys
  BY <1>2, <1>3, ChangerAt, Names DEF DiskKnows
<1>5. \/ /\ \E size \in 1 .. MaxSize : pool' = Sized(pool, v, size)
         /\ request'[w] = [request[w] EXCEPT !.pc = "size_read"]
      \/ pool' = pool /\ request'[w] = NoRequest
  BY <1>1, <1>3, ResizeSysDiskTyped, RollbackDiskTyped
<1>6. CASE pool' = pool /\ request'[w] = NoRequest
  BY <1>2, <1>3, <1>4, <1>6, DisksGo
<1>7. CASE /\ \E size \in 1 .. MaxSize : pool' = Sized(pool, v, size)
           /\ request'[w] = [request[w] EXCEPT !.pc = "size_read"]
  <2>1. PICK size \in 1 .. MaxSize : pool' = Sized(pool, v, size)
    BY <1>7
  <2> DEFINE q == request'[w]
  <2>2. q.pc = "size_read"
    BY <1>1, <1>7 DEF RequestState
  <2>3. request'[w] = q
    OBVIOUS
  <2> HIDE DEF q
  <2>4. q # NoRequest
    BY <2>2 DEF NoRequest
  <2>5. pool'[v].size > 0 /\ pool'[v].parent = pool[v].parent
    BY <1>1, <1>4, <2>1, SizedPool
  <2>6. CloneOf(pool'[v], machine[v].image_parent, machine[v].image_snap)
    BY <1>4, <2>5 DEF Whole, CloneOf
  <2>7. DiskKnows(q, machine'[v], pool'[v], pool'[Aside(v)], SizeMayBeOld)
    BY <1>2, <1>4, <2>2, <2>6 DEF DiskKnows
  <2>8. Elsewhere(pool, pool', v) /\ (\A u \in Machines \ {v} : machine'[u] = machine[u])
    BY <1>1, <1>2, <2>1, OthersElsewhere
  <2>9. QED
    BY <1>2, <1>3, <1>4, <2>3, <2>4, <2>7, <2>8, DisksGo
<1>8. QED
  BY <1>5, <1>6, <1>7

\* Where a request that changes the disk of a machine arrives, there is no other.
LEMMA NoOtherChanges ==
    ASSUME DiskInv, MInv', UNCHANGED setting, NEW w \in Threads, Moved(w), NEW v \in Machines,
           request'[w].machine = v, request'[w].op \in Changers \ {"create_machine"}
    PROVE  \A x \in Threads \ {w} : ~Changes(request[x], v)
<1> SUFFICES ASSUME NEW x \in Threads \ {w}, request[x].machine = v, request[x].op \in Changers
             PROVE  FALSE
  BY DEF Changes
<1>1. v # NoOne /\ request'[x] = request[x] /\ setting' = setting
  BY Names DEF Moved
<1>2. NoRequest.op = "none" /\ "none" \notin Changers
  BY DEF NoRequest, Changers
<1>3. request'[w] # NoRequest /\ request'[x] # NoRequest
  BY <1>1, <1>2
<1>4. request'[w].op \in setting.ops /\ request'[x].op \in setting.ops
  BY <1>1, <1>3 DEF MInv
<1>5. {<<request'[w].op, request'[x].op>>, <<request'[x].op, request'[w].op>>} \cap setting.overlaps # {}
  BY <1>1 DEF MInv, Meeting, Meet
<1>6. Apart(setting, Changers \ {"create_machine"}, Changers)
  BY DEF DiskInv, DiskSetting
<1> DEFINE a == request'[w].op
           b == request'[x].op
<1>7. b \in Changers
  BY <1>1
<1> HIDE DEF a, b
<1>8. a \in (Changers \ {"create_machine"}) \cap setting.ops /\ b \in Changers \cap setting.ops
  BY <1>4, <1>7 DEF a, b
<1>9. <<a, b>> \notin setting.overlaps /\ <<b, a>> \notin setting.overlaps
  BY <1>6, <1>8 DEF Apart
<1>10. {<<a, b>>, <<b, a>>} \cap setting.overlaps # {}
  BY <1>1, <1>5 DEF a, b
<1>11. QED
  BY <1>9, <1>10

\* A request that changes the disk of a machine arrives; the disk is whole.
LEMMA ChangerArrives ==
    ASSUME DiskInv, MInv', UNCHANGED <<setting, machine, pool>>, NEW w \in Threads, Moved(w),
           request[w] = NoRequest, NEW v \in Machines, request'[w].machine = v, machine[v].live,
           request'[w].op \in Changers \ {"create_machine"},
           request'[w].pc \in {"rename_disk", "resize", "rollback"}
    PROVE  DiskInv'
<1>1. \A x \in Threads \ {w} : ~Changes(request[x], v)
  BY NoOtherChanges
<1>2. NoRequest.op = "none" /\ "none" \notin Changers
  BY DEF NoRequest, Changers
<1>3. \A u \in Machines : ~Changes(request[w], u)
  BY <1>2 DEF Changes
<1>4. Whole(machine[v], pool[v], SizeMayBeOld)
  BY <1>1, <1>3, DiskOf
<1> DEFINE q == request'[w]
<1>5. q.pc \in {"rename_disk", "resize", "rollback"} /\ q.machine = v /\ q.op \in Changers
  OBVIOUS
<1>6. request'[w] = q
  OBVIOUS
<1> HIDE DEF q
<1>7. Changes(q, v) /\ \A u \in Machines \ {v} : ~Changes(q, u)
  BY <1>5 DEF Changes
<1>8. DiskKnows(q, machine'[v], pool'[v], pool'[Aside(v)], SizeMayBeOld)
  BY <1>4, <1>5 DEF DiskKnows
<1>9. PoolSound(pool, tick)
  BY DiskOf
<1>10. Elsewhere(pool, pool', v)
  BY <1>9, OthersElsewhere
<1>11. QED
  BY <1>1, <1>3, <1>6, <1>7, <1>8, <1>10, DisksMove

\* A machine is made; its row is not in the list yet.
LEMMA CreateMachineDisks ==
    ASSUME DiskInv, MInv', UNCHANGED setting, NEW w \in Threads, NEW v \in Machines, NEW i \in Images,
           NEW size \in 1 .. MaxSize, CreateMachine(w, v, i, size)
    PROVE  DiskInv'
<1>1. TInv /\ request[w] \in RequestState /\ PoolSound(pool, tick) /\ request \in [Threads -> RequestState]
  BY DiskOf DEF TInv
<1>2. Moved(w) /\ machine' = machine /\ pool' = pool /\ request[w] = NoRequest
  BY <1>1, CreateMachineTyped DEF OnlyRequest, OnlyCeph, MachineRowsSame, CephSame
<1>3. ~machine[v].live /\ Engaged(NoOne, v) = {}
  BY DEF CreateMachine
<1>4. v # NoOne
  BY Names
<1>5. \A x \in Threads : ~Changes(request[x], v)
  BY <1>3, <1>4 DEF Engaged, Changes
<1> DEFINE q == request'[w]
<1>6. q.op = "create_machine" /\ q.machine = v /\ q.pc = "clone_disk"
  BY <1>1 DEF CreateMachine, NoRequest
<1>7. request'[w] = q
  OBVIOUS
<1> HIDE DEF q
<1>8. Changes(q, v) /\ \A u \in Machines \ {v} : ~Changes(q, u)
  BY <1>6 DEF Changes, Changers
<1>9. DiskKnows(q, machine'[v], pool'[v], pool'[Aside(v)], SizeMayBeOld)
  BY <1>2, <1>3, <1>6 DEF DiskKnows
<1>10. NoRequest.op = "none" /\ "none" \notin Changers
  BY DEF NoRequest, Changers
<1>11. \A u \in Machines : ~Changes(request[w], u)
  BY <1>2, <1>10 DEF Changes
<1>12. Elsewhere(pool, pool', v) /\ \A u \in Machines \ {v} : machine'[u] = machine[u]
  BY <1>1, <1>2, OthersElsewhere
<1>13. QED
  BY <1>2, <1>5, <1>7, <1>8, <1>9, <1>11, <1>12, DisksMove

\* The others find the disk of the machine whole.
LEMMA ChangersArrive ==
    ASSUME DiskInv, MInv', UNCHANGED setting, NEW w \in Threads, NEW v \in Machines,
           \/ \E i \in Images : ChangeSysDisk(w, v, i)
           \/ \E size \in 1 .. MaxSize : ExpandSysDisk(w, v, size)
           \/ \E s \in 1 .. MaxTick : AboutSysSnap(w, "rollback", v, s)
    PROVE  DiskInv'
<1>1. TInv /\ request \in [Threads -> RequestState]
  BY DiskOf DEF TInv
<1>2. ASSUME NEW i \in Images, ChangeSysDisk(w, v, i)
      PROVE  DiskInv'
  <2>1. /\ Moved(w) /\ machine' = machine /\ pool' = pool /\ request[w] = NoRequest /\ machine[v].live
    BY <1>1, <1>2, ChangeSysDiskTyped DEF OnlyMachineRow, CephSame
  <2>2. Receive(w, "change_sys_disk", i, v, "rename_disk")
    BY <1>2 DEF ChangeSysDisk
  <2>3. request'[w].op = "change_sys_disk" /\ request'[w].machine = v /\ request'[w].pc = "rename_disk"
    BY <1>1, <2>2, ReceivedIs
  <2>4. request'[w].op \in Changers \ {"create_machine"}
    BY <2>3 DEF Changers
  <2>5. QED
    BY <2>1, <2>3, <2>4, ChangerArrives
<1>3. ASSUME NEW size \in 1 .. MaxSize, ExpandSysDisk(w, v, size)
      PROVE  DiskInv'
  <2>1. /\ Moved(w) /\ machine' = machine /\ pool' = pool /\ request[w] = NoRequest /\ machine[v].live
    BY <1>1, <1>3, ExpandSysDiskTyped DEF OnlyRequest, OnlyCeph, MachineRowsSame, CephSame
  <2>2. request'[w].op = "sys_disk_expand" /\ request'[w].machine = v /\ request'[w].pc = "resize"
    BY <1>1, <1>3 DEF ExpandSysDisk, NoRequest
  <2>3. request'[w].op \in Changers \ {"create_machine"}
    BY <2>2 DEF Changers
  <2>4. QED
    BY <2>1, <2>2, <2>3, ChangerArrives
<1>4. ASSUME NEW s \in 1 .. MaxTick, AboutSysSnap(w, "rollback", v, s)
      PROVE  DiskInv'
  <2>1. /\ Moved(w) /\ machine' = machine /\ pool' = pool /\ request[w] = NoRequest /\ machine[v].live
    BY <1>1, <1>4, AboutSysSnapTyped DEF OnlyRequest, OnlyCeph, MachineRowsSame, CephSame
  <2>2. request'[w].op = "rollback" /\ request'[w].machine = v /\ request'[w].pc = "rollback"
    BY <1>1, <1>4 DEF AboutSysSnap, NoRequest
  <2>3. request'[w].op \in Changers \ {"create_machine"}
    BY <2>2 DEF Changers
  <2>4. QED
    BY <2>1, <2>2, <2>3, ChangerArrives
<1>5. QED
  BY <1>2, <1>3, <1>4

\* Every step of a request about a machine keeps it.
LEMMA MachineStepDisks ==
    ASSUME DiskInv, MInv', UNCHANGED setting, NEW w \in Threads, MachineStep(w)
    PROVE  DiskInv'
<1>1. CASE CloneDisk(w) \/ ResizeNewDisk(w) \/ SaveMachine(w) \/ DefineMachine(w) \/ RemoveNewDisk(w)
  BY <1>1, CloneDisks, ResizeNewDisks, SaveMachineDisks, DefineMachineDisks
<1>2. CASE \/ RenameSysDisk(w) \/ CloneNewDisk(w) \/ DefineNew(w) \/ SaveNew(w) \/ RemoveNew(w)
           \/ RenameBack(w)
  BY <1>2, RenameDisks, CloneNewDisks, NewDisks
<1>3. CASE \/ RemountDevices(w) \/ ReadSize(w) \/ SaveSize(w)
           \/ ResizeSysDisk(w) \/ RollbackDisk(w)
  BY <1>3, SizeDisks, SizedDisks
<1>4. CASE TakeSysSnap(w) \/ SaveSysSnap(w) \/ RemoveSysSnap(w) \/ DeleteSysSnapRow(w)
  BY <1>4, SysSnapDisks
<1>5. CASE ReleaseGoesOn(w)
  BY <1>5, ReleaseDisks
<1>6. ASSUME NEW v \in Machines,
             \/ MachinePower(w, v) \/ CreateSysSnap(w, v) \/ \E i \in Images : ReleaseImage(w, v, i)
      PROVE  DiskInv'
  BY <1>6, OthersArrive
<1>7. ASSUME NEW v \in Machines,
             \/ \E size \in 1 .. MaxSize : ExpandSysDisk(w, v, size)
             \/ \E i \in Images : ChangeSysDisk(w, v, i)
      PROVE  DiskInv'
  BY <1>7, ChangersArrive
<1>8. ASSUME NEW v \in Machines, NEW i \in Images, NEW size \in 1 .. MaxSize, CreateMachine(w, v, i, size)
      PROVE  DiskInv'
  BY <1>8, CreateMachineDisks
<1>9. ASSUME NEW v \in Machines, NEW op, NEW s \in 1 .. MaxTick, AboutSysSnap(w, op, v, s)
      PROVE  DiskInv'
  BY <1>9, OthersArrive, ChangersArrive DEF AboutSysSnap
<1>10. ASSUME NEW v \in Machines,
              \/ MachinePower(w, v) \/ CreateSysSnap(w, v)
              \/ \E size \in 1 .. MaxSize :
                   \/ ExpandSysDisk(w, v, size)
                   \/ \E i \in Images : CreateMachine(w, v, i, size)
              \/ \E i \in Images : ChangeSysDisk(w, v, i) \/ ReleaseImage(w, v, i)
              \/ \E op \in ImageOps, s \in 1 .. MaxTick : AboutSysSnap(w, op, v, s)
       PROVE  DiskInv'
  BY <1>6, <1>7, <1>8, <1>9, <1>10
<1>11. QED
  BY <1>1, <1>2, <1>3, <1>4, <1>5, <1>10 DEF MachineStep, ReleaseGoesOn

\* So does every step of the system, and none.
LEMMA StepDisks ==
    ASSUME DiskInv, [ImagesNext]_imageVars
    PROVE  DiskInv'
<1>1. MInv
  BY DEF DiskInv
<1>2. CASE ImagesNext
  <2>1. MInv' /\ UNCHANGED setting
    BY <1>1, <1>2, StepMeeting DEF ImagesNext
  <2>2. PICK w \in Threads : ImageStep(w) \/ MachineStep(w)
    BY <1>2 DEF ImagesNext
  <2>3. QED
    BY <2>1, <2>2, ImageDisks, MachineStepDisks
<1>3. CASE UNCHANGED imageVars
  BY <1>1, <1>3, StutterMeeting, OldStays DEF imageVars, DiskInv, Disks
<1>4. QED
  BY <1>2, <1>3

\* At the start the machine has its disk.
LEMMA InitDisks ==
    ASSUME ImagesInit, DiskSetting(setting)
    PROVE  DiskInv
<1>1. MInv
  BY InitMeeting
<1>2. (\A w \in Threads : request[w] = NoRequest) /\ NoRequest.op = "none" /\ "none" \notin Changers
  BY DEF ImagesInit, NoRequest, Changers
<1>3. \A w \in Threads, v \in Machines : ~Changes(request[w], v)
  BY <1>2 DEF Changes
<1> DEFINE first == CHOOSE i \in Images : TRUE
           made == CHOOSE v \in Machines : TRUE
<1>4. /\ machine = [u \in Machines |->
                        IF u = made THEN [live |-> TRUE, image |-> first, image_parent |-> first,
                                          image_snap |-> 1, sys_disk_size |-> 1]
                        ELSE NoMachine]
      /\ pool = [EmptyPool EXCEPT
                   ![first] = [NoImage EXCEPT !.size = 1, !.snaps[1] = 1, !.protected = {1}],
                   ![made] = [NoImage EXCEPT !.size = 1, !.parent = <<first, 1>>]]
  BY DEF ImagesInit
<1>5. made \in Machines /\ first \in Images
  BY ImageAssumption
<1> HIDE DEF first, made
<1>6. ASSUME NEW v \in Machines, machine[v].live
      PROVE  v = made
  BY <1>4, <1>6 DEF NoMachine
<1>7. Whole(machine[made], pool[made], SizeMayBeOld)
  BY <1>4, <1>5, Names DEF EmptyPool, NoImage, Whole, CloneOf, Clones
<1>8. Disks
  BY <1>3, <1>6, <1>7 DEF Disks
<1>9. QED
  BY <1>1, <1>8 DEF DiskInv

\* What is known of the disks of machines is what has to hold of them.
LEMMA DisksHeld ==
    ASSUME DiskInv
    PROVE  DiskOfMachine
<1>1. ASSUME NEW v \in Machines, machine[v].live, \A w \in Threads : request[w].machine # v
      PROVE  Whole(machine[v], pool[v], SizeMayBeOld)
  BY <1>1 DEF DiskInv, Disks, Changes
<1>2. QED
  BY <1>1 DEF DiskOfMachine, Whole, CloneOf, Clones, image_exists

\* A machine that no request is at work on has its disk, of the size its row
\* says, where no reading of it fails (SizeMayBeOld), and cloned from the image
\* and the snapshot its row says, wherever that image was put since; for every
\* number of images, machines and threads and whatever calls of ceph and libvirt
\* fail, as long as no two requests change the disk of one machine at a time, none
\* takes a snapshot of a disk whose system is being changed, and what undoes such
\* a change (RenameBack, RemoveNew) works.
THEOREM DisksOfMachines ==
    ASSUME \A s \in Settings : DiskSetting(s)
    PROVE  ImagesSpec => []DiskOfMachine
<1>1. ImagesInit => DiskInv
  BY InitDisks DEF ImagesInit
<1>2. DiskInv /\ [ImagesNext]_imageVars => DiskInv'
  BY StepDisks
<1>3. DiskInv => DiskOfMachine
  BY DisksHeld
<1>4. QED
  BY <1>1, <1>2, <1>3, PTL DEF ImagesSpec

-----------------------------------------------------------------------------
(* The snapshots of the disks of machines: that the rows name snapshots    *)
(* which are there, and that the one a release takes, which is protected,  *)
(* goes with it.                                                           *)

\* Requests that make a base image, snap it or put it aside.
Publishing == {"release", "add_image", "snap_update", "delete_image"}

\* No snapshot is taken of a disk whose system is being changed, no two of those
\* requests are about one image when one is a release, and the calls that a
\* release does not make up for do not fail.
SysSnapSetting(s) ==
    /\ Apart(s, {"change_sys_disk"}, {"create_sys_snap", "release"})
    /\ Apart(s, {"release"}, Publishing)
    /\ "release" \in s.ops => {"clone", "remove_snap", "remove_image"} \cap s.failing = {}

\* Requests that have taken a snapshot of the disk, and that have a clone of it.
Holding == {"sys_snap_save", "rel_clone", "rel_flatten", "rel_remove", "rel_unsnap", "rel_unsnap_failed"}

Holds(q) == q.pc \in Holding

Copying(q) == q.pc \in {"rel_flatten", "rel_remove"}

\* Requests about a snapshot.
Cites(q) == Holds(q) \/ q.op = "delete_sys_snap"

\* What keeps a snapshot protected, what is cloned from it, and what is about to
\* delete its row.
Guards(q, v, s) == q.machine = v /\ q.snap = s /\ q.pc \in Holding \ {"sys_snap_save"}

Copies(q, v, s, c) == Copying(q) /\ q.machine = v /\ q.snap = s /\ q.image = c

Drops(q, v, s) == q.pc = "snap_rowdel" /\ q.machine = v /\ q.snap = s

\* What a request knows of the rows of snapshots, the time and the pool.
SysSnapKnows(q, rows, t, p) ==
    /\ Cites(q) => q.snap \in 1 .. t
    /\ Holds(q) => rows[q.snap] = NoOne
    /\ q.pc \in {"sys_snap_save", "rel_clone"} => HasSnap(p, q.machine, q.snap)
    /\ q.pc = "rel_clone" => q.snap \in p[q.machine].protected
    /\ q.pc \in {"rel_snap", "rel_clone"} => ~image_exists(p, q.image)
    /\ Copying(q) => Bare(p[q.image])
    /\ q.op = "change_sys_disk" => \A s \in 1 .. MaxTick : rows[s] # q.machine

SysSnaps ==
    /\ \A w \in Threads : SysSnapKnows(request[w], snaprow, tick, pool)
    /\ \A w, x \in Threads :
          w # x /\ Holds(request[w]) /\ Cites(request[x]) => request[w].snap # request[x].snap
    /\ \A s \in 1 .. MaxTick : snaprow[s] # NoOne =>
          /\ s <= tick
          /\ HasSnap(pool, snaprow[s], s) \/ \E w \in Threads : Drops(request[w], snaprow[s], s)
    /\ \A v \in Machines :
          /\ pool[Aside(v)].protected = {}
          /\ \A s \in pool[v].protected : \E w \in Threads : Guards(request[w], v, s)
    /\ \A c \in Keys, v \in Machines, s \in 1 .. MaxTick :
          /\ pool[c].parent # <<Aside(v), s>>
          /\ pool[c].parent = <<v, s>> => \E w \in Threads : Copies(request[w], v, s, c)

SysSnapInv == MInv /\ SysSnapSetting(setting) /\ SysSnaps

\* A snapshot that is no longer there, or no longer protected.
Loses(p, q, v, s) ==
    \/ HasSnap(p, v, s) /\ ~HasSnap(q, v, s)
    \/ s \in p[v].protected /\ s \notin q[v].protected

\* A base image that is not there, or has no snapshot, is so still.
Fresh(p, q, i) ==
    (~image_exists(p, i) => ~image_exists(q, i)) /\ (Bare(p[i]) => Bare(q[i]))

\* What is known of requests and snapshots of disks.
LEMMA SysSnapOf ==
    ASSUME SysSnapInv, NEW w \in Threads
    PROVE  /\ TInv /\ MInv /\ Formed(request[w]) /\ request[w] \in RequestState
           /\ PoolSound(pool, tick) /\ pool \in [Keys -> RbdImage] /\ tick \in Nat
           /\ snaprow \in [1 .. MaxTick -> Machines \cup {NoOne}]
           /\ SysSnapKnows(request[w], snaprow, tick, pool)
           /\ Holds(request[w]) => request[w].op \in {"create_sys_snap", "release"} /\ request[w].machine \in Machines
           /\ request[w].pc \in {"rel_snap"} \cup (Holding \ {"sys_snap_save"})
              => request[w].op = "release" /\ request[w].image \in Images
<1>1. /\ TInv /\ MInv /\ Formed(request[w]) /\ request[w] \in RequestState
      /\ PoolSound(pool, tick) /\ pool \in [Keys -> RbdImage] /\ tick \in Nat
      /\ snaprow \in [1 .. MaxTick -> Machines \cup {NoOne}]
      /\ SysSnapKnows(request[w], snaprow, tick, pool)
  BY RbdAssumption DEF SysSnapInv, SysSnaps, MInv, TInv, PoolSound
<1>2. Holds(request[w]) => request[w].op \in {"create_sys_snap", "release"} /\ request[w].pc # "idle"
  BY <1>1, OpsAt DEF Holds, Holding
<1>3. request[w].pc \in {"rel_snap"} \cup (Holding \ {"sys_snap_save"})
      => request[w].op = "release" /\ request[w].pc # "idle"
  BY <1>1, OpsAt DEF Holding
<1>4. Holds(request[w]) => request[w].machine \in Machines
  BY <1>1, <1>2, AboutAt DEF ImageOnly
<1>5. request[w].op = "release" /\ request[w].pc # "idle" => request[w].image \in Images
  BY <1>1, AboutAt DEF MachineOnly
<1>6. QED
  BY <1>1, <1>2, <1>3, <1>4, <1>5

\* Requests that do not meet.
LEMMA SnapsApart ==
    ASSUME SysSnapInv, NEW w \in Threads, NEW x \in Threads, w # x
    PROVE  /\ ~(/\ request[w].op = "change_sys_disk" /\ request[x].op \in {"create_sys_snap", "release"}
                /\ request[x].machine \in Machines /\ request[w].machine = request[x].machine)
           /\ ~(/\ request[w].op \in Publishing /\ request[x].op = "release"
                /\ request[x].image \in Images /\ request[w].image = request[x].image)
<1> DEFINE a == request[w].op
           b == request[x].op
<1>1. NoRequest.op = "none"
  BY DEF NoRequest
<1>2. a # "none" => a \in setting.ops
  BY <1>1 DEF SysSnapInv, MInv
<1>3. b # "none" => b \in setting.ops
  BY <1>1 DEF SysSnapInv, MInv
<1>4. Meet(a, b) => <<a, b>> \in setting.overlaps \/ <<b, a>> \in setting.overlaps
  BY DEF Meet
<1>5. ASSUME a = "change_sys_disk", b \in {"create_sys_snap", "release"},
             request[x].machine \in Machines, request[w].machine = request[x].machine
      PROVE  FALSE
  BY <1>2, <1>3, <1>4, <1>5, Names DEF SysSnapInv, MInv, Meeting, SysSnapSetting, Apart
<1>6. ASSUME a \in Publishing, b = "release", request[x].image \in Images, request[w].image = request[x].image
      PROVE  FALSE
  BY <1>2, <1>3, <1>4, <1>6, Names DEF Publishing, SysSnapInv, MInv, Meeting, SysSnapSetting, Apart
<1>7. QED
  BY <1>5, <1>6

\* What another request knows stays so when no snapshot goes but the one that a
\* request is about, or those of a disk whose system it changes.
LEMMA OthersKnowSnaps ==
    ASSUME SysSnapInv, NEW t \in Nat, tick <= t, NEW p, NEW w \in Threads, NEW x \in Threads, x # w,
           \A v \in Machines, s \in 1 .. MaxTick :
              Loses(pool, p, v, s)
              => /\ request[w].machine = v
                 /\ request[w].op = "change_sys_disk" \/ (Cites(request[w]) /\ request[w].snap = s),
           \A i \in Images : \/ Fresh(pool, p, i)
                             \/ request[w].op \in Publishing /\ request[w].image = i
    PROVE  SysSnapKnows(request[x], snaprow, t, p)
<1> DEFINE q == request[x]
<1>1. /\ SysSnapKnows(q, snaprow, tick, pool) /\ tick \in Nat /\ PoolSound(pool, tick)
      /\ Holds(q) => q.op \in {"create_sys_snap", "release"} /\ q.machine \in Machines
      /\ q.pc \in {"rel_snap"} \cup (Holding \ {"sys_snap_save"}) => q.op = "release" /\ q.image \in Images
  BY SysSnapOf
<1>2. Holds(q) /\ q.snap \in 1 .. MaxTick => ~Loses(pool, p, q.machine, q.snap)
  BY <1>1, SnapsApart DEF SysSnapInv, SysSnaps
<1>3. q.pc \in {"rel_snap", "rel_clone", "rel_flatten", "rel_remove"} => Fresh(pool, p, q.image)
  <2>1. ASSUME q.pc \in {"rel_snap", "rel_clone", "rel_flatten", "rel_remove"}
        PROVE  q.op = "release" /\ q.image \in Images
    BY <1>1, <2>1 DEF Holding
  <2>2. QED
    BY <2>1, SnapsApart
<1>4. q.pc \in {"sys_snap_save", "rel_clone"} => HasSnap(p, q.machine, q.snap)
  BY <1>1, <1>2 DEF SysSnapKnows, Holds, Holding, Loses, HasSnap
<1>5. q.pc = "rel_clone" => q.snap \in p[q.machine].protected
  BY <1>1, <1>2 DEF SysSnapKnows, Holds, Holding, Loses, HasSnap
<1>6. /\ q.pc \in {"rel_snap", "rel_clone"} => ~image_exists(p, q.image)
      /\ Copying(q) => Bare(p[q.image])
  BY <1>1, <1>3 DEF SysSnapKnows, Copying, Fresh
<1>7. Cites(q) => q.snap \in 1 .. t
  BY <1>1 DEF SysSnapKnows
<1>8. QED
  BY <1>1, <1>4, <1>5, <1>6, <1>7 DEF SysSnapKnows

\* What a step of one request leaves true of all, as long as it writes no row of
\* a snapshot.
LEMMA SysSnapsMove ==
    ASSUME SysSnapInv, MInv', UNCHANGED <<setting, snaprow>>, NEW w \in Threads,
           \A x \in Threads \ {w} : request'[x] = request[x], tick <= tick',
           SysSnapKnows(request'[w], snaprow, tick', pool'), request[w].pc # "snap_rowdel",
           \A x \in Threads \ {w} :
              (Holds(request[x]) /\ Cites(request'[w])) \/ (Cites(request[x]) /\ Holds(request'[w]))
              => request'[w].snap # request[x].snap,
           \A v \in Machines, s \in 1 .. MaxTick :
              Loses(pool, pool', v, s)
              => /\ request[w].machine = v
                 /\ \/ request[w].op = "change_sys_disk"
                    \/ /\ Cites(request[w]) /\ request[w].snap = s
                       /\ Holds(request[w]) \/ Drops(request'[w], v, s),
           \A i \in Images : \/ Fresh(pool, pool', i)
                             \/ request[w].op \in Publishing /\ request[w].image = i,
           \A v \in Machines :
              /\ pool'[Aside(v)].protected = {}
              /\ \A s \in pool'[v].protected : s \in pool[v].protected \/ Guards(request'[w], v, s)
              /\ \A s \in pool'[v].protected : Guards(request[w], v, s) => Guards(request'[w], v, s),
           \A c \in Keys, v \in Machines, s \in 1 .. MaxTick :
              /\ pool'[c].parent # <<Aside(v), s>>
              /\ pool'[c].parent = <<v, s>>
                 => (pool[c].parent = <<v, s>> /\ ~Copies(request[w], v, s, c)) \/ Copies(request'[w], v, s, c)
    PROVE  SysSnapInv'
<1>1. /\ snaprow' = snaprow /\ tick \in Nat /\ tick' \in Nat
      /\ snaprow \in [1 .. MaxTick -> Machines \cup {NoOne}]
  BY SysSnapOf DEF MInv, TInv
<1>2. ASSUME NEW x \in Threads
      PROVE  SysSnapKnows(request'[x], snaprow', tick', pool')
  <2>1. CASE x = w
    BY <1>1, <2>1
  <2>2. CASE x # w
    <3>1. \A v \in Machines, s \in 1 .. MaxTick :
             Loses(pool, pool', v, s)
             => /\ request[w].machine = v
                /\ request[w].op = "change_sys_disk" \/ (Cites(request[w]) /\ request[w].snap = s)
      OBVIOUS
    <3>2. \A i \in Images : \/ Fresh(pool, pool', i)
                            \/ request[w].op \in Publishing /\ request[w].image = i
      OBVIOUS
    <3>3. SysSnapKnows(request[x], snaprow, tick', pool')
      BY <1>1, <2>2, <3>1, <3>2, OthersKnowSnaps
    <3>4. QED
      BY <1>1, <2>2, <3>3
  <2>3. QED
    BY <2>1, <2>2
<1>3. ASSUME NEW x \in Threads, NEW y \in Threads, x # y, Holds(request'[x]), Cites(request'[y])
      PROVE  request'[x].snap # request'[y].snap
  BY <1>3 DEF SysSnapInv, SysSnaps
<1>4. ASSUME NEW s \in 1 .. MaxTick, snaprow[s] # NoOne
      PROVE  /\ s <= tick'
             /\ HasSnap(pool', snaprow[s], s) \/ \E x \in Threads : Drops(request'[x], snaprow[s], s)
  <2>1. /\ s <= tick /\ snaprow[s] \in Machines
        /\ HasSnap(pool, snaprow[s], s) \/ \E x \in Threads : Drops(request[x], snaprow[s], s)
    BY <1>1, <1>4 DEF SysSnapInv, SysSnaps
  <2>2. s <= tick'
    BY <1>1, <2>1
  <2>3. CASE \E x \in Threads : Drops(request[x], snaprow[s], s)
    <3>1. PICK x \in Threads : Drops(request[x], snaprow[s], s)
      BY <2>3
    <3>2. x # w
      BY <3>1 DEF Drops
    <3>3. QED
      BY <2>2, <3>1, <3>2
  <2>4. CASE HasSnap(pool, snaprow[s], s) /\ ~HasSnap(pool', snaprow[s], s)
    BY <1>4, <2>1, <2>2, <2>4, SysSnapOf DEF Loses, SysSnapKnows
  <2>5. QED
    BY <2>1, <2>2, <2>3, <2>4
<1>5. ASSUME NEW v \in Machines
      PROVE  /\ pool'[Aside(v)].protected = {}
             /\ \A s \in pool'[v].protected : \E x \in Threads : Guards(request'[x], v, s)
  <2>1. ASSUME NEW s \in pool'[v].protected, s \in pool[v].protected
        PROVE  \E x \in Threads : Guards(request'[x], v, s)
    <3>1. PICK x \in Threads : Guards(request[x], v, s)
      BY <2>1 DEF SysSnapInv, SysSnaps
    <3>2. Guards(request'[x], v, s)
      BY <3>1
    <3>3. QED
      BY <3>2
  <2>2. QED
    BY <2>1
<1>6. ASSUME NEW c \in Keys, NEW v \in Machines, NEW s \in 1 .. MaxTick
      PROVE  /\ pool'[c].parent # <<Aside(v), s>>
             /\ pool'[c].parent = <<v, s>> => \E x \in Threads : Copies(request'[x], v, s, c)
  <2>1. ASSUME pool[c].parent = <<v, s>>, ~Copies(request[w], v, s, c)
        PROVE  \E x \in Threads : Copies(request'[x], v, s, c)
    <3>1. PICK x \in Threads : Copies(request[x], v, s, c)
      BY <2>1 DEF SysSnapInv, SysSnaps
    <3>2. QED
      BY <2>1, <3>1
  <2>2. QED
    BY <2>1
<1>7. SysSnaps'
  BY <1>1, <1>2, <1>3, <1>4, <1>5, <1>6 DEF SysSnaps
<1>8. QED
  BY <1>7 DEF SysSnapInv

\* Requests that are not about a snapshot, nor know that a base image is not there.
Plain(q) == ~Cites(q) /\ q.pc # "rel_snap"

\* A request of another kind is that.
LEMMA PlainKinds ==
    ASSUME NEW q, Formed(q), q.op \notin {"create_sys_snap", "delete_sys_snap", "release"}
    PROVE  Plain(q)
  BY OpsAt DEF Plain, Cites, Holds, Holding

\* Such a request goes on, arrives or ends, and takes no snapshot from a disk but
\* when it changes its system.
LEMMA SysSnapsCalm ==
    ASSUME SysSnapInv, MInv', UNCHANGED <<setting, snaprow>>, NEW w \in Threads,
           \A x \in Threads \ {w} : request'[x] = request[x], tick <= tick',
           Plain(request[w]), Plain(request'[w]),
           request'[w].op = "change_sys_disk"
           => request[w].op = "change_sys_disk" /\ request'[w].machine = request[w].machine,
           \A v \in Machines, s \in 1 .. MaxTick :
              Loses(pool, pool', v, s) => request[w].machine = v /\ request[w].op = "change_sys_disk",
           \A i \in Images : \/ Fresh(pool, pool', i)
                             \/ request[w].op \in Publishing /\ request[w].image = i,
           \A v \in Machines :
              pool'[Aside(v)].protected = {} /\ pool'[v].protected \subseteq pool[v].protected,
           \A c \in Keys, v \in Machines, s \in 1 .. MaxTick :
              /\ pool'[c].parent # <<Aside(v), s>>
              /\ pool'[c].parent = <<v, s>> => pool[c].parent = <<v, s>>
    PROVE  SysSnapInv'
<1>1. /\ Formed(request[w]) /\ SysSnapKnows(request[w], snaprow, tick, pool)
  BY SysSnapOf
<1>2. ~Cites(request[w]) /\ ~Cites(request'[w]) /\ ~Holds(request[w]) /\ ~Holds(request'[w])
      /\ request'[w].pc # "rel_snap"
  BY DEF Plain, Cites
<1>3. request[w].pc # "snap_rowdel"
  BY <1>1, <1>2, OpsAt DEF Cites
<1>4. \A v, s, c : ~Guards(request[w], v, s) /\ ~Copies(request[w], v, s, c)
  BY <1>2 DEF Guards, Copies, Copying, Holds, Holding
<1>5. SysSnapKnows(request'[w], snaprow, tick', pool')
  <2> DEFINE q == request'[w]
  <2>1. ~Cites(q) /\ ~Holds(q) /\ q.pc \notin {"sys_snap_save", "rel_clone", "rel_snap"} /\ ~Copying(q)
    BY <1>2 DEF Holds, Holding, Copying
  <2>2. q.op = "change_sys_disk" => \A s \in 1 .. MaxTick : snaprow[s] # q.machine
    BY <1>1 DEF SysSnapKnows
  <2> HIDE DEF q
  <2>3. SysSnapKnows(q, snaprow, tick', pool')
    BY <2>1, <2>2 DEF SysSnapKnows
  <2>4. QED
    BY <2>3 DEF q
<1>6. \A v \in Machines, s \in 1 .. MaxTick :
         Loses(pool, pool', v, s)
         => /\ request[w].machine = v
            /\ \/ request[w].op = "change_sys_disk"
               \/ /\ Cites(request[w]) /\ request[w].snap = s
                  /\ Holds(request[w]) \/ Drops(request'[w], v, s)
  OBVIOUS
<1>7. \A v \in Machines :
         /\ pool'[Aside(v)].protected = {}
         /\ \A s \in pool'[v].protected : s \in pool[v].protected \/ Guards(request'[w], v, s)
         /\ \A s \in pool'[v].protected : Guards(request[w], v, s) => Guards(request'[w], v, s)
  BY <1>4
<1>8. \A c \in Keys, v \in Machines, s \in 1 .. MaxTick :
         /\ pool'[c].parent # <<Aside(v), s>>
         /\ pool'[c].parent = <<v, s>>
            => (pool[c].parent = <<v, s>> /\ ~Copies(request[w], v, s, c)) \/ Copies(request'[w], v, s, c)
  BY <1>4
<1>9. QED
  BY <1>2, <1>3, <1>5, <1>6, <1>7, <1>8, SysSnapsMove

\* What is done to one image loses no snapshot of the disks of the others, nor
\* protects one or clones it.
LEMMA KeySnaps ==
    ASSUME SysSnapInv, NEW p, NEW n \in RbdNames, \A k \in Keys \ {n} : p[k] = pool[k],
           n \in Machines => /\ \A s \in 1 .. MaxTick : HasSnap(pool, n, s) => HasSnap(p, n, s)
                             /\ p[n].protected = pool[n].protected,
           p[n].parent \in {pool[n].parent, NoParent} \cup {<<i, s>> : i \in Images, s \in 1 .. MaxTick}
    PROVE  /\ \A v \in Machines, s \in 1 .. MaxTick : ~Loses(pool, p, v, s)
           /\ \A i \in Images \ {n} : Fresh(pool, p, i)
           /\ \A v \in Machines : p[Aside(v)].protected = {} /\ p[v].protected \subseteq pool[v].protected
           /\ \A c \in Keys, v \in Machines, s \in 1 .. MaxTick :
                 /\ p[c].parent # <<Aside(v), s>>
                 /\ p[c].parent = <<v, s>> => pool[c].parent = <<v, s>>
<1>1. /\ n \in Keys /\ \A v \in Machines : v \in Keys /\ Aside(v) \in Keys \ {n}
      /\ \A i \in Images : i \in Keys /\ i \notin Machines
  BY AsideNames, ImageAssumption, Names
<1>2. ASSUME NEW v \in Machines, NEW s \in 1 .. MaxTick
      PROVE  ~Loses(pool, p, v, s)
  BY <1>1 DEF Loses, HasSnap
<1>3. ASSUME NEW i \in Images \ {n}
      PROVE  Fresh(pool, p, i)
  BY <1>1 DEF Fresh, image_exists
<1>4. ASSUME NEW v \in Machines
      PROVE  p[Aside(v)].protected = {} /\ p[v].protected \subseteq pool[v].protected
  BY <1>1 DEF SysSnapInv, SysSnaps
<1>5. ASSUME NEW c \in Keys, NEW v \in Machines, NEW s \in 1 .. MaxTick
      PROVE  /\ p[c].parent # <<Aside(v), s>>
             /\ p[c].parent = <<v, s>> => pool[c].parent = <<v, s>>
  <2>1. pool[c].parent # <<Aside(v), s>>
    BY DEF SysSnapInv, SysSnaps
  <2>2. CASE p[c].parent = pool[c].parent
    BY <2>1, <2>2
  <2>3. CASE p[c].parent = NoParent
    BY <2>3 DEF NoParent
  <2>4. ASSUME NEW i \in Images, NEW x \in 1 .. MaxTick, p[c].parent = <<i, x>>
        PROVE  p[c].parent # <<Aside(v), s>> /\ p[c].parent # <<v, s>>
    BY <2>4, Names
  <2>5. QED
    BY <2>2, <2>3, <2>4
<1>6. QED
  BY <1>2, <1>3, <1>4, <1>5

\* Such a request does something to the disk of a machine, or to nothing.
LEMMA DiskCalm ==
    ASSUME SysSnapInv, MInv', UNCHANGED <<setting, snaprow>>, NEW w \in Threads,
           \A x \in Threads \ {w} : request'[x] = request[x], tick <= tick',
           Plain(request[w]), Plain(request'[w]),
           request'[w].op = "change_sys_disk"
           => request[w].op = "change_sys_disk" /\ request'[w].machine = request[w].machine,
           NEW v \in Machines, \A k \in Keys \ {v} : pool'[k] = pool[k],
           \A s \in 1 .. MaxTick : HasSnap(pool, v, s) => HasSnap(pool', v, s),
           pool'[v].protected = pool[v].protected,
           pool'[v].parent \in {pool[v].parent, NoParent} \cup {<<i, s>> : i \in Images, s \in 1 .. MaxTick}
    PROVE  SysSnapInv'
<1>1. v \in RbdNames /\ \A i \in Images : i # v
  BY ImageAssumption
<1>2. /\ \A u \in Machines, s \in 1 .. MaxTick : ~Loses(pool, pool', u, s)
      /\ \A i \in Images : Fresh(pool, pool', i)
      /\ \A u \in Machines : pool'[Aside(u)].protected = {} /\ pool'[u].protected \subseteq pool[u].protected
      /\ \A c \in Keys, u \in Machines, s \in 1 .. MaxTick :
            /\ pool'[c].parent # <<Aside(u), s>>
            /\ pool'[c].parent = <<u, s>> => pool[c].parent = <<u, s>>
  BY <1>1, KeySnaps
<1>3. QED
  BY <1>2, SysSnapsCalm

\* Or to a base image.
LEMMA BaseCalm ==
    ASSUME SysSnapInv, MInv', UNCHANGED <<setting, snaprow>>, NEW w \in Threads,
           \A x \in Threads \ {w} : request'[x] = request[x], tick <= tick',
           Plain(request[w]), Plain(request'[w]), request'[w].op # "change_sys_disk",
           NEW i \in Images, request[w].op \in Publishing, request[w].image = i,
           \A k \in Keys \ {i} : pool'[k] = pool[k], pool'[i].parent \in {pool[i].parent, NoParent}
    PROVE  SysSnapInv'
<1>1. i \in RbdNames /\ i \notin Machines
  BY ImageAssumption
<1>2. pool'[i].parent \in {pool[i].parent, NoParent} \cup {<<j, s>> : j \in Images, s \in 1 .. MaxTick}
  OBVIOUS
<1>3. /\ \A u \in Machines, s \in 1 .. MaxTick : ~Loses(pool, pool', u, s)
      /\ \A j \in Images \ {i} : Fresh(pool, pool', j)
      /\ \A u \in Machines : pool'[Aside(u)].protected = {} /\ pool'[u].protected \subseteq pool[u].protected
      /\ \A c \in Keys, u \in Machines, s \in 1 .. MaxTick :
            /\ pool'[c].parent # <<Aside(u), s>>
            /\ pool'[c].parent = <<u, s>> => pool[c].parent = <<u, s>>
  BY <1>1, <1>2, KeySnaps
<1>4. QED
  BY <1>3, SysSnapsCalm

\* A request about an image is none about a snapshot, and the release that adds
\* one is done with its own.
LEMMA ImagePlain ==
    ASSUME TInv, TInv', UNCHANGED setting, NEW w \in Threads, ImageStep(w)
    PROVE  /\ Plain(request[w]) /\ Plain(request'[w]) /\ request'[w].op # "change_sys_disk"
           /\ \A x \in Threads \ {w} : request'[x] = request[x]
<1>1. /\ request[w].op \notin DiskKinds /\ request'[w].op \notin DiskKinds
      /\ \A x \in Threads \ {w} : request'[x] = request[x]
      /\ \/ request[w].op # "release" /\ request'[w].op # "release"
         \/ CreateBaseImage(w) \/ CreateSnap(w) \/ InsertImage(w)
  BY ImageKinds
<1>2. Formed(request[w]) /\ Formed(request'[w]) /\ request \in [Threads -> RequestState]
  BY DEF TInv
<1>3. CASE request[w].op # "release" /\ request'[w].op # "release"
  BY <1>1, <1>2, <1>3, PlainKinds DEF DiskKinds, Changers
<1>4. CASE CreateBaseImage(w) \/ CreateSnap(w) \/ InsertImage(w)
  <2>1. request[w].pc \in {"create_image", "create_snap", "snap_create", "insert"}
    BY <1>4 DEF CreateBaseImage, CreateSnap, InsertImage, InStep
  <2>2. request[w] \in RequestState
    BY <1>2
  <2>3. request'[w].pc \in {"idle", "create_snap", "insert", "save_all"}
    <3>1. NoRequest.pc = "idle"
      BY DEF NoRequest
    <3>2. CASE CreateBaseImage(w)
      BY <2>2, <3>1, <3>2, CreateBaseImageTyped DEF RequestState
    <3>3. CASE CreateSnap(w)
      BY <2>2, <3>1, <3>3, CreateSnapTyped DEF RequestState
    <3>4. CASE InsertImage(w)
      BY <1>2, <3>1, <3>4 DEF InsertImage, To
    <3>5. QED
      BY <1>4, <3>2, <3>3, <3>4
  <2>4. Plain(request[w]) /\ Plain(request'[w])
    BY <1>1, <2>1, <2>3 DEF Plain, Cites, Holds, Holding, DiskKinds
  <2>5. QED
    BY <1>1, <2>4 DEF DiskKinds, Changers
<1>5. QED
  BY <1>1, <1>3, <1>4

\* Every step of a request about an image keeps it.
LEMMA ImageSysSnaps ==
    ASSUME SysSnapInv, MInv', UNCHANGED setting, NEW w \in Threads, ImageStep(w)
    PROVE  SysSnapInv'
<1>1. /\ TInv /\ TInv' /\ Formed(request[w]) /\ PoolSound(pool, tick) /\ tick \in Nat
  BY SysSnapOf DEF MInv
<1>2. /\ Plain(request[w]) /\ Plain(request'[w]) /\ request'[w].op # "change_sys_disk"
      /\ \A x \in Threads \ {w} : request'[x] = request[x]
  BY <1>1, ImagePlain
<1>3. /\ snaprow' = snaprow /\ (tick' = tick \/ CreateSnap(w))
      /\ pool' = pool \/ CreateBaseImage(w) \/ CreateSnap(w) \/ RemoveOldSnap(w) \/ RenameBase(w)
  BY <1>1, ImagesLeave
<1>4. tick <= tick'
  <2>1. CreateSnap(w) => tick' = tick + 1
    BY <1>1, CreateSnapTyped
  <2>2. QED
    BY <1>1, <1>3, <2>1
<1>5. CASE pool' = pool
  <2>1. PICK v \in Machines : TRUE
    BY ImageAssumption
  <2>2. QED
    BY <1>2, <1>3, <1>4, <1>5, DiskCalm
<1>6. CASE CreateBaseImage(w) \/ CreateSnap(w) \/ RemoveOldSnap(w)
  <2>1. request[w].pc \in {"create_image", "create_snap", "snap_create", "snap_remove"}
    BY <1>6 DEF CreateBaseImage, CreateSnap, RemoveOldSnap, InStep
  <2>2. request[w].op \in Publishing /\ request[w].pc # "idle"
    BY <1>1, <2>1, OpsAt DEF Publishing
  <2>3. PICK i \in Images : request[w].image = i
    BY <1>1, <2>2, AboutAt DEF Publishing, MachineOnly
  <2>4. i \in Keys /\ pool \in [Keys -> RbdImage]
    BY <1>1, Names DEF PoolSound
  <2>5. /\ \A k \in Keys \ {i} : pool'[k] = pool[k]
        /\ pool'[i].parent \in {pool[i].parent, NoParent}
    <3>1. CASE pool' = pool
      BY <3>1
    <3>2. CASE pool' = Made(pool, i, 1)
      BY <1>1, <2>4, <3>2, RbdAssumption, MadePool
    <3>3. ASSUME NEW s, pool' = Snapped(pool, i, s) \/ pool' = Protected(pool, i, s)
          PROVE  /\ \A k \in Keys \ {i} : pool'[k] = pool[k]
                 /\ pool'[i].parent \in {pool[i].parent, NoParent}
      BY <2>4, <3>3 DEF Snapped, Protected, RbdImage
    <3>4. ASSUME NEW s, pool' = Unsnapped(pool, i, s) \/ pool' = Unheld(pool, i, s)
          PROVE  /\ \A k \in Keys \ {i} : pool'[k] = pool[k]
                 /\ pool'[i].parent \in {pool[i].parent, NoParent}
      BY <2>4, <3>4 DEF Unsnapped, Unheld, RbdImage
    <3>5. CASE CreateBaseImage(w)
      BY <1>1, <2>3, <3>1, <3>2, <3>5, CreateBaseImageTyped
    <3>6. CASE CreateSnap(w)
      BY <1>1, <2>3, <3>1, <3>3, <3>6, CreateSnapTyped
    <3>7. CASE RemoveOldSnap(w)
      BY <1>1, <2>3, <3>1, <3>4, <3>7, RemoveOldSnapTyped
    <3>8. QED
      BY <1>6, <3>5, <3>6, <3>7
  <2>6. QED
    BY <1>2, <1>3, <1>4, <2>2, <2>3, <2>5, BaseCalm
<1>7. CASE RenameBase(w)
  <2>1. PICK i \in Images : request[w].image = i
    BY <1>1, <1>7, RenameBaseTyped
  <2>2. pool' = pool \/ pool' = Renamed(pool, i, Aside(i))
    BY <1>1, <1>7, <2>1, RenameBaseTyped
  <2>3. CASE pool' = Renamed(pool, i, Aside(i))
    <3>1. request[w].op = "delete_image"
      BY <1>1, <1>7, OpsAt, RenameBaseTyped
    <3>2. /\ i \in Keys /\ Aside(i) \in Keys /\ i # Aside(i)
          /\ \A v \in Machines : /\ v \in Keys \ {i, Aside(i)} /\ Aside(v) \in Keys \ {i, Aside(i)}
      <4>1. i \in Keys /\ Aside(i) \in Keys /\ i # Aside(i)
        BY Names
      <4>2. ASSUME NEW v \in Machines
            PROVE  v \in Keys /\ v # i /\ v # Aside(i) /\ Aside(v) \in Keys /\ Aside(v) # i /\ Aside(v) # Aside(i)
        BY Names, AsideNames
      <4>3. QED
        BY <4>1, <4>2
    <3>3. /\ pool'[i] = NoImage
          /\ \A k \in Keys \ {i, Aside(i)} :
                /\ pool'[k].size = pool[k].size /\ pool'[k].snaps = pool[k].snaps
                /\ pool'[k].protected = pool[k].protected
                /\ pool'[k].parent = Reparent(pool[k].parent, i, Aside(i))
          /\ pool'[Aside(i)].parent = Reparent(pool[i].parent, i, Aside(i))
      BY <1>1, <2>3, <3>2, RenamedPool
    <3>4. \A v \in Machines, s \in 1 .. MaxTick : ~Loses(pool, pool', v, s)
      BY <3>2, <3>3 DEF Loses, HasSnap
    <3>5. \A j \in Images \ {i} : Fresh(pool, pool', j)
      BY <3>3, Names DEF Fresh, image_exists, Bare
    <3>6. ASSUME NEW v \in Machines
          PROVE  pool'[Aside(v)].protected = {} /\ pool'[v].protected \subseteq pool[v].protected
      BY <3>2, <3>3 DEF SysSnapInv, SysSnaps
    <3>7. ASSUME NEW v \in Machines, NEW s \in 1 .. MaxTick
          PROVE  pool[i].parent # <<v, s>>
      <4>1. SUFFICES ASSUME NEW x \in Threads, Copies(request[x], v, s, i)
                     PROVE  FALSE
        BY <3>2 DEF SysSnapInv, SysSnaps
      <4>2. request[x].op = "release" /\ request[x].image = i
        BY <4>1, SysSnapOf DEF Copies, Copying, Holding
      <4>3. QED
        BY <2>1, <3>1, <4>2, SnapsApart DEF Publishing
    <3>8. ASSUME NEW c \in Keys, NEW v \in Machines, NEW s \in 1 .. MaxTick
          PROVE  /\ pool'[c].parent # <<Aside(v), s>>
                 /\ pool'[c].parent = <<v, s>> => pool[c].parent = <<v, s>>
      <4>1. ASSUME NEW parent, parent # <<Aside(v), s>>
            PROVE  /\ Reparent(parent, i, Aside(i)) # <<Aside(v), s>>
                   /\ Reparent(parent, i, Aside(i)) = <<v, s>> => parent = <<v, s>>
        BY <3>2, <4>1 DEF Reparent, NoParent
      <4>2. \A k \in Keys : pool[k].parent # <<Aside(v), s>>
        BY DEF SysSnapInv, SysSnaps
      <4>3. CASE c = i
        BY <3>3, <4>3 DEF NoImage, NoParent
      <4>4. CASE c = Aside(i)
        BY <3>2, <3>3, <3>7, <4>1, <4>2, <4>4
      <4>5. CASE c \in Keys \ {i, Aside(i)}
        BY <3>3, <4>1, <4>2, <4>5
      <4>6. QED
        BY <4>3, <4>4, <4>5
    <3>9. \A j \in Images : Fresh(pool, pool', j) \/ (request[w].op \in Publishing /\ request[w].image = j)
      BY <2>1, <3>1, <3>5 DEF Publishing
    <3>10. QED
      BY <1>2, <1>3, <1>4, <3>4, <3>6, <3>8, <3>9, SysSnapsCalm
  <2>4. QED
    BY <1>5, <2>2, <2>3
<1>8. QED
  BY <1>3, <1>5, <1>6, <1>7

\* A request that changes the disk of a machine is not about a snapshot.
LEMMA ChangerPlain ==
    ASSUME TInv, NEW w \in Threads, Moved(w), request[w].pc # "idle", request[w].op \in Changers
    PROVE  /\ Plain(request[w]) /\ Plain(request'[w])
           /\ request'[w].op = "change_sys_disk"
              => request[w].op = "change_sys_disk" /\ request'[w].machine = request[w].machine
<1>1. NoRequest.op = "none"
  BY DEF NoRequest
<1>2. request'[w].op = "none" \/ (/\ request'[w].op = request[w].op
                                  /\ request'[w].machine = request[w].machine)
  BY <1>1, GoesOn
<1>3. Formed(request[w]) /\ Formed(request'[w])
  BY DEF Moved, TInv
<1>4. request[w].op \notin {"create_sys_snap", "delete_sys_snap", "release", "none"}
  BY DEF Changers
<1>5. QED
  BY <1>2, <1>3, <1>4, PlainKinds

\* A request that changes the disk of a machine goes on.  It makes the disk anew,
\* gives it a size, or removes it, which works where it has no snapshot.
LEMMA ChangerCalm ==
    ASSUME SysSnapInv, MInv', UNCHANGED <<setting, snaprow, tick>>, NEW w \in Threads, Moved(w),
           request[w].pc # "idle", request[w].op \in Changers,
           NEW v \in Machines, request[w].machine = v,
           \/ pool' = pool
           \/ \E i \in Images : \E s : /\ HasSnap(pool, i, s) /\ ~image_exists(pool, v)
                                      /\ pool' = Cloned(pool, i, s, v)
           \/ \E size \in 1 .. MaxSize : pool' = Sized(pool, v, size)
           \/ (\A s \in 1 .. MaxTick : ~HasSnap(pool, v, s)) /\ pool' = Gone(pool, v)
    PROVE  SysSnapInv'
<1>1. /\ PoolSound(pool, tick) /\ tick \in Nat /\ Formed(request[w]) /\ v \in Keys /\ tick <= tick'
      /\ pool[v] \in RbdImage /\ Sound(pool[v], tick)
  BY SysSnapOf, Names DEF PoolSound
<1>2. /\ Plain(request[w]) /\ Plain(request'[w])
      /\ request'[w].op = "change_sys_disk"
         => request[w].op = "change_sys_disk" /\ request'[w].machine = request[w].machine
  BY SysSnapOf, ChangerPlain
<1>3. \A x \in Threads \ {w} : request'[x] = request[x]
  BY DEF Moved
<1>4. \A s \in pool[v].protected : HasSnap(pool, v, s)
  BY <1>1 DEF Sound, RbdImage, HasSnap
<1>5. /\ \A k \in Keys \ {v} : pool'[k] = pool[k]
      /\ \A s \in 1 .. MaxTick : HasSnap(pool, v, s) => HasSnap(pool', v, s)
      /\ pool'[v].protected = pool[v].protected
      /\ pool'[v].parent \in {pool[v].parent, NoParent} \cup {<<i, s>> : i \in Images, s \in 1 .. MaxTick}
  <2> DEFINE goal(p) ==
                /\ \A k \in Keys \ {v} : p[k] = pool[k]
                /\ \A s \in 1 .. MaxTick : HasSnap(pool, v, s) => HasSnap(p, v, s)
                /\ p[v].protected = pool[v].protected
                /\ p[v].parent \in {pool[v].parent, NoParent} \cup {<<i, s>> : i \in Images, s \in 1 .. MaxTick}
  <2>1. goal(pool)
    OBVIOUS
  <2>2. ASSUME NEW i \in Images, NEW s, HasSnap(pool, i, s), ~image_exists(pool, v)
        PROVE  goal(Cloned(pool, i, s, v))
    <3>1. i \in Keys /\ s \in 1 .. MaxTick
      BY <2>2, Names DEF HasSnap
    <3>2. /\ \A k \in Keys \ {v} : Cloned(pool, i, s, v)[k] = pool[k]
          /\ Cloned(pool, i, s, v)[v].parent = <<i, s>> /\ Cloned(pool, i, s, v)[v].protected = {}
          /\ pool[v] = NoImage
      BY <1>1, <2>2, <3>1, ClonedPool
    <3>3. pool[v].protected = {} /\ \A x \in 1 .. MaxTick : ~HasSnap(pool, v, x)
      BY <3>2 DEF NoImage, HasSnap
    <3>4. QED
      BY <3>1, <3>2, <3>3
  <2>3. ASSUME NEW size \in 1 .. MaxSize
        PROVE  goal(Sized(pool, v, size))
    BY <1>1, SizedPool DEF HasSnap
  <2>4. ASSUME \A s \in 1 .. MaxTick : ~HasSnap(pool, v, s)
        PROVE  goal(Gone(pool, v))
    <3>1. pool[v].protected = {}
      BY <1>4, <2>4 DEF HasSnap
    <3>2. (\A k \in Keys \ {v} : Gone(pool, v)[k] = pool[k]) /\ Gone(pool, v)[v] = NoImage
      BY <1>1, GonePool
    <3>3. QED
      BY <2>4, <3>1, <3>2 DEF NoImage
  <2> HIDE DEF goal
  <2>5. goal(pool')
    BY <2>1, <2>2, <2>3, <2>4
  <2>6. QED
    BY <2>5 DEF goal
<1>6. QED
  BY <1>1, <1>2, <1>3, <1>5, DiskCalm

\* Those that rename a disk are two steps of a change of system, the other steps
\* of the four kinds of request are such.
LEMMA ChangersGoOn ==
    ASSUME SysSnapInv, MInv', UNCHANGED setting, NEW w \in Threads,
           \/ CloneDisk(w) \/ ResizeNewDisk(w) \/ SaveMachine(w) \/ DefineMachine(w) \/ RemoveNewDisk(w)
           \/ CloneNewDisk(w) \/ DefineNew(w) \/ SaveNew(w) \/ RemoveNew(w)
           \/ RemountDevices(w) \/ ReadSize(w) \/ SaveSize(w) \/ ResizeSysDisk(w) \/ RollbackDisk(w)
    PROVE  SysSnapInv'
<1>1. TInv /\ Formed(request[w])
  BY SysSnapOf
<1> DEFINE steps == {"clone_disk", "resize_new", "save_machine", "define_machine", "remove_disk",
                     "clone_new", "define_new", "save_new", "remove_new", "remount", "size_read",
                     "size_save", "resize", "rollback"}
           change(v) ==
              \/ pool' = pool
              \/ \E i \in Images : \E s : /\ HasSnap(pool, i, s) /\ ~image_exists(pool, v)
                                              /\ pool' = Cloned(pool, i, s, v)
              \/ \E size \in 1 .. MaxSize : pool' = Sized(pool, v, size)
              \/ (\A s \in 1 .. MaxTick : ~HasSnap(pool, v, s)) /\ pool' = Gone(pool, v)
           goal == /\ Moved(w) /\ UNCHANGED <<snaprow, tick>> /\ request[w].pc \in steps
                   /\ request[w].machine \in Machines /\ change(request[w].machine)
<1>2. ASSUME CloneDisk(w)
      PROVE  goal
  BY <1>1, <1>2, CloneDiskTyped DEF OnlyCeph, MachineRowsSame
<1>3. ASSUME ResizeNewDisk(w)
      PROVE  goal
  BY <1>1, <1>3, ResizeNewDiskTyped DEF OnlyCeph, MachineRowsSame
<1>4. ASSUME SaveMachine(w) \/ DefineMachine(w)
      PROVE  goal
  BY <1>1, <1>4, SaveMachineTyped, DefineMachineTyped DEF OnlyMachineRow, CephSame
<1>5. ASSUME RemoveNewDisk(w)
      PROVE  goal
  BY <1>1, <1>5, RemoveNewDiskTyped DEF OnlyCeph, MachineRowsSame
<1>6. ASSUME CloneNewDisk(w)
      PROVE  goal
  BY <1>1, <1>6, CloneNewDiskTyped DEF OnlyCeph, MachineRowsSame
<1>7. ASSUME DefineNew(w) \/ SaveNew(w)
      PROVE  goal
  BY <1>1, <1>7, DefineNewTyped, SaveNewTyped DEF OnlyRequest, OnlyCeph, OnlyMachineRow, MachineRowsSame, CephSame
<1>8. ASSUME RemoveNew(w)
      PROVE  goal
  BY <1>1, <1>8, RemoveNewTyped DEF OnlyCeph, MachineRowsSame
<1>9. ASSUME RemountDevices(w) \/ ReadSize(w) \/ SaveSize(w)
      PROVE  goal
  BY <1>1, <1>9, RemountTyped, ReadSizeTyped, SaveSizeTyped
     DEF OnlyRequest, OnlyCeph, OnlyMachineRow, MachineRowsSame, CephSame
<1>10. ASSUME ResizeSysDisk(w)
      PROVE  goal
  BY <1>1, <1>10, ResizeSysDiskTyped DEF OnlyCeph, MachineRowsSame
<1>11. ASSUME RollbackDisk(w)
      PROVE  goal
  BY <1>1, <1>11, RollbackDiskTyped DEF OnlyCeph, MachineRowsSame
<1>12. goal
  BY <1>2, <1>3, <1>4, <1>5, <1>6, <1>7, <1>8, <1>9, <1>10, <1>11
<1>13. request[w].op \in Changers /\ request[w].pc # "idle"
  BY <1>1, <1>12, OpsAt DEF Changers
<1>14. PICK v \in Machines : request[w].machine = v
  BY <1>12
<1>15. change(v)
  BY <1>12, <1>14
<1>16. QED
  BY <1>12, <1>13, <1>14, <1>15, ChangerCalm

\* A clone of the disk of a machine is a base image that a release makes; there is
\* none, nor is a snapshot protected, of a disk whose system is changed.
LEMMA CopiesOf ==
    ASSUME SysSnapInv
    PROVE  /\ \A c \in Keys, v \in Machines, s \in 1 .. MaxTick : pool[c].parent = <<v, s>> => c \in Images
           /\ \A w \in Threads, v \in Machines :
                 request[w].op = "change_sys_disk" /\ request[w].machine = v
                 => /\ pool[v].protected = {}
                    /\ \A c \in Keys, s \in 1 .. MaxTick : pool[c].parent # <<v, s>>
<1>1. ASSUME NEW x \in Threads, NEW v \in Machines, NEW s, NEW c,
             Guards(request[x], v, s) \/ Copies(request[x], v, s, c)
      PROVE  /\ request[x].op = "release" /\ request[x].machine = v
             /\ Copies(request[x], v, s, c) => c \in Images
  BY <1>1, SysSnapOf DEF Guards, Copies, Copying, Holding
<1>2. ASSUME NEW c \in Keys, NEW v \in Machines, NEW s \in 1 .. MaxTick, pool[c].parent = <<v, s>>
      PROVE  \E x \in Threads : Copies(request[x], v, s, c)
  BY <1>2 DEF SysSnapInv, SysSnaps
<1>3. ASSUME NEW v \in Machines, NEW s \in pool[v].protected
      PROVE  \E x \in Threads : Guards(request[x], v, s)
  BY <1>3 DEF SysSnapInv, SysSnaps
<1>4. ASSUME NEW w \in Threads, NEW v \in Machines, request[w].op = "change_sys_disk", request[w].machine = v,
             NEW x \in Threads
      PROVE  ~(request[x].op = "release" /\ request[x].machine = v)
  BY <1>4, SnapsApart
<1>5. ASSUME NEW c \in Keys, NEW v \in Machines, NEW s \in 1 .. MaxTick, pool[c].parent = <<v, s>>
      PROVE  c \in Images /\ \E x \in Threads : request[x].op = "release" /\ request[x].machine = v
  <2>1. PICK x \in Threads : Copies(request[x], v, s, c)
    BY <1>2, <1>5
  <2>2. QED
    BY <1>1, <2>1
<1>6. ASSUME NEW w \in Threads, NEW v \in Machines, request[w].op = "change_sys_disk", request[w].machine = v
      PROVE  pool[v].protected = {} /\ \A c \in Keys, s \in 1 .. MaxTick : pool[c].parent # <<v, s>>
  <2>1. \A s : s \notin pool[v].protected
    <3>1. SUFFICES ASSUME NEW s \in pool[v].protected
                   PROVE  FALSE
      OBVIOUS
    <3>2. PICK x \in Threads : Guards(request[x], v, s)
      BY <1>3
    <3>3. QED
      BY <1>1, <1>4, <1>6, <3>2
  <2>2. \A c \in Keys, s \in 1 .. MaxTick : pool[c].parent # <<v, s>>
    BY <1>4, <1>5, <1>6
  <2>3. QED
    BY <2>1, <2>2
<1>7. QED
  BY <1>5, <1>6

\* The disk of a machine is put aside while its system is changed, or is taken back.
LEMMA AsideCalm ==
    ASSUME SysSnapInv, MInv', UNCHANGED <<setting, snaprow, tick>>, NEW w \in Threads,
           \A x \in Threads \ {w} : request'[x] = request[x],
           request[w].op = "change_sys_disk", Plain(request[w]), Plain(request'[w]),
           request'[w].op = "change_sys_disk" => request'[w].machine = request[w].machine,
           NEW v \in Machines, request[w].machine = v,
           pool' = Renamed(pool, v, Aside(v)) \/ pool' = Renamed(pool, Aside(v), v)
    PROVE  SysSnapInv'
<1>1. /\ PoolSound(pool, tick) /\ tick \in Nat /\ tick <= tick'
      /\ v \in Keys /\ Aside(v) \in Keys /\ v # Aside(v)
  BY SysSnapOf, Names
<1> DEFINE here == {v, Aside(v)}
<1>2. ASSUME NEW u \in Machines \ {v}
      PROVE  u \in Keys \ here /\ Aside(u) \in Keys \ here
  BY <1>1, Names, AsideNames
<1>3. /\ \A i \in Images : i \in Keys \ here
      /\ \A n \in Keys, u \in Machines, s \in 1 .. MaxTick : pool[n].parent # <<Aside(u), s>>
      /\ \A u \in Machines, n \in here, s \in 1 .. MaxTick : pool[n].parent # <<u, s>>
      /\ pool[Aside(v)].protected = {} /\ pool[v].protected = {}
      /\ \A c \in Keys, s \in 1 .. MaxTick : pool[c].parent # <<v, s>>
  BY <1>1, Names, CopiesOf DEF SysSnapInv, SysSnaps
<1>4. PICK n \in here, m \in here : n # m /\ pool' = Renamed(pool, n, m)
  BY <1>1
<1>5. n \in Keys /\ m \in Keys /\ here = {n, m}
  BY <1>1, <1>4
<1>6. /\ pool'[n] = NoImage
      /\ \A k \in Keys \ here :
            /\ pool'[k].size = pool[k].size /\ pool'[k].snaps = pool[k].snaps
            /\ pool'[k].protected = pool[k].protected
            /\ pool'[k].parent = Reparent(pool[k].parent, n, m)
      /\ pool'[m].protected = pool[n].protected
      /\ pool'[m].parent = Reparent(pool[n].parent, n, m)
  <2>1. ASSUME NEW k \in Keys \ {n}, NEW from, from = IF k = m THEN n ELSE k
        PROVE  /\ pool'[k].size = pool[from].size /\ pool'[k].snaps = pool[from].snaps
               /\ pool'[k].protected = pool[from].protected
               /\ pool'[k].parent = Reparent(pool[from].parent, n, m)
    <3>1. LET at == IF k = m THEN n ELSE k IN
          /\ Renamed(pool, n, m)[k].size = pool[at].size
          /\ Renamed(pool, n, m)[k].snaps = pool[at].snaps
          /\ Renamed(pool, n, m)[k].protected = pool[at].protected
          /\ Renamed(pool, n, m)[k].parent = Reparent(pool[at].parent, n, m)
      <4>1. n \in Keys /\ m \in Keys /\ n # m
        BY <1>4, <1>5
      <4> HIDE DEF here
      <4>2. QED
        BY <1>1, <4>1, RenamedPool
    <3>2. QED
      BY <1>4, <2>1, <3>1
  <2>2. pool'[n] = NoImage
    BY <1>1, <1>4, <1>5, RenamedPool
  <2>3. m \in Keys \ {n} /\ \A k \in Keys \ here : k \in Keys \ {n} /\ k # m
    BY <1>4, <1>5
  <2>4. QED
    BY <2>1, <2>2, <2>3
<1>7. ASSUME NEW u \in Machines, NEW s \in 1 .. MaxTick, Loses(pool, pool', u, s)
      PROVE  request[w].machine = u /\ request[w].op = "change_sys_disk"
  BY <1>2, <1>6, <1>7 DEF Loses, HasSnap
<1>8. \A i \in Images : Fresh(pool, pool', i)
  BY <1>3, <1>6 DEF Fresh, image_exists, Bare
<1>9. ASSUME NEW u \in Machines
      PROVE  pool'[Aside(u)].protected = {} /\ pool'[u].protected \subseteq pool[u].protected
  <2>1. CASE u = v
    BY <1>3, <1>5, <1>6, <2>1 DEF NoImage
  <2>2. CASE u # v
    BY <1>2, <1>6, <2>2 DEF SysSnapInv, SysSnaps
  <2>3. QED
    BY <2>1, <2>2
<1>10. ASSUME NEW c \in Keys, NEW u \in Machines, NEW s \in 1 .. MaxTick
       PROVE  /\ pool'[c].parent # <<Aside(u), s>>
              /\ pool'[c].parent = <<u, s>> => pool[c].parent = <<u, s>>
  <2>1. ASSUME NEW parent \in (Keys \X (1 .. MaxTick)) \cup {NoParent},
               parent # <<Aside(u), s>>, parent # <<v, s>>, parent # <<Aside(v), s>>
        PROVE  /\ Reparent(parent, n, m) # <<Aside(u), s>>
               /\ Reparent(parent, n, m) = <<u, s>> => parent = <<u, s>>
    <3>1. ASSUME Reparent(parent, n, m) \in {<<Aside(u), s>>, <<u, s>>}, Reparent(parent, n, m) # parent
          PROVE  FALSE
      BY <1>5, <2>1, <3>1 DEF Reparent, NoParent
    <3>2. QED
      BY <2>1, <3>1
  <2>2. CASE c = n
    BY <1>6, <2>2 DEF NoImage, NoParent
  <2>3. ASSUME NEW k \in Keys
        PROVE  /\ Reparent(pool[k].parent, n, m) # <<Aside(u), s>>
               /\ Reparent(pool[k].parent, n, m) = <<u, s>> => pool[k].parent = <<u, s>>
    <3>1. pool[k].parent \in (Keys \X (1 .. MaxTick)) \cup {NoParent}
      BY <1>1 DEF PoolSound, RbdImage
    <3>2. /\ pool[k].parent # <<Aside(u), s>> /\ pool[k].parent # <<v, s>>
          /\ pool[k].parent # <<Aside(v), s>>
      BY <1>3
    <3>3. QED
      BY <2>1, <3>1, <3>2
  <2>4. CASE c = m
    <3>1. pool[n].parent # <<u, s>>
      BY <1>3
    <3>2. QED
      BY <1>5, <1>6, <2>3, <2>4, <3>1
  <2>5. CASE c \in Keys \ here
    BY <1>6, <2>3, <2>5
  <2>6. QED
    BY <1>5, <2>2, <2>4, <2>5
<1>11. request'[w].op = "change_sys_disk"
       => request[w].op = "change_sys_disk" /\ request'[w].machine = request[w].machine
  OBVIOUS
<1>12. \A i \in Images : Fresh(pool, pool', i) \/ (request[w].op \in Publishing /\ request[w].image = i)
  BY <1>8
<1>13. QED
  BY <1>1, <1>7, <1>9, <1>10, <1>11, <1>12, SysSnapsCalm

\* The two renames of a change of system keep it.
LEMMA RenameSysSnaps ==
    ASSUME SysSnapInv, MInv', UNCHANGED setting, NEW w \in Threads, RenameSysDisk(w) \/ RenameBack(w)
    PROVE  SysSnapInv'
<1>1. TInv /\ Formed(request[w])
  BY SysSnapOf
<1>2. Moved(w) /\ UNCHANGED <<snaprow, tick>> /\ request[w].pc \in {"rename_disk", "rename_back"}
  BY <1>1, RenameSysDiskTyped, RenameBackTyped DEF OnlyCeph, MachineRowsSame
<1>3. request[w].op = "change_sys_disk" /\ request[w].pc # "idle" /\ request[w].op \in Changers
  BY <1>1, <1>2, OpsAt DEF Changers
<1>4. PICK v \in Machines : request[w].machine = v
  BY <1>1, RenameSysDiskTyped, RenameBackTyped
<1>5. pool' = pool \/ pool' = Renamed(pool, v, Aside(v)) \/ pool' = Renamed(pool, Aside(v), v)
  BY <1>1, <1>4, RenameSysDiskTyped, RenameBackTyped
<1>6. CASE pool' = pool
  BY <1>2, <1>3, <1>4, <1>6, ChangerCalm
<1>7. CASE pool' = Renamed(pool, v, Aside(v)) \/ pool' = Renamed(pool, Aside(v), v)
  BY <1>1, <1>2, <1>3, <1>4, <1>7, ChangerPlain, AsideCalm DEF Moved
<1>8. QED
  BY <1>5, <1>6, <1>7

\* A request that is not about a snapshot, nor changes a system, arrives.
LEMMA PlainArrives ==
    ASSUME SysSnapInv, MInv', UNCHANGED <<setting, snaprow, pool, tick>>, NEW w \in Threads, Moved(w),
           request[w] = NoRequest, request'[w].op \notin {"delete_sys_snap", "change_sys_disk"},
           request'[w].pc \in {"sys_snap", "rel_exists", "clone_disk", "resize", "rollback"}
    PROVE  SysSnapInv'
<1>1. Plain(request[w])
  BY DEF NoRequest, Plain, Cites, Holds, Holding
<1>2. Plain(request'[w])
  BY DEF Plain, Cites, Holds, Holding
<1>3. (\A x \in Threads \ {w} : request'[x] = request[x]) /\ tick \in Nat /\ tick <= tick'
  BY SysSnapOf DEF Moved
<1>4. PICK v \in Machines : TRUE
  BY ImageAssumption
<1>5. QED
  BY <1>1, <1>2, <1>3, <1>4, DiskCalm

\* Those that do.
LEMMA OthersArriveSnaps ==
    ASSUME SysSnapInv, MInv', UNCHANGED setting, NEW w \in Threads, NEW v \in Machines,
           \/ MachinePower(w, v) \/ CreateSysSnap(w, v)
           \/ \E i \in Images : ReleaseImage(w, v, i)
           \/ \E size \in 1 .. MaxSize :
                \/ ExpandSysDisk(w, v, size)
                \/ \E i \in Images : CreateMachine(w, v, i, size)
           \/ \E s \in 1 .. MaxTick : AboutSysSnap(w, "rollback", v, s)
    PROVE  SysSnapInv'
<1>1. TInv /\ request \in [Threads -> RequestState] /\ tick \in Nat
  BY SysSnapOf DEF TInv
<1>2. ASSUME request' = request, UNCHANGED <<snaprow, pool, tick>>
      PROVE  SysSnapInv'
  BY <1>2 DEF SysSnapInv, SysSnaps
<1>3. CASE MachinePower(w, v)
  BY <1>1, <1>2, <1>3, MachinePowerTyped
<1>4. CASE CreateSysSnap(w, v)
  <2>1. Moved(w) /\ request[w] = NoRequest /\ UNCHANGED <<snaprow, pool, tick>>
    BY <1>1, <1>4, CreateSysSnapTyped DEF OnlyRequest, OnlyCeph, MachineRowsSame, CephSame
  <2>2. Receive(w, "create_sys_snap", NoOne, v, "sys_snap")
    BY <1>4 DEF CreateSysSnap
  <2>3. request'[w].op = "create_sys_snap" /\ request'[w].pc = "sys_snap"
    BY <1>1, <2>2, ReceivedIs
  <2>4. QED
    BY <2>1, <2>3, PlainArrives
<1>5. ASSUME NEW i \in Images, ReleaseImage(w, v, i)
      PROVE  SysSnapInv'
  <2>1. UNCHANGED <<snaprow, pool, tick>> /\ (request' = request \/ Moved(w))
    BY <1>1, <1>5, ReleaseImageTyped
  <2>2. CASE request' = request
    BY <1>2, <2>1, <2>2
  <2>3. CASE request' # request
    <3>1. /\ Moved(w) /\ request[w] = NoRequest
          /\ request'[w] = [NoRequest EXCEPT !.op = "release", !.image = i, !.machine = v,
                              !.pc = "rel_exists"]
      BY <1>1, <1>5, <2>3, ReleaseImageTyped
    <3>2. request'[w].op = "release" /\ request'[w].pc = "rel_exists"
      BY <3>1 DEF NoRequest
    <3>3. QED
      BY <2>1, <3>1, <3>2, PlainArrives
  <2>4. QED
    BY <2>2, <2>3
<1>6. ASSUME NEW size \in 1 .. MaxSize, ExpandSysDisk(w, v, size)
      PROVE  SysSnapInv'
  <2>1. Moved(w) /\ request[w] = NoRequest /\ UNCHANGED <<snaprow, pool, tick>>
    BY <1>1, <1>6, ExpandSysDiskTyped DEF OnlyRequest, OnlyCeph, MachineRowsSame, CephSame
  <2>2. request'[w].op = "sys_disk_expand" /\ request'[w].pc = "resize"
    BY <1>1, <1>6 DEF ExpandSysDisk, NoRequest
  <2>3. QED
    BY <2>1, <2>2, PlainArrives
<1>7. ASSUME NEW size \in 1 .. MaxSize, NEW i \in Images, CreateMachine(w, v, i, size)
      PROVE  SysSnapInv'
  <2>1. Moved(w) /\ request[w] = NoRequest /\ UNCHANGED <<snaprow, pool, tick>>
    BY <1>1, <1>7, CreateMachineTyped DEF OnlyRequest, OnlyCeph, MachineRowsSame, CephSame
  <2>2. request'[w].op = "create_machine" /\ request'[w].pc = "clone_disk"
    BY <1>1, <1>7 DEF CreateMachine, NoRequest
  <2>3. QED
    BY <2>1, <2>2, PlainArrives
<1>8. ASSUME NEW s \in 1 .. MaxTick, AboutSysSnap(w, "rollback", v, s)
      PROVE  SysSnapInv'
  <2>1. Moved(w) /\ request[w] = NoRequest /\ UNCHANGED <<snaprow, pool, tick>>
    BY <1>1, <1>8, AboutSysSnapTyped DEF OnlyRequest, OnlyCeph, MachineRowsSame, CephSame
  <2>2. request'[w].op = "rollback" /\ request'[w].pc = "rollback"
    BY <1>1, <1>8 DEF AboutSysSnap, NoRequest
  <2>3. QED
    BY <2>1, <2>2, PlainArrives
<1>9. QED
  BY <1>3, <1>4, <1>5, <1>6, <1>7, <1>8

\* Rows of snapshots are written; nothing happens to the pool.
LEMMA SysRowsMove ==
    ASSUME SysSnapInv, MInv', UNCHANGED <<setting, pool, tick>>, NEW w \in Threads,
           \A x \in Threads \ {w} : request'[x] = request[x],
           ~Cites(request'[w]), SysSnapKnows(request'[w], snaprow', tick, pool),
           request[w].pc \notin Holding \ {"sys_snap_save"},
           \A x \in Threads \ {w} :
              /\ Holds(request[x]) => snaprow'[request[x].snap] = NoOne
              /\ request[x].op = "change_sys_disk"
                 => \A s \in 1 .. MaxTick : snaprow'[s] # request[x].machine,
           \A s \in 1 .. MaxTick : snaprow'[s] # NoOne =>
              \/ snaprow'[s] = snaprow[s] /\ ~Drops(request[w], snaprow[s], s)
              \/ s <= tick /\ HasSnap(pool, snaprow'[s], s)
    PROVE  SysSnapInv'
<1>1. pool' = pool /\ tick' = tick
  OBVIOUS
<1>2. ASSUME NEW x \in Threads
      PROVE  SysSnapKnows(request'[x], snaprow', tick', pool')
  <2>1. CASE x = w
    BY <1>1, <2>1
  <2>2. CASE x # w
    BY <1>1, <2>2, SysSnapOf DEF SysSnapKnows
  <2>3. QED
    BY <2>1, <2>2
<1>3. ASSUME NEW x \in Threads, NEW y \in Threads, x # y, Holds(request'[x]), Cites(request'[y])
      PROVE  request'[x].snap # request'[y].snap
  BY <1>3 DEF Cites, SysSnapInv, SysSnaps
<1>4. ASSUME NEW s \in 1 .. MaxTick, snaprow'[s] # NoOne
      PROVE  /\ s <= tick
             /\ HasSnap(pool, snaprow'[s], s) \/ \E x \in Threads : Drops(request'[x], snaprow'[s], s)
  <2>1. CASE s <= tick /\ HasSnap(pool, snaprow'[s], s)
    BY <2>1
  <2>2. CASE snaprow'[s] = snaprow[s] /\ ~Drops(request[w], snaprow[s], s)
    <3>1. s <= tick /\ (HasSnap(pool, snaprow[s], s) \/ \E x \in Threads : Drops(request[x], snaprow[s], s))
      BY <1>4, <2>2 DEF SysSnapInv, SysSnaps
    <3>2. ASSUME NEW x \in Threads, Drops(request[x], snaprow[s], s)
          PROVE  Drops(request'[x], snaprow[s], s)
      BY <2>2, <3>2
    <3>3. QED
      BY <2>2, <3>1, <3>2
  <2>3. QED
    BY <1>4, <2>1, <2>2
<1>5. \A v, s, c : ~Guards(request[w], v, s) /\ ~Copies(request[w], v, s, c)
  BY DEF Guards, Copies, Copying, Holding
<1>6. ASSUME NEW v \in Machines
      PROVE  /\ pool[Aside(v)].protected = {}
             /\ \A s \in pool[v].protected : \E x \in Threads : Guards(request'[x], v, s)
  <2>1. ASSUME NEW s \in pool[v].protected
        PROVE  \E x \in Threads : Guards(request'[x], v, s)
    <3>1. PICK x \in Threads : Guards(request[x], v, s)
      BY DEF SysSnapInv, SysSnaps
    <3>2. QED
      BY <1>5, <3>1
  <2>2. QED
    BY <2>1 DEF SysSnapInv, SysSnaps
<1>7. ASSUME NEW c \in Keys, NEW v \in Machines, NEW s \in 1 .. MaxTick
      PROVE  /\ pool[c].parent # <<Aside(v), s>>
             /\ pool[c].parent = <<v, s>> => \E x \in Threads : Copies(request'[x], v, s, c)
  <2>1. ASSUME pool[c].parent = <<v, s>>
        PROVE  \E x \in Threads : Copies(request'[x], v, s, c)
    <3>1. PICK x \in Threads : Copies(request[x], v, s, c)
      BY <2>1 DEF SysSnapInv, SysSnaps
    <3>2. QED
      BY <1>5, <3>1
  <2>2. QED
    BY <2>1 DEF SysSnapInv, SysSnaps
<1>8. SysSnaps'
  BY <1>1, <1>2, <1>3, <1>4, <1>6, <1>7 DEF SysSnaps
<1>9. QED
  BY <1>8 DEF SysSnapInv

\* A thread without a request knows nothing of snapshots.
LEMMA NoSnapInHand ==
    /\ \A rows, t, p : SysSnapKnows(NoRequest, rows, t, p)
    /\ ~Cites(NoRequest) /\ ~Holds(NoRequest) /\ ~Copying(NoRequest) /\ Plain(NoRequest)
    /\ \A v, s, c : ~Guards(NoRequest, v, s) /\ ~Copies(NoRequest, v, s, c) /\ ~Drops(NoRequest, v, s)
    /\ NoRequest.pc = "idle"
<1>1. NoRequest.pc = "idle" /\ NoRequest.op = "none"
  BY DEF NoRequest
<1>2. ~Cites(NoRequest) /\ ~Holds(NoRequest) /\ ~Copying(NoRequest) /\ Plain(NoRequest)
  BY <1>1 DEF Plain, Cites, Holds, Holding, Copying
<1>3. \A v, s, c : ~Guards(NoRequest, v, s) /\ ~Copies(NoRequest, v, s, c) /\ ~Drops(NoRequest, v, s)
  BY <1>1, <1>2 DEF Guards, Copies, Drops, Holding
<1>4. \A rows, t, p : SysSnapKnows(NoRequest, rows, t, p)
  BY <1>1, <1>2 DEF SysSnapKnows
<1>5. QED
  BY <1>1, <1>2, <1>3, <1>4

\* The row of the snapshot that was taken is written, or deleted.
LEMMA RowSysSnaps ==
    ASSUME SysSnapInv, MInv', UNCHANGED setting, NEW w \in Threads, SaveSysSnap(w) \/ DeleteSysSnapRow(w)
    PROVE  SysSnapInv'
<1>1. /\ TInv /\ Formed(request[w]) /\ SysSnapKnows(request[w], snaprow, tick, pool)
      /\ snaprow \in [1 .. MaxTick -> Machines \cup {NoOne}] /\ tick \in Nat /\ tick <= MaxTick
  BY SysSnapOf, RbdAssumption DEF TInv
<1>2. /\ Moved(w) /\ UNCHANGED <<pool, tick>> /\ request'[w] = NoRequest
      /\ request[w].pc \in {"sys_snap_save", "snap_rowdel"} /\ request[w].machine \in Machines
  BY <1>1, SaveSysSnapTyped, DeleteSysSnapRowTyped DEF OnlyMachineRow, CephSame
<1>3. request[w].op = IF request[w].pc = "sys_snap_save" THEN "create_sys_snap" ELSE "delete_sys_snap"
  BY <1>1, <1>2, OpsAt
<1>4. Cites(request[w]) /\ (request[w].pc = "sys_snap_save" => Holds(request[w]))
  BY <1>2, <1>3 DEF Cites, Holds, Holding
<1>5. PICK v \in Machines, n \in 1 .. tick : request[w].machine = v /\ request[w].snap = n
  BY <1>1, <1>2, <1>4 DEF SysSnapKnows
<1>6. n \in 1 .. MaxTick /\ n <= tick /\ 1 .. tick \subseteq 1 .. MaxTick
  BY <1>1, RbdAssumption
<1>7. \A x \in Threads \ {w} : request'[x] = request[x]
  BY <1>2 DEF Moved
<1>8. ASSUME NEW x \in Threads \ {w}, Holds(request[x])
      PROVE  request[x].snap # n /\ snaprow[request[x].snap] = NoOne /\ request[x].snap \in 1 .. MaxTick
  BY <1>4, <1>5, <1>6, <1>8, SysSnapOf DEF SysSnapInv, SysSnaps, Cites, SysSnapKnows
<1>9. ASSUME NEW x \in Threads \ {w}, request[x].op = "change_sys_disk"
      PROVE  /\ \A s \in 1 .. MaxTick : snaprow[s] # request[x].machine
             /\ request[x].machine # NoOne
             /\ request[w].op = "create_sys_snap" => request[x].machine # v
  BY <1>5, <1>9, SysSnapOf, IdleRequest, AboutAt, SnapsApart, Names DEF NoRequest, ImageOnly, SysSnapKnows
<1>10. ~Cites(request'[w]) /\ SysSnapKnows(request'[w], snaprow', tick, pool)
  BY <1>2, NoSnapInHand
<1>11. CASE SaveSysSnap(w)
  <2>1. request[w].pc = "sys_snap_save" /\ snaprow' = [snaprow EXCEPT ![n] = v]
    BY <1>1, <1>5, <1>11, SaveSysSnapTyped
  <2>2. snaprow'[n] = v /\ \A s \in (1 .. MaxTick) \ {n} : snaprow'[s] = snaprow[s]
    BY <1>1, <1>6, <2>1
  <2>3. HasSnap(pool, v, n)
    BY <1>1, <1>5, <2>1 DEF SysSnapKnows
  <2>4. \A x \in Threads \ {w} :
           /\ Holds(request[x]) => snaprow'[request[x].snap] = NoOne
           /\ request[x].op = "change_sys_disk"
              => \A s \in 1 .. MaxTick : snaprow'[s] # request[x].machine
    BY <1>3, <1>8, <1>9, <2>1, <2>2
  <2>5. \A s \in 1 .. MaxTick : snaprow'[s] # NoOne =>
           \/ snaprow'[s] = snaprow[s] /\ ~Drops(request[w], snaprow[s], s)
           \/ s <= tick /\ HasSnap(pool, snaprow'[s], s)
    BY <1>6, <2>1, <2>2, <2>3 DEF Drops
  <2>6. request[w].pc \notin Holding \ {"sys_snap_save"}
    BY <2>1
  <2>7. QED
    BY <1>2, <1>7, <1>10, <2>4, <2>5, <2>6, SysRowsMove
<1>12. CASE DeleteSysSnapRow(w)
  <2>1. request[w].pc = "snap_rowdel" /\ snaprow' = [snaprow EXCEPT ![n] = NoOne]
    BY <1>1, <1>5, <1>12, DeleteSysSnapRowTyped
  <2>2. snaprow'[n] = NoOne /\ \A s \in (1 .. MaxTick) \ {n} : snaprow'[s] = snaprow[s]
    BY <1>1, <1>6, <2>1
  <2>3. \A x \in Threads \ {w} :
           /\ Holds(request[x]) => snaprow'[request[x].snap] = NoOne
           /\ request[x].op = "change_sys_disk"
              => \A s \in 1 .. MaxTick : snaprow'[s] # request[x].machine
    BY <1>8, <1>9, <2>2
  <2>4. \A s \in 1 .. MaxTick : snaprow'[s] # NoOne =>
           \/ snaprow'[s] = snaprow[s] /\ ~Drops(request[w], snaprow[s], s)
           \/ s <= tick /\ HasSnap(pool, snaprow'[s], s)
    BY <1>5, <2>2 DEF Drops
  <2>5. request[w].pc \notin Holding \ {"sys_snap_save"}
    BY <2>1 DEF Holding
  <2>6. QED
    BY <1>2, <1>7, <1>10, <2>3, <2>4, <2>5, SysRowsMove
<1>13. QED
  BY <1>11, <1>12

\* A change of system deletes the rows of its disk.
LEMMA ChangeSysSnaps ==
    ASSUME SysSnapInv, MInv', UNCHANGED setting, NEW w \in Threads, NEW v \in Machines, NEW i \in Images,
           ChangeSysDisk(w, v, i)
    PROVE  SysSnapInv'
<1>1. /\ TInv /\ snaprow \in [1 .. MaxTick -> Machines \cup {NoOne}] /\ tick \in Nat /\ v # NoOne
      /\ 1 .. tick \subseteq 1 .. MaxTick
  <2>1. TInv /\ snaprow \in [1 .. MaxTick -> Machines \cup {NoOne}] /\ tick \in Nat
    BY SysSnapOf
  <2>2. v # NoOne
    BY Names
  <2>3. 1 .. tick \subseteq 1 .. MaxTick
    BY <2>1, RbdAssumption DEF TInv
  <2>4. QED
    BY <2>1, <2>2, <2>3
<1>2. /\ Moved(w) /\ UNCHANGED <<pool, tick>> /\ request[w] = NoRequest
      /\ snaprow' = [s \in 1 .. MaxTick |-> IF snaprow[s] = v THEN NoOne ELSE snaprow[s]]
  BY <1>1, ChangeSysDiskTyped DEF OnlyMachineRow, CephSame
<1>3. Receive(w, "change_sys_disk", i, v, "rename_disk")
  BY DEF ChangeSysDisk
<1> DEFINE q == request'[w]
<1>4. q.op = "change_sys_disk" /\ q.machine = v /\ q.pc = "rename_disk"
  BY <1>1, <1>3, ReceivedIs
<1>5. request'[w] = q
  OBVIOUS
<1> HIDE DEF q
<1>6. ~Cites(q) /\ ~Holds(q) /\ ~Copying(q)
  BY <1>4 DEF Cites, Holds, Holding, Copying
<1>7. SysSnapKnows(q, snaprow', tick, pool)
  BY <1>1, <1>2, <1>4, <1>6 DEF SysSnapKnows
<1>8. ASSUME NEW x \in Threads \ {w}
      PROVE  /\ Holds(request[x]) => snaprow'[request[x].snap] = NoOne
             /\ request[x].op = "change_sys_disk"
                => \A s \in 1 .. MaxTick : snaprow'[s] # request[x].machine
  <2>1. SysSnapKnows(request[x], snaprow, tick, pool) /\ Formed(request[x])
    BY SysSnapOf
  <2>2. Holds(request[x]) => snaprow[request[x].snap] = NoOne /\ request[x].snap \in 1 .. MaxTick
    BY <1>1, <2>1 DEF SysSnapKnows, Cites
  <2>3. request[x].op = "change_sys_disk" => request[x].machine # NoOne
    BY <2>1, IdleRequest, AboutAt, Names DEF NoRequest, ImageOnly
  <2>4. QED
    BY <1>2, <2>1, <2>2, <2>3 DEF SysSnapKnows
<1>9. \A s \in 1 .. MaxTick : snaprow'[s] # NoOne =>
         \/ snaprow'[s] = snaprow[s] /\ ~Drops(request[w], snaprow[s], s)
         \/ s <= tick /\ HasSnap(pool, snaprow'[s], s)
  BY <1>2, NoSnapInHand
<1>10. request[w].pc \notin Holding \ {"sys_snap_save"}
  BY <1>2, NoSnapInHand DEF Holding
<1>11. (\A x \in Threads \ {w} : request'[x] = request[x]) /\ UNCHANGED <<setting, pool, tick>>
  BY <1>2 DEF Moved
<1>12. QED
  BY <1>5, <1>6, <1>7, <1>8, <1>9, <1>10, <1>11, SysRowsMove

\* What a call does to the snapshots of one disk: it loses those of `gone`,
\* protects those of `new`, and leaves the images and what they are cloned from.
SnapsOnly(p, q, v, gone, new) ==
    /\ \A u \in Machines, s \in 1 .. MaxTick : Loses(p, q, u, s) => u = v /\ s \in gone
    /\ \A i \in Images : Fresh(p, q, i)
    /\ \A u \in Machines :
          /\ q[Aside(u)].protected = p[Aside(u)].protected
          /\ \A s \in q[u].protected : s \in p[u].protected \/ (u = v /\ s \in new)
    /\ q[v].protected \cap gone = {}
    /\ \A c \in Keys : q[c].parent = p[c].parent

\* Which those are.
LEMMA SnapsOnlyHere ==
    ASSUME NEW p, NEW t \in Nat, PoolSound(p, t), NEW v \in Machines
    PROVE  /\ SnapsOnly(p, p, v, {}, {})
           /\ image_exists(p, v) /\ t + 1 \in 1 .. MaxTick
              => /\ SnapsOnly(p, Snapped(p, v, t + 1), v, {}, {})
                 /\ SnapsOnly(p, Protected(p, v, t + 1), v, {}, {t + 1})
           /\ \A s \in 1 .. MaxTick : SnapsOnly(p, Unsnapped(p, v, s), v, {s}, {})
<1>1. /\ v \in Keys /\ \A u \in Machines : u \in Keys /\ Aside(u) \in Keys \ {v}
      /\ \A i \in Images : i \in Keys \ {v}
  BY Names
<1>2. ASSUME NEW q, NEW gone, NEW new, \A k \in Keys \ {v} : q[k] = p[k], q[v].parent = p[v].parent,
             \A s \in (1 .. MaxTick) \ gone : HasSnap(p, v, s) => HasSnap(q, v, s),
             \A s \in (1 .. MaxTick) \ gone : s \in p[v].protected => s \in q[v].protected,
             \A s \in q[v].protected : s \in p[v].protected \/ s \in new,
             q[v].protected \cap gone = {}
      PROVE  SnapsOnly(p, q, v, gone, new)
  <2>1. ASSUME NEW u \in Machines, NEW s \in 1 .. MaxTick, Loses(p, q, u, s)
        PROVE  u = v /\ s \in gone
    BY <1>1, <1>2, <2>1 DEF Loses, HasSnap
  <2>2. \A i \in Images : Fresh(p, q, i)
    BY <1>1, <1>2 DEF Fresh, image_exists
  <2>3. ASSUME NEW u \in Machines
        PROVE  /\ q[Aside(u)].protected = p[Aside(u)].protected
               /\ \A s \in q[u].protected : s \in p[u].protected \/ (u = v /\ s \in new)
    BY <1>1, <1>2
  <2>4. \A c \in Keys : q[c].parent = p[c].parent
    BY <1>1, <1>2
  <2>5. QED
    BY <1>2, <2>1, <2>2, <2>3, <2>4 DEF SnapsOnly
<1>3. SnapsOnly(p, p, v, {}, {})
  BY <1>2
<1>4. ASSUME image_exists(p, v), t + 1 \in 1 .. MaxTick
      PROVE  SnapsOnly(p, Snapped(p, v, t + 1), v, {}, {})
  <2> DEFINE q == Snapped(p, v, t + 1)
  <2>1. /\ \A k \in Keys \ {v} : q[k] = p[k]
        /\ q[v].parent = p[v].parent /\ q[v].protected = p[v].protected
        /\ q[v].snaps[t + 1] > 0
        /\ \A s \in (1 .. MaxTick) \ {t + 1} : q[v].snaps[s] = p[v].snaps[s]
    BY <1>1, <1>4, SnappedPool
  <2> HIDE DEF q
  <2>2. \A s \in (1 .. MaxTick) \ {} : HasSnap(p, v, s) => HasSnap(q, v, s)
    BY <2>1 DEF HasSnap
  <2>3. SnapsOnly(p, q, v, {}, {})
    BY <1>2, <2>1, <2>2
  <2>4. QED
    BY <2>3 DEF q
<1>5. ASSUME image_exists(p, v), t + 1 \in 1 .. MaxTick
      PROVE  SnapsOnly(p, Protected(p, v, t + 1), v, {}, {t + 1})
  <2> DEFINE q == Protected(p, v, t + 1)
  <2>1. /\ \A k \in Keys \ {v} : q[k] = p[k]
        /\ q[v].parent = p[v].parent /\ q[v].protected = p[v].protected \cup {t + 1}
        /\ q[v].snaps[t + 1] > 0
        /\ \A s \in (1 .. MaxTick) \ {t + 1} : q[v].snaps[s] = p[v].snaps[s]
    BY <1>1, <1>5, ProtectedPool
  <2> HIDE DEF q
  <2>2. \A s \in (1 .. MaxTick) \ {} : HasSnap(p, v, s) => HasSnap(q, v, s)
    BY <2>1 DEF HasSnap
  <2>3. SnapsOnly(p, q, v, {}, {t + 1})
    BY <1>2, <2>1, <2>2
  <2>4. QED
    BY <2>3 DEF q
<1>6. ASSUME NEW x \in 1 .. MaxTick
      PROVE  SnapsOnly(p, Unsnapped(p, v, x), v, {x}, {})
  <2> DEFINE q == Unsnapped(p, v, x)
  <2>1. /\ \A k \in Keys \ {v} : q[k] = p[k]
        /\ q[v].parent = p[v].parent /\ q[v].protected = p[v].protected \ {x}
        /\ \A s \in (1 .. MaxTick) \ {x} : q[v].snaps[s] = p[v].snaps[s]
    BY <1>1, UnsnappedPool
  <2> HIDE DEF q
  <2>2. \A s \in (1 .. MaxTick) \ {x} : HasSnap(p, v, s) => HasSnap(q, v, s)
    BY <2>1 DEF HasSnap
  <2>3. SnapsOnly(p, q, v, {x}, {})
    BY <1>2, <2>1, <2>2
  <2>4. QED
    BY <2>3 DEF q
<1>7. QED
  BY <1>3, <1>4, <1>5, <1>6

\* A request w about machine v goes on; its disk loses the snapshots gone, and
\* those of new are protected.
SnapsGoOn(w, v, gone, new) ==
    /\ UNCHANGED <<setting, snaprow>> /\ tick <= tick'
    /\ \A x \in Threads \ {w} :
          /\ request'[x] = request[x]
          /\ (Holds(request[x]) /\ Cites(request'[w])) \/ (Cites(request[x]) /\ Holds(request'[w]))
             => request'[w].snap # request[x].snap
    /\ request[w].pc # "snap_rowdel" /\ request[w].machine = v
    /\ SysSnapKnows(request'[w], snaprow, tick', pool')
    /\ SnapsOnly(pool, pool', v, gone, new)
    /\ \A s \in gone : /\ Cites(request[w]) /\ request[w].snap = s
                       /\ Holds(request[w]) \/ Drops(request'[w], v, s)
    /\ \A s \in new : Guards(request'[w], v, s)
    /\ \A s \in pool'[v].protected : Guards(request[w], v, s) => Guards(request'[w], v, s)
    /\ \A c \in Keys, s \in 1 .. MaxTick :
          pool[c].parent = <<v, s>> /\ Copies(request[w], v, s, c) => Copies(request'[w], v, s, c)

\* A request goes on that takes, keeps or gives back a snapshot of the disk of
\* its machine.
LEMMA SysSnapsGo ==
    ASSUME SysSnapInv, MInv', NEW w \in Threads, NEW v \in Machines,
           NEW gone, NEW new, SnapsGoOn(w, v, gone, new)
    PROVE  SysSnapInv'
<1> USE DEF SnapsGoOn
<1>1. \A u \in Machines, s \in 1 .. MaxTick :
         Loses(pool, pool', u, s)
         => /\ request[w].machine = u
            /\ \/ request[w].op = "change_sys_disk"
               \/ /\ Cites(request[w]) /\ request[w].snap = s
                  /\ Holds(request[w]) \/ Drops(request'[w], u, s)
  BY DEF SnapsOnly
<1>2. \A i \in Images : \/ Fresh(pool, pool', i)
                        \/ request[w].op \in Publishing /\ request[w].image = i
  BY DEF SnapsOnly
<1>3. ASSUME NEW u \in Machines
      PROVE  /\ pool'[Aside(u)].protected = {}
             /\ \A s \in pool'[u].protected : s \in pool[u].protected \/ Guards(request'[w], u, s)
             /\ \A s \in pool'[u].protected : Guards(request[w], u, s) => Guards(request'[w], u, s)
  BY DEF SysSnapInv, SysSnaps, SnapsOnly, Guards
<1>4. ASSUME NEW c \in Keys, NEW u \in Machines, NEW s \in 1 .. MaxTick
      PROVE  /\ pool'[c].parent # <<Aside(u), s>>
             /\ pool'[c].parent = <<u, s>>
                => (pool[c].parent = <<u, s>> /\ ~Copies(request[w], u, s, c)) \/ Copies(request'[w], u, s, c)
  BY DEF SnapsOnly, SysSnapInv, SysSnaps, Copies
<1>5. QED
  BY <1>1, <1>2, <1>3, <1>4, SysSnapsMove

\* The next snapshot has no row, and no request is about it.
LEMMA NextSnap ==
    ASSUME SysSnapInv
    PROVE  /\ tick + 1 \in 1 .. MaxTick => snaprow[tick + 1] = NoOne
           /\ \A x \in Threads : Cites(request[x]) => request[x].snap # tick + 1
<1>1. tick \in Nat
  BY RbdAssumption DEF SysSnapInv, MInv, TInv
<1>2. tick + 1 \in 1 .. MaxTick => snaprow[tick + 1] = NoOne
  BY <1>1 DEF SysSnapInv, SysSnaps
<1>3. ASSUME NEW x \in Threads, Cites(request[x])
      PROVE  request[x].snap # tick + 1
  BY <1>1, <1>3, SysSnapOf DEF SysSnapKnows
<1>4. QED
  BY <1>2, <1>3

\* A request about the disk of a machine ends, or has yet to be about a snapshot
\* and goes on.
LEMMA SnapsEnd ==
    ASSUME SysSnapInv, MInv', UNCHANGED <<setting, snaprow>>, NEW w \in Threads,
           \A x \in Threads \ {w} : request'[x] = request[x], tick <= tick',
           request[w].pc \notin (Holding \ {"sys_snap_save"}) \cup {"snap_rowdel"},
           NEW v \in Machines, request[w].machine = v, SnapsOnly(pool, pool', v, {}, {}),
           ~Cites(request'[w]), SysSnapKnows(request'[w], snaprow, tick', pool')
    PROVE  SysSnapInv'
<1>1. \A s, c : ~Guards(request[w], v, s) /\ ~Copies(request[w], v, s, c)
  BY DEF Guards, Copies, Copying, Holding
<1>2. ~Holds(request'[w])
  BY DEF Cites
<1>3. \A x \in Threads \ {w} :
         (Holds(request[x]) /\ Cites(request'[w])) \/ (Cites(request[x]) /\ Holds(request'[w]))
         => request'[w].snap # request[x].snap
  BY <1>2
<1>4. /\ \A s \in pool'[v].protected : Guards(request[w], v, s) => Guards(request'[w], v, s)
      /\ \A c \in Keys, s \in 1 .. MaxTick :
            pool[c].parent = <<v, s>> /\ Copies(request[w], v, s, c) => Copies(request'[w], v, s, c)
  BY <1>1
<1>5. request[w].pc # "snap_rowdel"
  OBVIOUS
<1> DEFINE gone == {}
           new == {}
<1>6. /\ \A s \in gone : /\ Cites(request[w]) /\ request[w].snap = s
                         /\ Holds(request[w]) \/ Drops(request'[w], v, s)
      /\ \A s \in new : Guards(request'[w], v, s)
      /\ SnapsOnly(pool, pool', v, gone, new)
  OBVIOUS
<1> HIDE DEF gone, new
<1>7. SnapsGoOn(w, v, gone, new)
  BY <1>3, <1>4, <1>5, <1>6 DEF SnapsGoOn
<1>8. QED
  BY <1>7, SysSnapsGo

\* A request takes a snapshot of the disk and holds it: a release one that is
\* protected, and that it is to clone an image from which is not there.
LEMMA SnapsTaken ==
    ASSUME SysSnapInv, MInv', UNCHANGED <<setting, snaprow>>, NEW w \in Threads,
           \A x \in Threads \ {w} : request'[x] = request[x],
           tick' = tick + 1, tick' \in 1 .. MaxTick,
           request[w].pc \in {"sys_snap", "rel_snap"}, NEW v \in Machines, request[w].machine = v,
           image_exists(pool, v), NEW q, request'[w] = q, q.machine = v, q.snap = tick + 1,
           q.op \in {"create_sys_snap", "release"},
           \/ q.pc = "sys_snap_save" /\ pool' = Snapped(pool, v, tick + 1)
           \/ /\ q.pc = "rel_clone" /\ pool' = Protected(pool, v, tick + 1)
              /\ q.image \in Images /\ ~image_exists(pool, q.image)
    PROVE  SysSnapInv'
<1>1. PoolSound(pool, tick) /\ tick \in Nat /\ tick <= tick' /\ v \in Keys
  BY SysSnapOf, Names
<1>2. snaprow[tick + 1] = NoOne /\ \A x \in Threads : Cites(request[x]) => request[x].snap # tick + 1
  BY NextSnap
<1>3. \A s, c : ~Guards(request[w], v, s) /\ ~Copies(request[w], v, s, c)
  BY DEF Guards, Copies, Copying, Holding
<1>4. \A x \in Threads \ {w} :
         (Holds(request[x]) /\ Cites(request'[w])) \/ (Cites(request[x]) /\ Holds(request'[w]))
         => request'[w].snap # request[x].snap
  BY <1>2 DEF Cites
<1>5. HasSnap(pool', v, tick + 1) /\ (q.pc = "rel_clone" => tick + 1 \in pool'[v].protected)
  BY <1>1, SnappedPool, ProtectedPool DEF HasSnap
<1> DEFINE new == IF q.pc = "rel_clone" THEN {tick + 1} ELSE {}
           gone == {}
<1>6. SnapsOnly(pool, pool', v, gone, new)
  <2>1. /\ SnapsOnly(pool, Snapped(pool, v, tick + 1), v, {}, {})
        /\ SnapsOnly(pool, Protected(pool, v, tick + 1), v, {}, {tick + 1})
    BY <1>1, SnapsOnlyHere
  <2>2. CASE q.pc = "rel_clone"
    BY <2>1, <2>2
  <2>3. CASE q.pc # "rel_clone"
    BY <2>1, <2>3
  <2>4. QED
    BY <2>2, <2>3
<1>7. q.pc = "rel_clone" => ~image_exists(pool', q.image)
  BY <1>6 DEF SnapsOnly, Fresh
<1>8. SysSnapKnows(q, snaprow, tick', pool')
  BY <1>2, <1>5, <1>7 DEF Copying, SysSnapKnows
<1>9. \A s \in new : Guards(q, v, s)
  BY DEF Guards, Holding
<1>10. /\ \A s \in pool'[v].protected : Guards(request[w], v, s) => Guards(request'[w], v, s)
       /\ \A c \in Keys, s \in 1 .. MaxTick :
             pool[c].parent = <<v, s>> /\ Copies(request[w], v, s, c) => Copies(request'[w], v, s, c)
  BY <1>3
<1>11. /\ \A s \in gone : /\ Cites(request[w]) /\ request[w].snap = s
                          /\ Holds(request[w]) \/ Drops(request'[w], v, s)
       /\ \A s \in new : Guards(request'[w], v, s)
       /\ SysSnapKnows(request'[w], snaprow, tick', pool')
       /\ request[w].pc # "snap_rowdel"
  BY <1>8, <1>9
<1> HIDE DEF gone, new
<1>12. SnapsGoOn(w, v, gone, new)
  BY <1>1, <1>4, <1>6, <1>10, <1>11 DEF SnapsGoOn
<1>13. QED
  BY <1>12, SysSnapsGo

\* The snapshot that a request deletes is none that a release protects.
LEMMA NotHeld ==
    ASSUME SysSnapInv, NEW w \in Threads, request[w].op = "delete_sys_snap", NEW v \in Machines
    PROVE  request[w].snap \notin pool[v].protected
<1> SUFFICES ASSUME request[w].snap \in pool[v].protected
             PROVE  FALSE
  OBVIOUS
<1>1. PICK x \in Threads : Guards(request[x], v, request[w].snap)
  BY DEF SysSnapInv, SysSnaps
<1>2. Holds(request[x]) /\ request[x].op = "release"
  BY <1>1, SysSnapOf DEF Guards, Holds
<1>3. x # w /\ request[x].snap = request[w].snap
  BY <1>1, <1>2 DEF Guards
<1>4. QED
  BY <1>2, <1>3 DEF SysSnapInv, SysSnaps, Cites

\* A snapshot is taken of a disk, and one is removed from it before its row goes.
LEMMA SnapSysSnaps ==
    ASSUME SysSnapInv, MInv', UNCHANGED setting, NEW w \in Threads, TakeSysSnap(w) \/ RemoveSysSnap(w)
    PROVE  SysSnapInv'
<1>1. /\ TInv /\ Formed(request[w]) /\ request[w] \in RequestState /\ PoolSound(pool, tick)
      /\ tick \in Nat /\ SysSnapKnows(request[w], snaprow, tick, pool)
  BY SysSnapOf
<1>2. /\ Moved(w) /\ UNCHANGED snaprow /\ request[w].pc \in {"sys_snap", "remove_sys_snap"}
      /\ \A x \in Threads \ {w} : request'[x] = request[x]
      /\ request[w].pc \notin (Holding \ {"sys_snap_save"}) \cup {"snap_rowdel"}
  BY <1>1, TakeSysSnapTyped, RemoveSysSnapTyped DEF OnlyCeph, MachineRowsSame, Moved, Holding
<1>3. PICK v \in Machines : request[w].machine = v
  BY <1>1, TakeSysSnapTyped, RemoveSysSnapTyped
<1>4. SnapsOnly(pool, pool, v, {}, {})
  BY <1>1, SnapsOnlyHere
<1>5. ASSUME pool' = pool, request'[w] = NoRequest, tick <= tick'
      PROVE  SysSnapInv'
  BY <1>2, <1>3, <1>4, <1>5, NoSnapInHand, SnapsEnd
<1>6. CASE TakeSysSnap(w)
  <2>1. /\ tick' = tick + 1 /\ tick' \in 1 .. MaxTick /\ request[w].pc = "sys_snap"
        /\ \/ /\ pool' = Snapped(pool, v, tick + 1) /\ image_exists(pool, v)
              /\ request'[w] = [request[w] EXCEPT !.snap = tick + 1, !.pc = "sys_snap_save"]
           \/ pool' = pool /\ request'[w] = NoRequest
    BY <1>1, <1>3, <1>6, TakeSysSnapTyped
  <2>2. tick <= tick'
    BY <1>1, <2>1
  <2>3. CASE pool' = pool /\ request'[w] = NoRequest
    BY <1>5, <2>2, <2>3
  <2>4. CASE /\ pool' = Snapped(pool, v, tick + 1) /\ image_exists(pool, v)
             /\ request'[w] = [request[w] EXCEPT !.snap = tick + 1, !.pc = "sys_snap_save"]
    <3> DEFINE q == request'[w]
    <3>1. request[w].op = "create_sys_snap"
      BY <1>1, <2>1, OpsAt
    <3>2. q.machine = v /\ q.snap = tick + 1 /\ q.pc = "sys_snap_save" /\ q.op = "create_sys_snap"
      BY <1>1, <1>3, <2>4, <3>1 DEF RequestState
    <3>3. request'[w] = q
      OBVIOUS
    <3> HIDE DEF q
    <3>4. QED
      BY <1>2, <1>3, <2>1, <2>4, <3>2, <3>3, SnapsTaken
  <2>5. QED
    BY <2>1, <2>3, <2>4
<1>7. CASE RemoveSysSnap(w)
  <2>0. /\ tick' = tick /\ request[w].pc = "remove_sys_snap"
        /\ \/ /\ pool' = pool \/ pool' = Unsnapped(pool, v, request[w].snap)
              /\ request'[w] = [request[w] EXCEPT !.pc = "snap_rowdel"]
           \/ /\ pool' = pool \/ pool' = Unheld(pool, v, request[w].snap)
              /\ request'[w] = NoRequest
    BY <1>1, <1>3, <1>7, RemoveSysSnapTyped
  <2>1. /\ tick' = tick /\ request[w].pc = "remove_sys_snap"
        /\ \/ /\ pool' = pool \/ pool' = Unsnapped(pool, v, request[w].snap)
              /\ request'[w] = [request[w] EXCEPT !.pc = "snap_rowdel"]
           \/ pool' = pool /\ request'[w] = NoRequest
    <3>1. request[w].op = "delete_sys_snap" /\ v \in Machines /\ v \in Keys
      BY <1>1, <2>0, OpsAt, Names
    <3>2. Unheld(pool, v, request[w].snap) = pool
      BY <1>1, <3>1, NotHeld, UnheldPool
    <3>3. QED
      BY <2>0, <3>2
  <2>2. tick <= tick'
    BY <1>1, <2>1
  <2>3. CASE pool' = pool /\ request'[w] = NoRequest
    BY <1>5, <2>2, <2>3
  <2>4. CASE /\ pool' = pool \/ pool' = Unsnapped(pool, v, request[w].snap)
             /\ request'[w] = [request[w] EXCEPT !.pc = "snap_rowdel"]
    <3>1. request[w].op = "delete_sys_snap" /\ Cites(request[w]) /\ ~Holds(request[w])
      BY <1>1, <2>1, OpsAt DEF Cites, Holds, Holding
    <3>2. PICK n \in 1 .. MaxTick : request[w].snap = n /\ n \in 1 .. tick
      BY <1>1, <3>1, RbdAssumption DEF SysSnapKnows, TInv
    <3> DEFINE q == request'[w]
    <3>3. q.op = "delete_sys_snap" /\ q.machine = v /\ q.snap = n /\ q.pc = "snap_rowdel"
      BY <1>1, <1>3, <2>4, <3>1, <3>2 DEF RequestState
    <3>4. request'[w] = q
      OBVIOUS
    <3> HIDE DEF q
    <3>5. Cites(q) /\ ~Holds(q) /\ ~Copying(q) /\ Drops(q, v, n)
      BY <3>3 DEF Cites, Holds, Holding, Copying, Drops
    <3>6. SysSnapKnows(q, snaprow, tick', pool')
      BY <2>1, <3>2, <3>3, <3>5 DEF SysSnapKnows
    <3>7. \A x \in Threads \ {w} :
             (Holds(request[x]) /\ Cites(request'[w])) \/ (Cites(request[x]) /\ Holds(request'[w]))
             => request'[w].snap # request[x].snap
      <4>1. ASSUME NEW x \in Threads \ {w}, Holds(request[x])
            PROVE  request[x].snap # request[w].snap
        BY <3>1, <4>1 DEF SysSnapInv, SysSnaps
      <4>2. QED
        BY <3>2, <3>3, <3>4, <3>5, <4>1
    <3>8. \A s, c : ~Guards(request[w], v, s) /\ ~Copies(request[w], v, s, c)
      BY <3>1, <2>1 DEF Guards, Copies, Copying, Holding
    <3>9. /\ \A s \in pool'[v].protected : Guards(request[w], v, s) => Guards(request'[w], v, s)
          /\ \A c \in Keys, s \in 1 .. MaxTick :
                pool[c].parent = <<v, s>> /\ Copies(request[w], v, s, c) => Copies(request'[w], v, s, c)
      BY <3>8
    <3> DEFINE gone == IF pool' = pool THEN {} ELSE {n}
               new == {}
    <3>10. SnapsOnly(pool, pool', v, gone, new)
      <4>1. SnapsOnly(pool, Unsnapped(pool, v, n), v, {n}, {})
        BY <1>1, SnapsOnlyHere
      <4>2. QED
        BY <1>4, <2>4, <3>2, <4>1
    <3>11. /\ \A s \in gone : /\ Cites(request[w]) /\ request[w].snap = s
                              /\ Holds(request[w]) \/ Drops(request'[w], v, s)
           /\ \A s \in new : Guards(request'[w], v, s)
           /\ request[w].pc # "snap_rowdel" /\ SysSnapKnows(request'[w], snaprow, tick', pool')
      BY <2>1, <3>1, <3>2, <3>4, <3>5, <3>6
    <3> HIDE DEF gone, new
    <3>12. SnapsGoOn(w, v, gone, new)
      BY <1>2, <1>3, <2>2, <3>7, <3>9, <3>10, <3>11 DEF SnapsGoOn
    <3>13. QED
      BY <3>12, SysSnapsGo
  <2>5. QED
    BY <2>1, <2>3, <2>4
<1>8. QED
  BY <1>6, <1>7

\* A request arrives that deletes a snapshot, which has a row.
LEMMA DeleteArrives ==
    ASSUME SysSnapInv, MInv', UNCHANGED setting, NEW w \in Threads, NEW v \in Machines,
           NEW s \in 1 .. MaxTick, AboutSysSnap(w, "delete_sys_snap", v, s)
    PROVE  SysSnapInv'
<1>1. TInv /\ request \in [Threads -> RequestState] /\ tick \in Nat /\ PoolSound(pool, tick) /\ v # NoOne
  BY SysSnapOf, Names DEF TInv
<1>2. /\ Moved(w) /\ UNCHANGED <<snaprow, pool, tick>> /\ request[w] = NoRequest /\ snaprow[s] = v
  <2>1. OnlyRequest /\ snaprow[s] = v /\ request[w].pc = "idle"
    BY DEF AboutSysSnap, AboutMachine, Arrives, InStep
  <2>2. Moved(w)
    BY <1>1, AboutSysSnapTyped
  <2>3. request[w] = NoRequest
    BY <1>1, <2>1, SysSnapOf, IdleRequest
  <2>4. QED
    BY <2>1, <2>2, <2>3 DEF OnlyRequest, OnlyCeph, MachineRowsSame, CephSame
<1> DEFINE q == request'[w]
<1>3. q.op = "delete_sys_snap" /\ q.snap = s /\ q.pc = "remove_sys_snap"
  BY <1>1 DEF AboutSysSnap, NoRequest
<1>4. request'[w] = q
  OBVIOUS
<1> HIDE DEF q
<1>5. Cites(q) /\ ~Holds(q) /\ ~Copying(q)
  BY <1>3 DEF Cites, Holds, Holding, Copying
<1>6. s \in 1 .. tick
  BY <1>1, <1>2, RbdAssumption DEF SysSnapInv, SysSnaps
<1>7. SysSnapKnows(q, snaprow, tick', pool')
  BY <1>2, <1>3, <1>5, <1>6 DEF SysSnapKnows
<1>8. \A x \in Threads \ {w} :
         (Holds(request[x]) /\ Cites(request'[w])) \/ (Cites(request[x]) /\ Holds(request'[w]))
         => request'[w].snap # request[x].snap
  BY <1>1, <1>2, <1>3, <1>4, <1>5, SysSnapOf DEF SysSnapKnows
<1>9. \A x, c, u : ~Guards(request[w], u, x) /\ ~Copies(request[w], u, x, c)
  BY <1>2, NoSnapInHand
<1>10. /\ \A u \in Machines, x \in 1 .. MaxTick : ~Loses(pool, pool', u, x)
       /\ \A i \in Images : Fresh(pool, pool', i)
  BY <1>2 DEF Loses, Fresh
<1>11. \A u \in Machines :
          /\ pool'[Aside(u)].protected = {}
          /\ \A x \in pool'[u].protected : x \in pool[u].protected \/ Guards(request'[w], u, x)
          /\ \A x \in pool'[u].protected : Guards(request[w], u, x) => Guards(request'[w], u, x)
  BY <1>2, <1>9 DEF SysSnapInv, SysSnaps
<1>12. \A c \in Keys, u \in Machines, x \in 1 .. MaxTick :
          /\ pool'[c].parent # <<Aside(u), x>>
          /\ pool'[c].parent = <<u, x>>
             => (pool[c].parent = <<u, x>> /\ ~Copies(request[w], u, x, c)) \/ Copies(request'[w], u, x, c)
  BY <1>2, <1>9 DEF SysSnapInv, SysSnaps
<1>13. /\ \A x \in Threads \ {w} : request'[x] = request[x]
       /\ tick <= tick' /\ request[w].pc # "snap_rowdel"
       /\ SysSnapKnows(request'[w], snaprow, tick', pool')
       /\ UNCHANGED <<setting, snaprow>>
  BY <1>1, <1>2, <1>4, <1>7, NoSnapInHand DEF Moved
<1>14. /\ \A u \in Machines, x \in 1 .. MaxTick :
             Loses(pool, pool', u, x)
             => /\ request[w].machine = u
                /\ \/ request[w].op = "change_sys_disk"
                   \/ /\ Cites(request[w]) /\ request[w].snap = x
                      /\ Holds(request[w]) \/ Drops(request'[w], u, x)
       /\ \A i \in Images : \/ Fresh(pool, pool', i)
                            \/ request[w].op \in Publishing /\ request[w].image = i
  BY <1>10
<1>15. QED
  BY <1>8, <1>11, <1>12, <1>13, <1>14, SysSnapsMove

\* What a release has to rely on does not fail.
LEMMA ReleaseWorks ==
    ASSUME SysSnapInv, NEW w \in Threads, request[w].op = "release"
    PROVE  ~Breaks("clone") /\ ~Breaks("remove_snap") /\ ~Breaks("remove_image")
<1>1. request[w] # NoRequest
  BY DEF NoRequest
<1>2. "release" \in setting.ops
  BY <1>1 DEF SysSnapInv, MInv
<1>3. QED
  BY <1>2 DEF SysSnapInv, SysSnapSetting, Breaks

\* It finds no base image of that name, and takes a snapshot.
LEMMA ReleaseBegins ==
    ASSUME SysSnapInv, MInv', UNCHANGED setting, NEW w \in Threads, ReleaseExists(w) \/ ReleaseSnap(w)
    PROVE  SysSnapInv'
<1>1. /\ TInv /\ request[w] \in RequestState /\ PoolSound(pool, tick) /\ tick \in Nat
      /\ SysSnapKnows(request[w], snaprow, tick, pool)
  BY SysSnapOf
<1>2. Moved(w) /\ UNCHANGED snaprow /\ request[w].pc \in {"rel_exists", "rel_snap"}
  BY <1>1, ReleaseExistsTyped, ReleaseSnapTyped
<1>3. /\ \A x \in Threads \ {w} : request'[x] = request[x]
      /\ request[w].pc \notin (Holding \ {"sys_snap_save"}) \cup {"snap_rowdel"}
  BY <1>2 DEF Moved, Holding
<1>4. request[w].op = "release" /\ request[w].image \in Images /\ request[w].machine \in Machines
  BY <1>1, <1>2, ReleaseAt
<1>5. PICK v \in Machines, i \in Images : request[w].machine = v /\ request[w].image = i
  BY <1>4
<1>6. CASE ReleaseExists(w)
  <2>1. /\ pool' = pool /\ tick' = tick
        /\ \/ ~image_exists(pool, i) /\ request'[w] = [request[w] EXCEPT !.pc = "rel_snap"]
           \/ request'[w] = NoRequest
    BY <1>1, <1>5, <1>6, ReleaseExistsTyped
  <2>2. SnapsOnly(pool, pool', v, {}, {}) /\ tick <= tick'
    <3>1. SnapsOnly(pool, pool, v, {}, {})
      BY <1>1, SnapsOnlyHere
    <3>2. QED
      BY <1>1, <2>1, <3>1
  <2>3. ~Cites(request'[w]) /\ SysSnapKnows(request'[w], snaprow, tick', pool')
    <3>1. CASE request'[w] = NoRequest
      BY <3>1, NoSnapInHand
    <3>2. CASE ~image_exists(pool, i) /\ request'[w] = [request[w] EXCEPT !.pc = "rel_snap"]
      <4> DEFINE q == request'[w]
      <4>1. q.pc = "rel_snap" /\ q.op = "release" /\ q.image = i
        BY <1>1, <1>4, <1>5, <3>2 DEF RequestState
      <4>2. request'[w] = q
        OBVIOUS
      <4> HIDE DEF q
      <4>3. ~Cites(q) /\ ~Holds(q) /\ ~Copying(q)
        BY <4>1 DEF Cites, Holds, Holding, Copying
      <4>4. SysSnapKnows(q, snaprow, tick', pool')
        BY <2>1, <3>2, <4>1, <4>3 DEF SysSnapKnows
      <4>5. QED
        BY <4>2, <4>3, <4>4
    <3>3. QED
      BY <2>1, <3>1, <3>2
  <2>4. QED
    BY <1>2, <1>3, <1>5, <2>2, <2>3, SnapsEnd
<1>7. CASE ReleaseSnap(w)
  <2>1. /\ tick' = tick + 1 /\ tick' \in 1 .. MaxTick /\ request[w].pc = "rel_snap"
        /\ \/ /\ pool' = Protected(pool, v, tick + 1) /\ image_exists(pool, v)
              /\ request'[w] = [request[w] EXCEPT !.snap = tick + 1, !.pc = "rel_clone"]
           \/ pool' = pool /\ request'[w] = NoRequest
           \/ /\ pool' = Snapped(pool, v, tick + 1) /\ image_exists(pool, v)
              /\ request'[w] = NoRequest
    BY <1>1, <1>5, <1>7, ReleaseSnapTyped
  <2>2. tick <= tick'
    BY <1>1, <2>1
  <2>3. CASE /\ pool' = pool \/ (pool' = Snapped(pool, v, tick + 1) /\ image_exists(pool, v))
             /\ request'[w] = NoRequest
    BY <1>1, <1>2, <1>3, <1>5, <2>1, <2>2, <2>3, SnapsOnlyHere, NoSnapInHand, SnapsEnd
  <2>4. CASE /\ pool' = Protected(pool, v, tick + 1) /\ image_exists(pool, v)
             /\ request'[w] = [request[w] EXCEPT !.snap = tick + 1, !.pc = "rel_clone"]
    <3> DEFINE q == request'[w]
    <3>1. q.machine = v /\ q.snap = tick + 1 /\ q.pc = "rel_clone" /\ q.op = "release" /\ q.image = i
      BY <1>1, <1>4, <1>5, <2>4 DEF RequestState
    <3>2. ~image_exists(pool, i)
      BY <1>1, <1>5, <2>1 DEF SysSnapKnows
    <3>3. request'[w] = q
      OBVIOUS
    <3> HIDE DEF q
    <3>4. QED
      BY <1>2, <1>3, <1>5, <2>1, <2>4, <3>1, <3>2, <3>3, SnapsTaken
  <2>5. QED
    BY <2>1, <2>3, <2>4
<1>8. QED
  BY <1>6, <1>7

\* A release works on its base image: it is cloned from the snapshot, made
\* independent of it, or removed again.
LEMMA ReleaseCopies ==
    ASSUME SysSnapInv, MInv', UNCHANGED <<setting, snaprow, tick>>, NEW w \in Threads,
           \A x \in Threads \ {w} : request'[x] = request[x], request[w].op = "release",
           NEW v \in Machines, NEW i \in Images, NEW s, request[w].machine = v, request[w].image = i,
           request[w].snap = s, NEW q, request'[w] = q, q.op = "release", q.machine = v, q.image = i,
           q.snap = s, Holds(request[w]), q.pc \in Holding \ {"sys_snap_save", "rel_clone"},
           \A k \in Keys \ {i} : pool'[k] = pool[k],
           Copying(q) => Bare(pool'[i]),
           pool'[i].parent = NoParent
              \/ (Copying(q) /\ pool'[i].parent = <<v, s>>)
              \/ (Copying(q) /\ Copying(request[w]) /\ pool'[i].parent = pool[i].parent)
    PROVE  SysSnapInv'
<1>1. tick \in Nat /\ tick <= tick' /\ tick' = tick /\ SysSnapKnows(request[w], snaprow, tick, pool)
  BY SysSnapOf
<1>2. /\ i \in Keys /\ \A u \in Machines : u \in Keys \ {i} /\ Aside(u) \in Keys \ {i} /\ Aside(u) # v
      /\ \A j \in Images : j \in Keys
  BY Names
<1>3. Cites(request[w]) /\ Cites(q) /\ Holds(q)
  BY DEF Cites, Holds
<1>4. SysSnapKnows(q, snaprow, tick', pool')
  BY <1>1, <1>3 DEF SysSnapKnows, Holding
<1>5. \A x \in Threads \ {w} :
         (Holds(request[x]) /\ Cites(request'[w])) \/ (Cites(request[x]) /\ Holds(request'[w]))
         => request'[w].snap # request[x].snap
  BY <1>3 DEF SysSnapInv, SysSnaps
<1>6. \A u \in Machines, x \in 1 .. MaxTick : ~Loses(pool, pool', u, x)
  BY <1>2 DEF Loses, HasSnap
<1>7. \A j \in Images : \/ Fresh(pool, pool', j)
                        \/ request[w].op \in Publishing /\ request[w].image = j
  BY <1>2 DEF Fresh, image_exists, Publishing
<1>8. ASSUME NEW u \in Machines
      PROVE  /\ pool'[Aside(u)].protected = {}
             /\ \A x \in pool'[u].protected : x \in pool[u].protected \/ Guards(request'[w], u, x)
             /\ \A x \in pool'[u].protected : Guards(request[w], u, x) => Guards(request'[w], u, x)
  BY <1>2 DEF SysSnapInv, SysSnaps, Guards
<1>9. ASSUME NEW c \in Keys, NEW u \in Machines, NEW x \in 1 .. MaxTick
      PROVE  /\ pool'[c].parent # <<Aside(u), x>>
             /\ pool'[c].parent = <<u, x>>
                => (pool[c].parent = <<u, x>> /\ ~Copies(request[w], u, x, c)) \/ Copies(request'[w], u, x, c)
  <2>1. pool[c].parent # <<Aside(u), x>>
    BY DEF SysSnapInv, SysSnaps
  <2>2. CASE c # i
    BY <2>1, <2>2 DEF Copies
  <2>3. CASE c = i
    <3>1. CASE pool'[i].parent = NoParent
      BY <2>3, <3>1 DEF NoParent
    <3>2. CASE Copying(q) /\ pool'[i].parent = <<v, s>>
      BY <1>2, <2>3, <3>2 DEF Copies
    <3>3. CASE Copying(q) /\ Copying(request[w]) /\ pool'[i].parent = pool[i].parent
      BY <2>1, <2>3, <3>3 DEF Copies
    <3>4. QED
      BY <3>1, <3>2, <3>3
  <2>4. QED
    BY <2>2, <2>3
<1>10. /\ request[w].pc # "snap_rowdel" /\ SysSnapKnows(request'[w], snaprow, tick', pool')
       /\ \A u \in Machines, x \in 1 .. MaxTick :
             Loses(pool, pool', u, x)
             => /\ request[w].machine = u
                /\ \/ request[w].op = "change_sys_disk"
                   \/ /\ Cites(request[w]) /\ request[w].snap = x
                      /\ Holds(request[w]) \/ Drops(request'[w], u, x)
  BY <1>4, <1>6 DEF Holds, Holding
<1>11. QED
  BY <1>1, <1>5, <1>7, <1>8, <1>9, <1>10, SysSnapsMove

\* The clone works, as the snapshot is there, protected, and no base image is.
LEMMA ReleaseGoesOnSnaps ==
    ASSUME SysSnapInv, MInv', UNCHANGED setting, NEW w \in Threads,
           ReleaseClone(w) \/ ReleaseFlatten(w) \/ ReleaseRemove(w)
    PROVE  SysSnapInv'
<1>1. /\ TInv /\ request[w] \in RequestState /\ PoolSound(pool, tick)
      /\ SysSnapKnows(request[w], snaprow, tick, pool)
  BY SysSnapOf
<1>2. Moved(w) /\ UNCHANGED <<snaprow, tick>> /\ request[w].pc \in {"rel_clone", "rel_flatten", "rel_remove"}
  BY <1>1, ReleaseCloneTyped, ReleaseFlattenTyped, ReleaseRemoveTyped
<1>3. /\ \A x \in Threads \ {w} : request'[x] = request[x]
      /\ Holds(request[w]) /\ Cites(request[w])
      /\ (request[w].pc # "rel_clone" => Copying(request[w]))
  BY <1>2 DEF Moved, Holds, Holding, Cites, Copying
<1>4. request[w].op = "release" /\ request[w].image \in Images /\ request[w].machine \in Machines
  BY <1>1, <1>2, ReleaseAt
<1>5. PICK v \in Machines, i \in Images, s \in 1 .. tick :
         request[w].machine = v /\ request[w].image = i /\ request[w].snap = s
  BY <1>1, <1>3, <1>4 DEF SysSnapKnows
<1>6. i \in Keys /\ v \in Keys
  BY Names
<1>7. ~Breaks("clone") /\ ~Breaks("remove_image")
  BY <1>4, ReleaseWorks
<1> DEFINE q == request'[w]
           goes(pc) == /\ q.op = "release" /\ q.machine = v /\ q.image = i /\ q.snap = s /\ q.pc = pc
<1>8. ASSUME NEW pc, request'[w] = [request[w] EXCEPT !.pc = pc]
      PROVE  goes(pc)
  BY <1>1, <1>4, <1>5, <1>8 DEF RequestState
<1>9. request'[w] = q
  OBVIOUS
<1> HIDE DEF q
<1>10. Copying(q) <=> q.pc \in {"rel_flatten", "rel_remove"}
  BY DEF Copying
<1>11. /\ q.op = "release" /\ q.machine = v /\ q.image = i /\ q.snap = s
       /\ q.pc \in Holding \ {"sys_snap_save", "rel_clone"}
       /\ \A k \in Keys \ {i} : pool'[k] = pool[k]
       /\ Copying(q) => Bare(pool'[i])
       /\ pool'[i].parent = NoParent
             \/ (Copying(q) /\ pool'[i].parent = <<v, s>>)
             \/ (Copying(q) /\ Copying(request[w]) /\ pool'[i].parent = pool[i].parent)
  <2> DEFINE goal == /\ q.op = "release" /\ q.machine = v /\ q.image = i /\ q.snap = s
                     /\ q.pc \in {"rel_flatten", "rel_remove", "rel_unsnap", "rel_unsnap_failed"}
                     /\ \A k \in Keys \ {i} : pool'[k] = pool[k]
                     /\ Copying(q) => Bare(pool'[i])
                     /\ pool'[i].parent = NoParent
                           \/ (Copying(q) /\ pool'[i].parent = <<v, s>>)
                           \/ (Copying(q) /\ Copying(request[w]) /\ pool'[i].parent = pool[i].parent)
  <2>1. ASSUME ReleaseClone(w)
        PROVE  goal
    <3>1. /\ request[w].pc = "rel_clone"
          /\ \/ pool' = Cloned(pool, v, s, i) /\ request'[w] = [request[w] EXCEPT !.pc = "rel_flatten"]
             \/ Breaks("clone") \/ ~(HasSnap(pool, v, s) /\ s \in pool[v].protected /\ ~image_exists(pool, i))
      BY <1>1, <1>5, <2>1, ReleaseCloneTyped
    <3>2. HasSnap(pool, v, s) /\ s \in pool[v].protected /\ ~image_exists(pool, i)
      BY <1>1, <1>5, <3>1 DEF SysSnapKnows
    <3>3. goes("rel_flatten") /\ pool' = Cloned(pool, v, s, i)
      BY <1>7, <1>8, <3>1, <3>2
    <3>4. /\ \A k \in Keys \ {i} : pool'[k] = pool[k]
          /\ pool'[i].parent = <<v, s>> /\ \A x \in 1 .. MaxTick : pool'[i].snaps[x] = 0
      BY <1>1, <1>6, <3>2, <3>3, ClonedPool
    <3>5. QED
      BY <1>10, <3>3, <3>4 DEF Bare
  <2>2. ASSUME ReleaseFlatten(w)
        PROVE  goal
    <3>1. /\ request[w].pc = "rel_flatten"
          /\ \/ pool' = Flat(pool, i) /\ request'[w] = [request[w] EXCEPT !.pc = "rel_unsnap"]
             \/ pool' = pool /\ request'[w] = [request[w] EXCEPT !.pc = "rel_remove"]
      BY <1>1, <1>5, <2>2, ReleaseFlattenTyped
    <3>2. Bare(pool[i]) /\ Copying(request[w])
      BY <1>1, <1>3, <1>5, <3>1 DEF SysSnapKnows
    <3>3. CASE pool' = Flat(pool, i) /\ request'[w] = [request[w] EXCEPT !.pc = "rel_unsnap"]
      <4>1. (\A k \in Keys \ {i} : pool'[k] = pool[k]) /\ pool'[i].parent = NoParent
        BY <1>1, <1>6, <3>3, FlatPool
      <4>2. goes("rel_unsnap")
        BY <1>8, <3>3
      <4>3. QED
        BY <1>10, <4>1, <4>2
    <3>4. CASE pool' = pool /\ request'[w] = [request[w] EXCEPT !.pc = "rel_remove"]
      BY <1>8, <1>10, <3>2, <3>4
    <3>5. QED
      BY <3>1, <3>3, <3>4
  <2>3. ASSUME ReleaseRemove(w)
        PROVE  goal
    <3>1. /\ request[w].pc = "rel_remove"
          /\ \/ /\ pool' = Gone(pool, i)
                /\ request'[w] = [request[w] EXCEPT !.pc = "rel_unsnap_failed"]
             \/ Breaks("remove_image") \/ \E x \in 1 .. MaxTick : HasSnap(pool, i, x)
      BY <1>1, <1>5, <2>3, ReleaseRemoveTyped
    <3>2. \A x \in 1 .. MaxTick : ~HasSnap(pool, i, x)
      BY <1>1, <1>3, <1>5, <3>1 DEF SysSnapKnows, Bare, HasSnap
    <3>3. goes("rel_unsnap_failed") /\ pool' = Gone(pool, i)
      BY <1>7, <1>8, <3>1, <3>2
    <3>4. (\A k \in Keys \ {i} : pool'[k] = pool[k]) /\ pool'[i].parent = NoParent
      BY <1>1, <1>6, <3>3, GonePool DEF NoImage
    <3>5. QED
      BY <1>10, <3>3, <3>4
  <2>4. goal
    BY <2>1, <2>2, <2>3
  <2>5. QED
    BY <2>4 DEF Holding
<1>12. UNCHANGED <<setting, snaprow, tick>>
  BY <1>2
<1>13. QED
  BY <1>3, <1>4, <1>5, <1>9, <1>11, <1>12, ReleaseCopies

\* The snapshot goes, as nothing is cloned from it any more.
LEMMA ReleaseUnsnapSnaps ==
    ASSUME SysSnapInv, MInv', UNCHANGED setting, NEW w \in Threads, ReleaseUnsnap(w) \/ ReleaseUndoSnap(w)
    PROVE  SysSnapInv'
<1>1. /\ TInv /\ request[w] \in RequestState /\ PoolSound(pool, tick) /\ tick \in Nat
      /\ SysSnapKnows(request[w], snaprow, tick, pool)
  BY SysSnapOf
<1>2. /\ Moved(w) /\ UNCHANGED <<snaprow, tick>> /\ request[w].machine \in Machines
      /\ \/ /\ request[w].pc = "rel_unsnap"
            /\ request'[w] = [request[w] EXCEPT !.pc = "create_image"]
         \/ request[w].pc = "rel_unsnap_failed" /\ request'[w] = NoRequest
  BY <1>1, ReleaseUnsnapTyped
<1>3. /\ \A x \in Threads \ {w} : request'[x] = request[x]
      /\ Holds(request[w]) /\ Cites(request[w]) /\ ~Copying(request[w])
      /\ request[w].pc \in {"rel_unsnap", "rel_unsnap_failed"}
  BY <1>2 DEF Moved, Holds, Holding, Cites, Copying
<1>4. request[w].op = "release"
  BY <1>1, <1>3, ReleaseAt
<1>5. PICK v \in Machines : request[w].machine = v
  BY <1>2
<1>6. PICK s \in 1 .. MaxTick : request[w].snap = s
  BY <1>1, <1>3, RbdAssumption DEF SysSnapKnows, TInv
<1>7. Children(pool, v, s) = {}
  <2>1. ASSUME NEW c \in Keys, pool[c].parent = <<v, s>>
        PROVE  FALSE
    <3>1. PICK x \in Threads : Copies(request[x], v, s, c)
      BY <2>1 DEF SysSnapInv, SysSnaps
    <3>2. x # w /\ Cites(request[x]) /\ request[x].snap = s
      BY <1>3, <3>1 DEF Copies, Copying, Cites, Holds, Holding
    <3>3. QED
      BY <1>3, <1>6, <3>2 DEF SysSnapInv, SysSnaps
  <2>2. QED
    BY <2>1 DEF Children
<1>8. \/ ~HasSnap(pool, v, s) /\ pool' = pool
      \/ pool' = Unsnapped(pool, v, s)
  BY <1>1, <1>4, <1>5, <1>6, <1>7, ReleaseWorks, ReleaseUnsnapTyped
<1>9. ~HasSnap(pool, v, s) => s \notin pool[v].protected
  BY <1>1, Names DEF PoolSound, Sound, HasSnap
<1>10. ~Cites(request'[w]) /\ ~Holds(request'[w]) /\ SysSnapKnows(request'[w], snaprow, tick', pool')
  <2>1. CASE request'[w] = NoRequest
    BY <2>1, NoSnapInHand
  <2>2. CASE request'[w] = [request[w] EXCEPT !.pc = "create_image"]
    <3> DEFINE q == request'[w]
    <3>1. q.pc = "create_image" /\ q.op = "release"
      BY <1>1, <1>4, <2>2 DEF RequestState
    <3>2. request'[w] = q
      OBVIOUS
    <3> HIDE DEF q
    <3>3. ~Cites(q) /\ ~Holds(q) /\ ~Copying(q)
      BY <3>1 DEF Cites, Holds, Holding, Copying
    <3>4. SysSnapKnows(q, snaprow, tick', pool')
      BY <3>1, <3>3 DEF SysSnapKnows
    <3>5. QED
      BY <3>2, <3>3, <3>4
  <2>3. QED
    BY <1>2, <2>1, <2>2
<1> DEFINE gone == IF pool' = pool THEN {} ELSE {s}
           new == {}
<1>11. SnapsOnly(pool, pool', v, gone, new)
  BY <1>1, <1>8, SnapsOnlyHere
<1>12. s \notin pool'[v].protected
  <2>1. CASE pool' = Unsnapped(pool, v, s)
    BY <1>1, <2>1, Names, UnsnappedPool
  <2>2. QED
    BY <1>8, <1>9, <2>1
<1>13. /\ \A x \in pool'[v].protected : Guards(request[w], v, x) => Guards(request'[w], v, x)
       /\ \A c \in Keys, x \in 1 .. MaxTick :
             pool[c].parent = <<v, x>> /\ Copies(request[w], v, x, c) => Copies(request'[w], v, x, c)
  BY <1>3, <1>6, <1>12 DEF Guards, Copies
<1>14. /\ \A x \in gone : /\ Cites(request[w]) /\ request[w].snap = x
                          /\ Holds(request[w]) \/ Drops(request'[w], v, x)
       /\ \A x \in new : Guards(request'[w], v, x)
       /\ request[w].pc # "snap_rowdel" /\ tick <= tick' /\ UNCHANGED <<setting, snaprow>>
  BY <1>1, <1>2, <1>3, <1>6
<1>15. \A x \in Threads \ {w} :
          (Holds(request[x]) /\ Cites(request'[w])) \/ (Cites(request[x]) /\ Holds(request'[w]))
          => request'[w].snap # request[x].snap
  BY <1>10
<1> HIDE DEF gone, new
<1>16. SnapsGoOn(w, v, gone, new)
  BY <1>3, <1>5, <1>10, <1>11, <1>13, <1>14, <1>15 DEF SnapsGoOn
<1>17. QED
  BY <1>16, SysSnapsGo

\* Every step of a request about a machine keeps it.
LEMMA MachineStepSysSnaps ==
    ASSUME SysSnapInv, MInv', UNCHANGED setting, NEW w \in Threads, MachineStep(w)
    PROVE  SysSnapInv'
<1>1. CASE \/ CloneDisk(w) \/ ResizeNewDisk(w) \/ SaveMachine(w) \/ DefineMachine(w) \/ RemoveNewDisk(w)
           \/ CloneNewDisk(w) \/ DefineNew(w) \/ SaveNew(w) \/ RemoveNew(w)
           \/ RemountDevices(w) \/ ReadSize(w) \/ SaveSize(w) \/ ResizeSysDisk(w) \/ RollbackDisk(w)
  BY <1>1, ChangersGoOn
<1>2. CASE RenameSysDisk(w) \/ RenameBack(w)
  BY <1>2, RenameSysSnaps
<1>3. CASE TakeSysSnap(w) \/ SaveSysSnap(w) \/ RemoveSysSnap(w) \/ DeleteSysSnapRow(w)
  BY <1>3, SnapSysSnaps, RowSysSnaps
<1>4. CASE \/ ReleaseExists(w) \/ ReleaseSnap(w) \/ ReleaseClone(w) \/ ReleaseFlatten(w)
           \/ ReleaseRemove(w) \/ ReleaseUndoSnap(w) \/ ReleaseUnsnap(w)
  BY <1>4, ReleaseBegins, ReleaseGoesOnSnaps, ReleaseUnsnapSnaps
<1>5. ASSUME NEW v \in Machines, NEW op, NEW s \in 1 .. MaxTick, AboutSysSnap(w, op, v, s)
      PROVE  SysSnapInv'
  BY <1>5, OthersArriveSnaps, DeleteArrives DEF AboutSysSnap
<1>6. ASSUME NEW v \in Machines,
             \/ MachinePower(w, v) \/ CreateSysSnap(w, v)
             \/ \E size \in 1 .. MaxSize :
                  \/ ExpandSysDisk(w, v, size)
                  \/ \E i \in Images : CreateMachine(w, v, i, size)
             \/ \E i \in Images : ChangeSysDisk(w, v, i) \/ ReleaseImage(w, v, i)
             \/ \E op \in ImageOps, s \in 1 .. MaxTick : AboutSysSnap(w, op, v, s)
      PROVE  SysSnapInv'
  BY <1>5, <1>6, OthersArriveSnaps, ChangeSysSnaps
<1>7. QED
  BY <1>1, <1>2, <1>3, <1>4, <1>6 DEF MachineStep

\* So does every step of the system, and none.
LEMMA StepSysSnaps ==
    ASSUME SysSnapInv, [ImagesNext]_imageVars
    PROVE  SysSnapInv'
<1>1. MInv
  BY DEF SysSnapInv
<1>2. CASE ImagesNext
  <2>1. MInv' /\ UNCHANGED setting
    BY <1>1, <1>2, StepMeeting DEF ImagesNext
  <2>2. PICK w \in Threads : ImageStep(w) \/ MachineStep(w)
    BY <1>2 DEF ImagesNext
  <2>3. QED
    BY <2>1, <2>2, ImageSysSnaps, MachineStepSysSnaps
<1>3. CASE UNCHANGED imageVars
  BY <1>1, <1>3, StutterMeeting DEF imageVars, SysSnapInv, SysSnaps
<1>4. QED
  BY <1>2, <1>3

\* At the start no disk of a machine has a snapshot.
LEMMA InitSysSnaps ==
    ASSUME ImagesInit, SysSnapSetting(setting)
    PROVE  SysSnapInv
<1>1. MInv
  BY InitMeeting
<1>2. (\A w \in Threads : request[w] = NoRequest) /\ \A s \in 1 .. MaxTick : snaprow[s] = NoOne
  BY DEF ImagesInit
<1> DEFINE first == CHOOSE i \in Images : TRUE
           made == CHOOSE v \in Machines : TRUE
<1>3. pool = [EmptyPool EXCEPT
                ![first] = [NoImage EXCEPT !.size = 1, !.snaps[1] = 1, !.protected = {1}],
                ![made] = [NoImage EXCEPT !.size = 1, !.parent = <<first, 1>>]]
  BY DEF ImagesInit
<1>4. made \in Machines /\ first \in Images
  BY ImageAssumption
<1> HIDE DEF first, made
<1>5. ASSUME NEW c \in Keys
      PROVE  /\ c # first => pool[c].protected = {}
             /\ pool[c].parent \in {NoParent, <<first, 1>>}
  BY <1>3, <1>4, Names DEF EmptyPool, NoImage
<1>6. ASSUME NEW v \in Machines
      PROVE  pool[v].protected = {} /\ pool[Aside(v)].protected = {}
  BY <1>4, <1>5, Names
<1>7. ASSUME NEW c \in Keys, NEW v \in Machines, NEW s
      PROVE  pool[c].parent # <<Aside(v), s>> /\ pool[c].parent # <<v, s>>
  BY <1>4, <1>5, Names DEF NoParent
<1>8. SysSnaps
  BY <1>2, <1>6, <1>7, NoSnapInHand DEF SysSnaps
<1>9. QED
  BY <1>1, <1>8 DEF SysSnapInv

\* What is known of the snapshots of disks is what has to hold of them.
LEMMA SysSnapsHeld ==
    ASSUME SysSnapInv
    PROVE  SnapshotsOfDisk
<1>1. snaprow \in [1 .. MaxTick -> Machines \cup {NoOne}] /\ NoOne \notin Machines
  BY Names DEF SysSnapInv, MInv, TInv
<1>2. ASSUME NEW v \in Machines, NEW s \in 1 .. MaxTick, snaprow[s] = v, ~HasSnap(pool, v, s)
      PROVE  MachineBusy({"delete_sys_snap"}, v)
  <2>1. PICK w \in Threads : Drops(request[w], v, s)
    BY <1>1, <1>2 DEF SysSnapInv, SysSnaps
  <2>2. request[w].op = "delete_sys_snap"
    BY <2>1, SysSnapOf, OpsAt DEF Drops
  <2>3. QED
    BY <2>1, <2>2 DEF Drops, MachineBusy, RequestsOn
<1>3. ASSUME NEW v \in Machines, pool[v].protected # {}
      PROVE  MachineBusy({"release"}, v)
  <2>1. PICK s \in pool[v].protected : TRUE
    BY <1>3
  <2>2. PICK w \in Threads : Guards(request[w], v, s)
    BY DEF SysSnapInv, SysSnaps
  <2>3. request[w].op = "release"
    BY <2>2, SysSnapOf DEF Guards
  <2>4. QED
    BY <2>2, <2>3 DEF Guards, MachineBusy, RequestsOn
<1>4. QED
  BY <1>1, <1>2, <1>3 DEF SnapshotsOfDisk

\* Every row of a snapshot names one that the disk has, unless the request that
\* deletes it is at work; and no snapshot of the disk of a machine stays
\* protected when no release is at work on it; for every number of images,
\* machines and threads, as long as no snapshot is taken of a disk whose system
\* is being changed, no request makes, deletes or updates the image a release
\* makes meanwhile, and the calls of ceph it does not make up for work.
THEOREM SnapshotsOfDisks ==
    ASSUME \A s \in Settings : SysSnapSetting(s)
    PROVE  ImagesSpec => []SnapshotsOfDisk
<1>1. ImagesInit => SysSnapInv
  BY InitSysSnaps DEF ImagesInit
<1>2. SysSnapInv /\ [ImagesNext]_imageVars => SysSnapInv'
  BY StepSysSnaps
<1>3. SysSnapInv => SnapshotsOfDisk
  BY SysSnapsHeld
<1>4. QED
  BY <1>1, <1>2, <1>3, PTL DEF ImagesSpec
=============================================================================
