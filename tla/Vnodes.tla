------------------------------- MODULE Vnodes -------------------------------
(***************************************************************************)
(* Vnodes and the name cache of one mount (sys/kern/vfs_subr.rs,           *)
(* vfs_cache.rs, vfs_lookup.rs), under the system calls that take a path   *)
(* (vfs_syscalls.rs), closes, mappings, references dropped where no file   *)
(* system may be entered, and (forced) unmounts.  A vnode is its address:  *)
(* freed memory is handed out again.  A call with a path holds the giant   *)
(* lock throughout and sleeps for the disk in between; a close does not    *)
(* hold it.                                                                *)
(***************************************************************************)
EXTENDS Naturals, Sequences, FiniteSets, FiniteSetsExt, SequencesExt, TLC

CONSTANTS
    Procs,
    Inodes,         \* file ids besides the root directory's
    Names,
    Aliases,        \* Aliases[n]: other names an entry made as n answers to
    Casefold,       \* VFCF_CASEFOLD
    MaxVn,          \* bound on the vnodes in memory
    maxvnodes,      \* kern.maxvnodes
    Entries,        \* page cache entries
    Ops,            \* the calls made with a path, and "exec" for programs that run
    Races           \* whether files others may find are closed while a process sleeps
                    \* holding the lock, and mounts go while such a close waits

VARIABLES
    s,      \* the kernel's tables and the file system's directory
    lock,   \* holder of the giant lock, 0 if none
    pc,     \* where a process is asleep
    fd,     \* fd[p]: the vnode p has open, 0 if none
    map,    \* map[p]: the page cache entry p maps, 0 if none
    text    \* text[p]: the vnode of the program p runs, 0 if none

vars == <<s, lock, pc, fd, map, text>>

Ids == 1..MaxVn
Root == 0
Files == {Root} \cup Inodes
NoVnode == [file |-> Root, use |-> 0, hold |-> 0, doomed |-> TRUE, inact |-> FALSE, made |-> FALSE]
NoPages == [vp |-> 0, uses |-> 0, cached |-> FALSE]
Idle == [op |-> "none"]
Made(t) == {v \in Ids : t.vn[v].made}
Wrong(t) == [t EXCEPT !.wrong = TRUE]

-----------------------------------------------------------------------------
(* The name cache.                                                         *)

\* remove_key; the entries are in order of age.
Without(t, P(_)) == [t EXCEPT !.names = SelectSeq(@, LAMBDA e : ~P(e))]
Keyed(t, d, n) == {e \in Range(t.names) : e.dir = d /\ e.name = n}

limit == maxvnodes * 2
Youngest(names) == IF Len(names) < limit THEN names ELSE SubSeq(names, Len(names) - limit + 2, Len(names))
enter(t, d, n, v) ==
    [Without(t, LAMBDA e : e.dir = d /\ e.name = n) EXCEPT
        !.names = Append(Youngest(@), [dir |-> d, name |-> n, vp |-> v])]

\* purge_name: on a file system that folds case, every name of the same file too.
purge_name(t, d, n) ==
    LET same == IF Casefold THEN {e.vp : e \in Keyed(t, d, n)} \ {0} ELSE {}
    IN  Without(t, LAMBDA e : e.dir = d /\ (e.name = n \/ e.vp \in same))

purge(t, v) ==
    [Without(t, LAMBDA e : e.dir = v \/ e.vp = v) EXCEPT
        !.opened = [x \in Ids |-> IF x = v \/ @[x] = v THEN 0 ELSE @[x]]]

\* purge_negative that does nothing.
purge_negative_MUT(t, d) == t
purge_negative(t, d) == Without(t, LAMBDA e : e.dir = d /\ e.vp = 0)
note_opened(t, d, v) == [t EXCEPT !.opened[v] = d]

-----------------------------------------------------------------------------
(* The free list: by_age may hold a vnode twice, age_of knows one of them. *)

push(t, v) == [t EXCEPT !.by_age = Append(@, v), !.age_of = @ \cup {v}]
unfree(t, v) ==
    IF v \notin t.age_of THEN t
    ELSE [t EXCEPT !.by_age = RemoveAt(@, Max({i \in DOMAIN @ : @[i] = v})), !.age_of = @ \ {v}]

free_vnode(t, v) == IF t.vn[v].made THEN [t EXCEPT !.vn[v] = NoVnode] ELSE Wrong(t)

-----------------------------------------------------------------------------
(* References, and the page cache's.                                       *)

vref(t, v) ==
    LET u == [t EXCEPT !.vn[v].use = @ + 1]
    IN  IF u.vn[v].use = 1 /\ u.vn[v].hold = 0 THEN unfree(u, v) ELSE u

vhold(t, v) ==
    LET u == [t EXCEPT !.vn[v].hold = @ + 1]
    IN  IF u.vn[v].hold = 1 /\ u.vn[v].use = 0 THEN unfree(u, v) ELSE u

\* The end of a vnode nothing refers to.
settle(t, v) == IF t.vn[v].doomed THEN free_vnode(t, v) ELSE push(t, v)

vdrop(t, v) ==
    LET u == [t EXCEPT !.vn[v].hold = @ - 1]
    IN  IF t.vn[v].hold = 0 THEN Wrong(t)
        ELSE IF u.vn[v].hold = 0 /\ u.vn[v].use = 0 /\ ~u.vn[v].inact THEN settle(u, v) ELSE u

remove_entry(t, i) == vdrop([t EXCEPT !.pages[i] = NoPages], t.pages[i].vp)
retire(t, i) == IF t.pages[i].uses = 0 THEN remove_entry(t, i) ELSE [t EXCEPT !.pages[i].cached = FALSE]
by_content(t, v) == {i \in Entries : t.pages[i].cached /\ t.pages[i].vp = v}
vnode_gone(t, v) == FoldSet(LAMBDA i, x : retire(x, i), t, by_content(t, v))

vgone(t, v) ==
    IF t.vn[v].doomed THEN t
    ELSE vnode_gone([purge([t EXCEPT !.vn[v].doomed = TRUE], v) EXCEPT
                        !.hash[t.vn[v].file] = IF @ = v THEN 0 ELSE @], v)

recycle_one(t) ==
    IF t.by_age = <<>> THEN t
    ELSE LET v == Head(t.by_age)
             u == [t EXCEPT !.by_age = Tail(@), !.age_of = @ \ {v}]
         IN  IF ~t.vn[v].made THEN Wrong(t) ELSE free_vnode(vgone(u, v), v)

\* The file is gone: so is its vnode, at once from the free list, else when it is
\* let go.
vrecycle(t, f) ==
    LET v == t.hash[f] IN
    IF v = 0 THEN t
    ELSE IF v \in t.age_of THEN free_vnode(vgone(unfree(t, v), v), v)
    ELSE vgone(t, v)

fileid_busy(t, f) ==
    \/ t.hash[f] # 0 /\ t.vn[t.hash[f]].use > 0
    \/ \E i \in DOMAIN t.deferred : ~t.vn[t.deferred[i]].doomed /\ t.vn[t.deferred[i]].file = f

\* maybe_release with no look at who uses the file.
maybe_release_MUT(t, f) ==
    IF f = Root \/ f \notin t.live \/ (\E n \in Names : t.links[n] = f) THEN t
    ELSE vrecycle([t EXCEPT !.live = @ \ {f}], f)

\* What a file system's inactive, remove and rename do with a file that may have
\* lost its last name: its storage goes once nobody uses it.
maybe_release(t, f) ==
    IF f = Root \/ f \notin t.live \/ (\E n \in Names : t.links[n] = f) \/ fileid_busy(t, f) THEN t
    ELSE vrecycle([t EXCEPT !.live = @ \ {f}], f)

\* vrele up to the call of inactive, and from there on; inactive is not for a vnode
\* that has left its file.
vreleLast(t, v) == [t EXCEPT !.vn[v].use = @ - 1, !.vn[v].inact = ~t.vn[v].doomed]
Released(t, v) ==
    IF ~t.vn[v].made THEN Wrong(t)
    ELSE IF t.vn[v].use > 0 \/ t.vn[v].hold > 0 THEN [t EXCEPT !.vn[v].inact = FALSE]
    ELSE settle([t EXCEPT !.vn[v].inact = FALSE], v)
vreleRest(t, v) ==
    IF ~t.vn[v].made \/ (t.vn[v].inact /\ t.vn[v].doomed) THEN Wrong(t)
    ELSE Released(IF t.vn[v].inact THEN maybe_release(t, t.vn[v].file) ELSE t, v)
vrele(t, v) ==
    IF t.vn[v].use = 0 THEN Wrong(t)
    ELSE IF t.vn[v].use > 1 THEN [t EXCEPT !.vn[v].use = @ - 1]
    ELSE vreleRest(vreleLast(t, v), v)

vrele_deferred(t, v) ==
    IF t.vn[v].use > 1 THEN [t EXCEPT !.vn[v].use = @ - 1] ELSE [t EXCEPT !.deferred = Append(@, v)]

RECURSIVE drain_deferred(_)
drain_deferred(t) ==
    IF t.deferred = <<>> THEN t
    ELSE drain_deferred(vrele([t EXCEPT !.deferred = Front(@)], Last(t.deferred)))

-----------------------------------------------------------------------------
(* Finding files.                                                          *)

MakeVnode(t, f, v) ==
    [t EXCEPT !.vn[v] = [file |-> f, use |-> 1, hold |-> 0, doomed |-> FALSE,
                         inact |-> FALSE, made |-> TRUE],
              !.hash[f] = v]
FirstFree(t, f) == MakeVnode(t, f, Min(Ids \ Made(t)))
getnewvnode(t, f) ==
    FirstFree(IF Cardinality(Made(t)) >= maxvnodes THEN recycle_one(t) ELSE t, f)

vget(t, f) == IF t.hash[f] # 0 THEN vref(t, t.hash[f]) ELSE getnewvnode(t, f)

\* lookup_component on a miss; what it found is the vnode in hash.
found(t, n) == IF t.links[n] # 0 THEN t.hash[t.links[n]] ELSE 0
EnterFound(t, d, n) == enter(t, d, n, found(t, n))
asks(t, d, n, looking) ==
    IF t.links[n] # 0 THEN EnterFound(vget(t, t.links[n]), d, n)
    ELSE IF looking THEN enter(t, d, n, 0) ELSE t

\* A whole component: its table afterwards, and the vnode (0: none).
Hit(t, v) == [t |-> IF v # 0 THEN vref(t, v) ELSE t, vp |-> v]
Answer(t, n) == [t |-> t, vp |-> found(t, n)]
component(t, d, n, looking) ==
    IF Keyed(t, d, n) # {} THEN Hit(t, (CHOOSE e \in Keyed(t, d, n) : TRUE).vp)
    ELSE Answer(asks(t, d, n, looking), n)

\* Namei::release
release(t, d, v) == vrele(IF v # 0 THEN vrele(t, v) ELSE t, d)

-----------------------------------------------------------------------------
(* Calls with a path: the lock, what was queued, and the part of the lookup *)
(* that asks no file system; then the disk; then the rest.                 *)

Looking(op) == op \in {"stat", "open"}

namei(p, op, n, m) ==
    /\ pc[p] = Idle /\ lock = 0 /\ s.mounted
    /\ op \in {"open", "create"} => fd[p] = 0
    /\ op = "rename" => n # m
    /\ \E t \in {vget(drain_deferred(s), Root)} :
       LET hit == Keyed(t, t.hash[Root], n) # {} IN
       \E c \in {IF hit THEN component(t, t.hash[Root], n, Looking(op)) ELSE [t |-> t, vp |-> 0]} :
          /\ s' = c.t
          /\ pc' = [pc EXCEPT ![p] = [op |-> op, name |-> n, to |-> m, dvp |-> t.hash[Root],
                                      ask |-> ~hit, vp |-> c.vp]]
    /\ lock' = p
    /\ UNCHANGED <<fd, map, text>>

\* Where the lookup got to once the disk has answered.
Looked(p) ==
    IF pc[p].ask THEN component(s, pc[p].dvp, pc[p].name, Looking(pc[p].op))
    ELSE [t |-> s, vp |-> pc[p].vp]

Returns(p, op) ==
    /\ pc[p].op = op
    /\ pc' = [pc EXCEPT ![p] = Idle]
    /\ lock' = 0
    /\ UNCHANGED <<map, text>>

stat(p) ==
    /\ Returns(p, "stat")
    /\ \E c \in {Looked(p)} : s' = release(c.t, pc[p].dvp, c.vp)
    /\ UNCHANGED fd

Opened(p, t, v) ==
    /\ s' = vrele(note_opened(t, pc[p].dvp, v), pc[p].dvp)
    /\ fd' = [fd EXCEPT ![p] = v]

vn_open(p) ==
    /\ Returns(p, "open")
    /\ \E c \in {Looked(p)} :
       IF c.vp = 0 THEN s' = vrele(c.t, pc[p].dvp) /\ UNCHANGED fd ELSE Opened(p, c.t, c.vp)

\* A name put into the directory, with the aliases free for it.
Named(t, n, f) ==
    [t EXCEPT !.links = [x \in Names |->
        IF x = n \/ (x \in Aliases[n] /\ @[x] = 0) THEN f ELSE @[x]]]
Unnamed(t, f) == [t EXCEPT !.links = [x \in Names |-> IF @[x] = f THEN 0 ELSE @[x]]]

Created(t, n, f) == vget(Named([t EXCEPT !.live = @ \cup {f}], n, f), f)

create_file(p) ==
    /\ Returns(p, "create")
    /\ \E c \in {Looked(p)} :
       IF c.vp # 0 THEN Opened(p, c.t, c.vp)
       ELSE IF Inodes \subseteq c.t.live THEN s' = vrele(c.t, pc[p].dvp) /\ UNCHANGED fd
       ELSE LET f == Min(Inodes \ c.t.live) IN
            \E t \in {Created(c.t, pc[p].name, f)} :
                Opened(p, purge_negative(t, pc[p].dvp), t.hash[f])

unlink_common(p) ==
    /\ Returns(p, "unlink")
    /\ \E c \in {Looked(p)} :
       LET d == pc[p].dvp
           f == c.t.vn[c.vp].file
       IN  s' = IF c.vp = 0 THEN vrele(c.t, d)
                ELSE release(purge_name(maybe_release(Unnamed(c.t, f), f), d, pc[p].name), d, c.vp)
    /\ UNCHANGED fd

\* The file of vnode v gets the name m; the file of vnode x that had it loses it.
Renamed(t, v, m, x) ==
    LET f == t.vn[v].file IN
    IF x = 0 THEN Named(Unnamed(t, f), m, f)
    ELSE maybe_release(Named(Unnamed(Unnamed(t, t.vn[x].file), f), m, f), t.vn[x].file)
Purged(t, d, n, m, v) == note_opened(purge_name(purge_name(t, d, n), d, m), d, v)
Replaced(t, x) == IF x = 0 THEN t ELSE vrele(purge(t, x), x)

rename_common(p) ==
    /\ Returns(p, "rename")
    /\ LET d == pc[p].dvp
           n == pc[p].name
           m == pc[p].to
       IN  \E from \in {Looked(p)} : \E to \in {component(from.t, d, m, FALSE)} :
             s' = IF from.vp = 0 THEN vrele(from.t, d)
                  ELSE release(IF to.vp = from.vp THEN vrele(to.t, to.vp)
                               ELSE Replaced(Purged(Renamed(to.t, from.vp, m, to.vp), d, n, m, from.vp),
                                             to.vp),
                               d, from.vp)
    /\ UNCHANGED fd

-----------------------------------------------------------------------------
(* Without the lock.                                                       *)

\* vn_close, of close(2) and of the files of a process that exits or is killed
\* (close_all): the last use takes the lock for inactive, and may have to wait.
Quiet(p) == pc[p] = Idle /\ lock = 0
vn_close(p) ==
    /\ pc[p] = Idle /\ fd[p] # 0
    /\ lock = 0 \/ Races \/ \A n \in Names : s.links[n] # s.vn[fd[p]].file
    /\ fd' = [fd EXCEPT ![p] = 0]
    /\ LET waits == lock # 0 /\ s.vn[fd[p]].use = 1 /\ ~s.vn[fd[p]].doomed IN
       IF waits
       THEN /\ s' = vreleLast(s, fd[p])
            /\ pc' = [pc EXCEPT ![p] = [op |-> "close", vp |-> fd[p]]]
       ELSE s' = vrele(s, fd[p]) /\ UNCHANGED pc
    /\ UNCHANGED <<lock, map, text>>

closes(p) ==
    /\ pc[p].op = "close" /\ lock = 0
    /\ s' = vreleRest(s, pc[p].vp)
    /\ pc' = [pc EXCEPT ![p] = Idle]
    /\ UNCHANGED <<lock, fd, map, text>>

\* The open file is a program and runs; its address space holds it until it is gone.
add_text(p) ==
    /\ "exec" \in Ops /\ pc[p] = Idle /\ text[p] = 0
    /\ fd[p] # 0 /\ ~s.vn[fd[p]].doomed
    /\ s' = vref(s, fd[p])
    /\ text' = [text EXCEPT ![p] = fd[p]]
    /\ UNCHANGED <<lock, pc, fd, map>>

dropText(p) ==
    /\ text[p] # 0
    /\ s' = vrele_deferred(s, text[p])
    /\ text' = [text EXCEPT ![p] = 0]
    /\ UNCHANGED <<lock, pc, fd, map>>

\* entry_for and use_entry, for a mapping of the open file.
mmap(p) ==
    /\ pc[p] = Idle /\ fd[p] # 0 /\ map[p] = 0
    /\ ~s.vn[fd[p]].doomed
    /\ LET v == fd[p]
           room == {i \in Entries : s.pages[i] = NoPages}
           i == IF by_content(s, v) # {} THEN Min(by_content(s, v)) ELSE Min(room)
           t == IF by_content(s, v) # {} THEN s
                ELSE [vhold(s, v) EXCEPT !.pages[i] = [vp |-> v, uses |-> 0, cached |-> TRUE]]
           u == [t EXCEPT !.pages[i].uses = @ + 1]
       IN  /\ by_content(s, v) # {} \/ room # {}
           /\ s' = IF u.pages[i].uses = 1 THEN vref(u, v) ELSE u
           /\ map' = [map EXCEPT ![p] = i]
    /\ UNCHANGED <<lock, pc, fd, text>>

munmap(p) ==
    /\ pc[p] = Idle /\ map[p] # 0
    /\ LET u == [s EXCEPT !.pages[map[p]].uses = @ - 1]
       IN  s' = IF u.pages[map[p]].uses = 0 THEN vrele_deferred(u, u.pages[map[p]].vp) ELSE u
    /\ map' = [map EXCEPT ![p] = 0]
    /\ UNCHANGED <<lock, pc, fd, text>>

\* The cache lets an entry nobody uses go: collect, reclaim.
collect(i) ==
    /\ s.pages[i] # NoPages /\ s.pages[i].uses = 0
    /\ s' = remove_entry(s, i)
    /\ UNCHANGED <<lock, pc, fd, map, text>>

\* A write to the open file: its entry is retired.
changed(p) ==
    /\ pc[p] = Idle /\ fd[p] # 0
    /\ by_content(s, fd[p]) # {}
    /\ s' = vnode_gone(s, fd[p])
    /\ UNCHANGED <<lock, pc, fd, map, text>>

-----------------------------------------------------------------------------
(* Mounts.                                                                 *)

vflush(t) == FoldLeft(LAMBDA x, v : free_vnode(vgone(unfree(x, v), v), v), t,
                      SelectSeq(t.by_age, LAMBDA v : ~t.vn[v].doomed))
Hashed(t) == {t.hash[f] : f \in Files} \ {0}
vgone_all(t) == FoldSet(LAMBDA v, x : vgone(x, v), t, Hashed(t))
release_cached(t) ==
    FoldSet(LAMBDA v, x : vnode_gone(x, v), t,
            {v \in Hashed(t) : t.vn[v].use = 0 /\ t.vn[v].hold > 0})
OnMount(t) == {v \in Made(t) : ~t.vn[v].doomed}
Revoked == {p \in Procs : fd[p] \in OnMount(s)}
revoke_where(t) == FoldSet(LAMBDA p, x : vrele(x, fd[p]), t, Revoked)

dounmount(p, force) ==
    /\ Quiet(p) /\ s.mounted
    /\ Races \/ \A q \in Procs : pc[q].op # "close"
    /\ LET t == drain_deferred(s)
           u == IF force THEN vgone_all(vflush(revoke_where(t))) ELSE t
           w == vflush(release_cached(u))
       IN  s' = [w EXCEPT !.mounted = OnMount(w) # {}]
    /\ fd' = [q \in Procs |-> IF force /\ q \in Revoked THEN 0 ELSE fd[q]]
    /\ UNCHANGED <<lock, pc, map, text>>

\* Mounting sweeps up the files that lost their last name while in use.
domount(p) ==
    /\ Quiet(p) /\ ~s.mounted
    /\ LET t == drain_deferred(s)
       IN  s' = [t EXCEPT !.mounted = TRUE, !.live = {t.links[n] : n \in Names} \ {0}]
    /\ UNCHANGED <<lock, pc, fd, map, text>>

Init ==
    /\ s = [vn |-> [v \in Ids |-> NoVnode], by_age |-> <<>>, age_of |-> {},
            hash |-> [f \in Files |-> 0], deferred |-> <<>>, names |-> <<>>,
            opened |-> [v \in Ids |-> 0], pages |-> [i \in Entries |-> NoPages],
            links |-> [n \in Names |-> 0], live |-> {}, mounted |-> TRUE, wrong |-> FALSE]
    /\ lock = 0
    /\ pc = [p \in Procs |-> Idle]
    /\ fd = [p \in Procs |-> 0]
    /\ map = [p \in Procs |-> 0]
    /\ text = [p \in Procs |-> 0]

Next ==
    \/ \E p \in Procs :
        \/ \E op \in Ops \ {"exec"}, n \in Names : namei(p, op, n, n)
        \/ \E n, m \in Names : "rename" \in Ops /\ namei(p, "rename", n, m)
        \/ stat(p) \/ vn_open(p) \/ create_file(p) \/ unlink_common(p) \/ rename_common(p)
        \/ vn_close(p) \/ closes(p) \/ add_text(p) \/ dropText(p)
        \/ mmap(p) \/ munmap(p) \/ changed(p)
        \/ dounmount(p, FALSE) \/ dounmount(p, TRUE) \/ domount(p)
    \/ \E i \in Entries : collect(i)

Spec == Init /\ [][Next]_vars

-----------------------------------------------------------------------------
(* Properties.                                                             *)

\* Type correctness.
TypeOK ==
    /\ \A v \in Ids : s.vn[v].file \in Files /\ s.vn[v].use \in Nat /\ s.vn[v].hold \in Nat
    /\ s.hash \in [Files -> 0..MaxVn] /\ s.links \in [Names -> {0} \cup Inodes]
    /\ s.live \subseteq Inodes
    /\ lock \in {0} \cup Procs
    /\ fd \in [Procs -> 0..MaxVn] /\ map \in [Procs -> {0} \cup Entries]
    /\ text \in [Procs -> 0..MaxVn]

\* The references there are to a vnode: descriptors, programs that run, mapped files'
\* cache entries, calls under way and releases queued.
Uses(v) ==
    Cardinality({p \in Procs : fd[p] = v}) + Cardinality({p \in Procs : text[p] = v})
    + Cardinality({i \in Entries : s.pages[i].vp = v /\ s.pages[i].uses > 0})
    + Cardinality({p \in Procs : lock = p /\ pc[p].dvp = v})
    + Cardinality({p \in Procs : lock = p /\ pc[p].vp = v})
    + Cardinality({k \in DOMAIN s.deferred : s.deferred[k] = v})
Releasing == {pc[p].vp : p \in {q \in Procs : pc[q].op = "close"}}

\* vref, vrele, vrele_deferred: the use count of a vnode is the number of references
\* to it, and the hold count the number of its page cache entries.
CountsExact ==
    \A v \in Ids :
        /\ s.vn[v].use = Uses(v)
        /\ s.vn[v].hold = Cardinality({i \in Entries : s.pages[i].vp = v})

\* vrele, vdrop, free_vnode: no table and no call under way names memory that was
\* freed: "an entry never dangles", "the caller's reference keeps it live".
NoDangling ==
    /\ ~s.wrong
    /\ Releasing \cup Range(s.by_age) \cup Range(s.deferred) \cup Hashed(s)
       \cup UNION {{e.dir, e.vp} : e \in Range(s.names)}
       \cup {fd[p] : p \in Procs} \cup {text[p] : p \in Procs} \cup {s.pages[i].vp : i \in Entries}
       \cup UNION {{v, s.opened[v]} : v \in {x \in Ids : s.opened[x] # 0}}
       \subseteq Made(s) \cup {0}

\* FREE holds exactly the vnodes "with use and hold counts 0", each of them once,
\* and a doomed vnode nobody refers to is freed.
FreeListExact ==
    /\ Len(s.by_age) = Cardinality(s.age_of) /\ Range(s.by_age) = s.age_of
    /\ \A v \in Made(s) \ Releasing :
         (v \in s.age_of) = (s.vn[v].use = 0 /\ s.vn[v].hold = 0)
    /\ \A v \in s.age_of : ~s.vn[v].doomed

\* getnewvnode, vgone, vrecycle: a file has one live vnode at most, the one the hash
\* finds.
OneVnodePerFile ==
    \A v \in Ids : s.vn[v].made /\ ~s.vn[v].doomed <=> s.hash[s.vn[v].file] = v /\ s.vn[v].made

\* maybe_release: a file keeps its storage while a live vnode of it is in use, and
\* on a mounted file system no file stays without a name and without a user.
StorageWhileUsed ==
    /\ \A v \in OnMount(s) : s.vn[v].use > 0 => s.vn[v].file \in s.live \cup {Root}
    /\ \A p \in Procs : fd[p] # 0 => ~s.vn[fd[p]].doomed
    /\ s.mounted => \A f \in s.live :
         (\E n \in Names : s.links[n] = f) \/ fileid_busy(s, f) \/ s.hash[f] \in Releasing

\* vfs_cache: what the name cache answers is what the directory holds; a name it
\* says is missing is not there.
NamesTrue ==
    \A e \in Range(s.names) :
        /\ e.dir = s.hash[Root]
        /\ IF e.vp = 0 THEN s.links[e.name] = 0
           ELSE s.links[e.name] # 0 /\ s.hash[s.links[e.name]] = e.vp
=============================================================================
