-------------------------------- MODULE Loader --------------------------------
(***************************************************************************)
(* dlopen, dlsym, dladdr, dlclose and dlerror (src/dlfcn.c) on x86-64.     *)
(* One thread loads shared objects; dlopen can fail at each of its steps.  *)
(*                                                                         *)
(* Memory is made of words.  An object on the disk is a record: whether    *)
(* its headers are refused; its segments [at, file, size]; if it has a     *)
(* dynamic section, the symbols [name, value], the entry of DT_HASH (0     *)
(* without one), the number of entries between the symbol table and the    *)
(* string table, and the relocations [at, type, sym, add].  They lie in    *)
(* writable segments.                                                      *)
(***************************************************************************)
EXTENDS Integers, Sequences, FiniteSetsExt, SequencesExt

CONSTANTS Files, Objects,
          Places,      \* where mmap may put an object
          MaxHandles   \* bound: structures allocated

VARIABLES disk,        \* file -> object
          mem, maps,   \* address -> word; mappings [at, size]
          fd,          \* dlopen has the file open
          handle,      \* number -> struct dl_handle, and what became of it
          paths,       \* numbers of handles whose copy of the name is allocated
          dl_list,
          dl_err,      \* there is a message for dlerror
          dpc, cur     \* dlopen's place, and its file, mapping and segment

loadVars == <<disk, mem, maps, fd, handle, paths, dl_list, dl_err, dpc, cur>>

Top == Max(Places) + 7
obj == disk[cur.file]

min_vaddr(o) == Min({o.segs[i].at : i \in DOMAIN o.segs})
max_vaddr(o) == Max({o.segs[i].at + o.segs[i].size : i \in DOMAIN o.segs})
map_size(o) == max_vaddr(o) - min_vaddr(o)
Within(m) == m.at .. m.at + m.size - 1

munmap(m) ==
  /\ maps' = maps \ {m}
  /\ mem' = [a \in DOMAIN mem |-> IF a \in Within(m) THEN -1 ELSE mem[a]]

Call(f) == [file |-> f, map |-> [at |-> 0, size |-> 0], seg |-> 1]

(* dlopen returns NULL: the message is set and the file closed. *)
Fail == dl_err' = TRUE /\ fd' = FALSE /\ dpc' = "idle" /\ cur' = Call("") /\ UNCHANGED <<disk, dl_list>>

Init ==
  /\ disk \in [Files -> Objects]
  /\ mem = [a \in 0 .. Top |-> -1] /\ maps = {}
  /\ fd = FALSE /\ handle = <<>> /\ paths = {}
  /\ dl_list = <<>> /\ dl_err = FALSE
  /\ dpc = "idle" /\ cur = Call("")
-----------------------------------------------------------------------------
dlopen(f) ==
  /\ dpc = "idle" /\ Len(handle) < MaxHandles
  /\ \/ Fail
     \/ /\ fd' = TRUE /\ dl_err' = FALSE /\ dpc' = "headers"
        /\ cur' = Call(f)
        /\ UNCHANGED <<disk, dl_list>>
  /\ UNCHANGED <<mem, maps, handle, paths>>

ReadHeaders ==
  /\ dpc = "headers"
  /\ \/ Fail
     \/ ~obj.refused /\ dpc' = "mmap" /\ UNCHANGED <<disk, fd, dl_list, dl_err, cur>>
  /\ UNCHANGED <<mem, maps, handle, paths>>

(* The mapping is new memory, which is zero. *)
Mmap ==
  /\ dpc = "mmap"
  /\ \/ Fail /\ UNCHANGED <<mem, maps>>
     \/ \E m \in {[at |-> a, size |-> map_size(obj)] : a \in Places} :
          /\ \A n \in maps : Within(m) \cap Within(n) = {}
          /\ maps' = maps \cup {m}
          /\ mem' = [a \in DOMAIN mem |-> IF a \in Within(m) THEN 0 ELSE mem[a]]
          /\ cur' = [cur EXCEPT !.map = m] /\ dpc' = "segments"
          /\ UNCHANGED <<disk, fd, dl_list, dl_err>>
  /\ UNCHANGED <<handle, paths>>

base == cur.map.at - min_vaddr(obj)

(* Variant: the file stays open. *)
SegmentForgets == /\ munmap(cur.map) /\ dl_err' = TRUE /\ dpc' = "idle" /\ cur' = Call("")
                  /\ UNCHANGED <<disk, fd, dl_list>>
SegmentFails == munmap(cur.map) /\ Fail

(* A segment is read from the file, and the rest of it set to zero. *)
LoadSegment ==
  /\ dpc = "segments" /\ cur.seg <= Len(obj.segs)
  /\ \/ SegmentFails
     \/ LET g == obj.segs[cur.seg]
            at == base + g.at
        IN /\ mem' = [a \in DOMAIN mem |-> IF a \in at .. at + Len(g.file) - 1 THEN g.file[a - at + 1]
                                           ELSE IF a \in at .. at + g.size - 1 THEN 0 ELSE mem[a]]
           /\ cur' = [cur EXCEPT !.seg = @ + 1]
           /\ UNCHANGED <<disk, maps, fd, dl_list, dl_err, dpc>>
  /\ UNCHANGED <<handle, paths>>

(* The number of symbols: from DT_HASH, or from where the tables are. *)
nsyms(o) == IF o.hash # 0 THEN o.hash ELSE o.gap

(* The structure, with the copy of the name if there is memory for it. *)
NewHandle ==
  /\ dpc = "segments" /\ cur.seg > Len(obj.segs)
  /\ \/ munmap(cur.map) /\ Fail /\ UNCHANGED <<handle, paths>>
     \/ \E named \in BOOLEAN :
          /\ handle' = Append(handle, [file |-> cur.file, map |-> cur.map, base |-> base, named |-> named,
                                       syms |-> IF obj.dyn THEN SubSeq(obj.syms, 1, nsyms(obj)) ELSE <<>>, live |-> TRUE])
          /\ paths' = IF named THEN paths \cup {Len(handle')} ELSE paths
          /\ dpc' = "relocate"
          /\ UNCHANGED <<disk, mem, maps, fd, dl_list, dl_err, cur>>

(* The word that a relocation stores; a symbol that is not in the table    *)
(* leaves it as it is.                                                     *)
Relocated(h, r, w) ==
  CASE r.type = "RELATIVE" -> h.base + r.add
    [] r.type = "SYMBOL" /\ r.sym <= Len(h.syms) -> h.base + h.syms[r.sym].value + r.add
    [] OTHER -> w
apply_relocs(h, m) ==
  FoldLeft(LAMBDA n, r : [n EXCEPT ![h.base + r.at] = Relocated(h, r, @)], m, obj.relas)

Freed(n) == handle' = [handle EXCEPT ![n].live = FALSE]

(* A relocation of another type: the copy of the name is not freed. *)
Relocate ==
  /\ dpc = "relocate"
  /\ LET n == Len(handle) IN
     IF obj.dyn /\ \E i \in DOMAIN obj.relas : obj.relas[i].type = "OTHER"
     THEN munmap(cur.map) /\ Freed(n) /\ Fail
     ELSE /\ mem' = IF obj.dyn THEN apply_relocs(handle[n], mem) ELSE mem
          /\ dl_list' = <<n>> \o dl_list
          /\ fd' = FALSE /\ dpc' = "idle" /\ cur' = Call("")
          /\ UNCHANGED <<disk, maps, handle, dl_err>>
  /\ UNCHANGED paths

dlclose(n) ==
  /\ dpc = "idle" /\ handle[n].live
  /\ dl_list' = SelectSeq(dl_list, LAMBDA k : k # n)
  /\ munmap(handle[n].map) /\ paths' = paths \ {n} /\ Freed(n)
  /\ UNCHANGED <<disk, fd, dl_err, dpc, cur>>

Next ==
  \/ \E f \in Files : dlopen(f)
  \/ ReadHeaders \/ Mmap \/ LoadSegment \/ NewHandle \/ Relocate
  \/ \E n \in DOMAIN handle : dlclose(n)
-----------------------------------------------------------------------------

(* The address of the first symbol with the name; 0 is NULL. *)
dlsym(h, name) ==
  LET S == {i \in DOMAIN h.syms : h.syms[i].name = name}
  IN IF S = {} THEN 0 ELSE h.base + h.syms[Min(S)].value

(* The handle and the symbol that dladdr finds for an address: the first   *)
(* object in the list, counted from its base; <<>> is none.                *)
dladdr(a) ==
  LET K == {k \in DOMAIN dl_list : a - handle[dl_list[k]].base \in 0 .. handle[dl_list[k]].map.size - 1}
      n == dl_list[Min(K)]
      S == {i \in DOMAIN handle[n].syms : handle[n].syms[i].value # 0 /\ handle[n].base + handle[n].syms[i].value = a}
  IN IF K = {} THEN <<>> ELSE <<n, IF S = {} THEN "" ELSE handle[n].syms[Min(S)].name>>

Open == Range(dl_list)
Idle == dpc = "idle"

(* Whatever step of dlopen failed, what is left are the open objects: no   *)
(* file, no mapping and no structure besides.  (The name of one with a bad *)
(* relocation stays allocated.)                                            *)
NothingLeft ==
  Idle =>
    /\ ~fd
    /\ Open = {n \in DOMAIN handle : handle[n].live} /\ Len(dl_list) = Cardinality(Open)
    /\ maps = {handle[n].map : n \in Open} /\ Cardinality(maps) = Cardinality(Open)
    /\ \A n \in paths : n \in Open \/ \E i \in DOMAIN disk[handle[n].file].relas : disk[handle[n].file].relas[i].type = "OTHER"

(* The memory of an open object is what the file and the relocations say,  *)
(* at the address where it was mapped, and loading or closing another one  *)
(* does not touch it.                                                      *)
Word(h, o, i) ==
  LET R == {r \in Range(o.relas) : r.at = i /\ o.dyn}
      g == CHOOSE g \in Range(o.segs) : i \in g.at .. g.at + g.size - 1
      w == IF i - g.at < Len(g.file) THEN g.file[i - g.at + 1] ELSE 0
  IN IF R = {} THEN w ELSE LET r == CHOOSE r \in R : TRUE IN
     IF r.type = "RELATIVE" THEN h.base + r.add ELSE h.base + o.syms[r.sym].value + r.add
ImageExact ==
  \A n \in Open : LET h == handle[n]
                      o == disk[h.file]
                  IN \A g \in Range(o.segs) : \A i \in g.at .. g.at + g.size - 1 :
                       mem[h.base + i] = Word(h, o, i) /\ h.base + i \in Within(h.map)

(* dlsym finds what an object defines, and dladdr leads back from there to *)
(* the object and the symbol, if all objects are linked at address 0.      *)
Linked0 == \A n \in Open : handle[n].base = handle[n].map.at
SymbolsExact ==
  \A n \in Open : LET o == disk[handle[n].file] IN
    o.dyn => \A s \in Range(o.syms) :
      /\ dlsym(handle[n], s.name) = handle[n].base + s.value
      /\ Linked0 /\ s.value # 0 => dladdr(dlsym(handle[n], s.name)) = <<n, s.name>>

(* Loaded objects are right and nothing is left of the others. *)
LoaderExact == NothingLeft /\ ImageExact /\ SymbolsExact
=============================================================================
