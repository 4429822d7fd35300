------------------------------ MODULE Modules -------------------------------
(***************************************************************************)
(* The core modules: an archive of relocatable ELF files behind the        *)
(* program, loaded one after the other at start-up, and rmmod.  A step is  *)
(* one section placed, one symbol resolved, one relocation applied.        *)
(*                                                                         *)
(* A cell of memory holds what one relocation rewrites; addresses and what *)
(* cells hold are numbers below Word, negative ones in two's complement.   *)
(***************************************************************************)
EXTENDS Integers, Sequences, FiniteSets

CONSTANTS
  Files,        \* name -> [ehdr, shstrtab, sections, symbols, rels]: see MCModules
  Archives,     \* [magic, taboff, modoff, size, table]: table of [size, file]
  Exports,      \* name -> address, as registered
  Word, Short,  \* 2^32, 2^16
  Memory,       \* the cells of the heap
  MinSize,      \* LOOM_MODULE_HEADER_MIN_SIZE
  null

UNDEF == 0

ASSUME WordAssumption ==
  /\ Word \in Nat \ {0} /\ Short \in Nat \ {0}
  /\ Word % 2 = 0 /\ Short % 2 = 0 /\ Word % Short = 0
  /\ Memory \subseteq 0..(Word - 1)
  /\ \A n \in DOMAIN Exports : Exports[n] \in 0..(Word - 1)
  /\ null \notin Nat

(* A file is as the linker writes it, whatever is wrong with it: the first *)
(* section and the first symbol are the empty ones, a section has as many  *)
(* cells as it is long, a name the loader looks for is one symbol's, the   *)
(* module's name is an object of some size, and a cell is relocated once.  *)
Target(elf, i, k) == <<elf.sections[i].info, elf.rels[i][k].offset>>
Effective(elf) == {x \in UNION {{i} \X DOMAIN elf.rels[i] : i \in DOMAIN elf.rels} :
                     elf.rels[x[1]][x[2]].type # "NONE"}

WellFormed(elf) ==
  /\ Cardinality(DOMAIN elf.sections) \in Nat
  /\ DOMAIN elf.sections = 0..(Cardinality(DOMAIN elf.sections) - 1)
  /\ \A i \in DOMAIN elf.sections :
       LET s == elf.sections[i]
       IN /\ s.size \in Nat
          /\ s.alloc /\ s.size # 0 =>
               /\ i # 0 /\ s.cells \in [1..s.size -> 0..(Word - 1)]
               /\ s.type = "NOBITS" => \A o \in 1..s.size : s.cells[o] = 0
  /\ elf.symbols \in Seq([name : STRING, type : STRING, shidx : Nat, value : Nat, size : Nat])
  /\ elf.symbols # <<>> =>
       elf.symbols[1].name = "" /\ elf.symbols[1].shidx = UNDEF /\ "" \notin DOMAIN Exports
  /\ \A n \in {"loom_mod_name", "loomModInit", "loomModDeinit"} : \A i, j \in DOMAIN elf.symbols :
       elf.symbols[i].name = n /\ elf.symbols[j].name = n => i = j
  /\ \A j \in DOMAIN elf.symbols :
       elf.symbols[j].name = "loom_mod_name" => elf.symbols[j].size # 0
  /\ DOMAIN elf.rels = {i \in DOMAIN elf.sections : elf.sections[i].type = "REL"}
  /\ \A i \in DOMAIN elf.rels :
       elf.rels[i] \in Seq([offset : Nat, sym : Nat, type : STRING])
  /\ \A x, y \in Effective(elf) : Target(elf, x[1], x[2]) = Target(elf, y[1], y[2]) => x = y

ASSUME FilesAssumption == \A f \in DOMAIN Files : WellFormed(Files[f])

(* The table of an archive ends with an entry of size 0, or where the      *)
(* files begin; its entries are files of their own.                        *)
ASSUME ArchivesAssumption ==
  \A a \in Archives :
    /\ a.taboff \in Nat /\ a.modoff \in Nat
    /\ a.table \in Seq([size : Nat, file : DOMAIN Files \cup {null}])
    /\ \A e \in DOMAIN a.table : a.table[e].size # 0 => a.table[e].file \in DOMAIN Files
    /\ \A e, f \in DOMAIN a.table :
         a.table[e].size # 0 /\ a.table[e].file = a.table[f].file => e = f
    /\ \/ Len(a.table) >= a.modoff - a.taboff
       \/ \E e \in DOMAIN a.table : a.table[e].size = 0

(* What is known of a file while it is loaded, its sections D placed.      *)
Loads(f, D) ==
  [file : {f}, phase : {"sections", "symbols", "rels"}, i : Nat, k : Nat, base : [D -> Memory],
   symtab : Nat, name : Nat \cup {null}, init : Nat \cup {null}, deinit : Nat \cup {null},
   values : Seq(Nat)]

ASSUME NullAssumption ==
  \A f \in DOMAIN Files : \A D \in SUBSET DOMAIN Files[f].sections : null \notin Loads(f, D)

Signed(x, w) == IF x % w >= w \div 2 THEN (x % w) - w ELSE x % w

VARIABLES
  archive,      \* what lies at loom_modbase
  at,           \* of the table: the entry that is next, and where its file begins
  load,         \* the file that is being loaded, or null
  held,         \* blocks allocated: <<file, what, section>>
  mem,          \* cells of the sections: address -> what it holds
  modules,      \* loom_modules, newest first
  outcome       \* "running", "panic" or "undefined"

vars == <<archive, at, load, held, mem, modules, outcome>>

Elf == Files[load.file]
Section(i) == Elf.sections[i]
Shents == Cardinality(DOMAIN Elf.sections)
Phase(p) == outcome = "running" /\ load # null /\ load.phase = p
----------------------------------------------------------------------------
(* loomCoreModulesLoad.                                                    *)

Entry == archive.table[at.entry]
Behind == at.addr + Entry.size        \* the end of the file that is next

HeaderGood ==
  /\ archive.magic /\ archive.size \in MinSize..(Word - 1)
  /\ archive.taboff < archive.size /\ archive.taboff < archive.modoff

EntryGood ==
  /\ archive.taboff + at.entry <= archive.modoff
  /\ Entry.size # 0 => Behind < Word /\ Behind <= archive.size

Good == HeaderGood /\ EntryGood

Panic ==
  /\ outcome = "running" /\ load = null
  /\ ~Good
  /\ outcome' = "panic"
  /\ UNCHANGED <<archive, at, load, held, mem, modules>>

Loading == outcome = "running" /\ load = null /\ Good /\ Entry.size # 0
Advance == at' = [entry |-> at.entry + 1, addr |-> Behind]

HeaderLoads(elf) == elf.ehdr /\ elf.shstrtab # "bad"

(* The table of sections may be missing when the module itself is there:   *)
(* then the module is unloaded before its list of sections is set.         *)
Begin ==
  /\ Loading
  /\ LET f == Entry.file
     IN \/ UNCHANGED <<load, held, outcome>> /\ Advance      \* header, allocation of both
        \/ /\ HeaderLoads(Files[f])
           /\ outcome' = "undefined"
           /\ UNCHANGED <<at, load, held>>
        \/ /\ HeaderLoads(Files[f])
           /\ load' = [file |-> f, phase |-> "sections", i |-> 0, k |-> 0, base |-> <<>>,
                       symtab |-> UNDEF, name |-> null, init |-> null, deinit |-> null,
                       values |-> [j \in DOMAIN Files[f].symbols |-> Files[f].symbols[j].value]]
           /\ held' = held \cup {<<f, "mod", 0>>, <<f, "sections", 0>>}
           /\ UNCHANGED <<at, outcome>>
  /\ UNCHANGED <<archive, mem, modules>>

(* error: what the module holds is freed, and the next file is tried.      *)
Cells(f, base) ==
  UNION {base[i]..(base[i] + Files[f].sections[i].size - 1) : i \in DOMAIN base}
Without(cells) == [a \in DOMAIN mem \ cells |-> mem[a]]

ErrorBut_KeepsSections(lost) ==
  /\ held' = (held \ {<<load.file, what, 0>> : what \in {"mod", "sections"}}) \cup lost
  /\ mem' = mem /\ load' = null /\ Advance
ErrorBut(lost) ==
  /\ held' = {h \in held : h[1] # load.file} \cup lost
  /\ mem' = Without(Cells(load.file, load.base))
  /\ load' = null /\ Advance
Error == ErrorBut({})
----------------------------------------------------------------------------
(* sectionsIterate.                                                        *)

PowerOf2(x) == \A d \in 2..x : x % d = 0 => d % 2 = 0            \* 0 is one too

StrTabGood(link) == link < Shents /\ Section(link).type = "STRTAB" /\ Section(link).valid

SectionGood(i, s) ==
  /\ s.valid
  /\ i = UNDEF => s.type = "NULL"
  /\ s.type = "SYMTAB" => load.symtab = UNDEF /\ StrTabGood(s.link) /\ s.entsize
  /\ s.alloc /\ s.size # 0 => PowerOf2(s.addralign)

(* A section that is kept has its name looked up in the table of section   *)
(* names, if the file has one; a name outside it is an error that leaves   *)
(* the section, allocated and not yet the module's, behind.                *)
Kept(f) ==
  {i \in DOMAIN Files[f].sections : Files[f].sections[i].alloc /\ Files[f].sections[i].size # 0}
Nameless(f) ==
  {i \in Kept(f) : Files[f].shstrtab = "ok" /\ ~Files[f].sections[i].named}

Places(s) ==
  {a \in Memory : /\ s.addralign # 0 => a % s.addralign = 0
                  /\ a..(a + s.size - 1) \subseteq Memory \ DOMAIN mem}

NextSection(i, s) ==
  [load EXCEPT !.i = i + 1, !.symtab = IF s.type = "SYMTAB" THEN i ELSE @]

PlaceSection(i, s) ==
  \E a \in Places(s) :
    /\ load' = [NextSection(i, s) EXCEPT !.base = [j \in DOMAIN @ \cup {i} |-> IF j = i THEN a ELSE @[j]]]
    /\ held' = held \cup {<<load.file, what, i>> : what \in {"section", "p"}}
    /\ mem' = [x \in DOMAIN mem \cup a..(a + s.size - 1) |->
                 IF x \in DOMAIN mem THEN mem[x]
                 ELSE IF s.type = "NOBITS" THEN 0 ELSE s.cells[x - a + 1]]

Sections ==
  /\ Phase("sections") /\ load.i < Shents
  /\ LET i == load.i
         s == Section(i)
         kept == i \in Kept(load.file)
         named == i \notin Nameless(load.file)
     IN \/ (~SectionGood(i, s) \/ kept) /\ Error          \* kept: no memory for it
        \/ /\ SectionGood(i, s) /\ ~kept /\ load' = NextSection(i, s)
           /\ UNCHANGED <<at, held, mem>>
        \/ SectionGood(i, s) /\ kept /\ ~named /\ ErrorBut({<<load.file, "section", i>>})
        \/ SectionGood(i, s) /\ kept /\ named /\ PlaceSection(i, s) /\ UNCHANGED at
  /\ UNCHANGED <<archive, modules, outcome>>

SectionsDone ==
  /\ Phase("sections") /\ load.i = Shents
  /\ \/ load.symtab = UNDEF /\ Error
     \/ /\ load.symtab # UNDEF
        /\ load' = [load EXCEPT !.phase = "symbols", !.i = 1]
        /\ UNCHANGED <<at, held, mem>>
  /\ UNCHANGED <<archive, modules, outcome>>
----------------------------------------------------------------------------
(* Symbols.  The value of each becomes its address.                        *)

Special == [loom_mod_name |-> "OBJECT", loomModInit |-> "FUNC", loomModDeinit |-> "FUNC"]

SymbolValidate(sym) ==
  sym.type = Special[sym.name] /\ sym.shidx # UNDEF /\ sym.shidx < Shents /\ sym.shidx \in DOMAIN load.base

External(sym) == sym.name \notin DOMAIN Special /\ sym.shidx = UNDEF
Inside(sym) == sym.shidx \in DOMAIN load.base

SymbolGood(sym) ==
  /\ sym.name # "beyond"                \* the string table
  /\ sym.name \in DOMAIN Special => SymbolValidate(sym)
  /\ IF External(sym) THEN sym.name \in DOMAIN Exports
     ELSE /\ sym.shidx # UNDEF /\ sym.shidx < Shents
          /\ Inside(sym) => /\ sym.value + sym.size <= Section(sym.shidx).size
                            /\ sym.value + load.base[sym.shidx] < Word

AddressOf(sym) ==
  CASE External(sym) -> Exports[sym.name]
    [] ~External(sym) /\ Inside(sym) -> load.base[sym.shidx] + sym.value
    [] OTHER -> sym.value

Symbols ==
  /\ Phase("symbols") /\ load.i < Len(Elf.symbols)
  /\ LET sym == Elf.symbols[load.i + 1]
         seen(old, n) == IF sym.name = n THEN load.i ELSE old
     IN \/ ~SymbolGood(sym) /\ Error
        \/ /\ SymbolGood(sym)
           /\ load' = [load EXCEPT !.i = @ + 1, !.values[load.i + 1] = AddressOf(sym),
                                   !.name = seen(@, "loom_mod_name"), !.init = seen(@, "loomModInit"),
                                   !.deinit = seen(@, "loomModDeinit")]
           /\ UNCHANGED <<at, held, mem>>
  /\ UNCHANGED <<archive, modules, outcome>>

SymbolsDone ==
  /\ Phase("symbols") /\ load.i >= Len(Elf.symbols)
  /\ \/ load.name = null /\ Error
     \/ /\ load.name # null
        /\ load' = [load EXCEPT !.phase = "rels", !.i = 0, !.k = 1]
        /\ UNCHANGED <<at, held, mem>>
  /\ UNCHANGED <<archive, modules, outcome>>
----------------------------------------------------------------------------
(* Relocations: S is the symbol's address, A what the cell holds, P where  *)
(* it is.                                                                  *)

RelSectionGood(s) ==
  /\ s.entsize
  /\ s.link < Shents /\ Section(s.link).type = "SYMTAB"
  /\ s.info < Shents

RelGood(s, rel) ==
  /\ rel.sym < Len(Elf.symbols)
  /\ s.link = load.symtab
  /\ s.info \in DOMAIN load.base
  /\ rel.offset < Section(s.info).size

Width(type) == IF type \in {"16", "PC16"} THEN Short ELSE Word

(* 16 bits: S and P are signed; 32 bits: they are not.                     *)
Fixup_NoPlace(type, S, A, P) ==
  IF Width(type) = Short THEN Signed(S, Word) + Signed(A, Short) ELSE S + Signed(A, Word)
Fixup(type, S, A, P) ==
  LET relative == type \in {"PC16", "PC32"}
  IN IF Width(type) = Short
     THEN Signed(S, Word) + Signed(A, Short) - (IF relative THEN Signed(P, Word) ELSE 0)
     ELSE S + Signed(A, Word) - (IF relative THEN P ELSE 0)
Fits(type, r) == r \in -(Width(type) \div 2)..(Width(type) \div 2 - 1)

Rels ==
  /\ Phase("rels") /\ load.i < Shents
  /\ LET s == Section(load.i)
         rel == Elf.rels[load.i][load.k]
         P == load.base[s.info] + rel.offset
         r == Fixup(rel.type, load.values[rel.sym + 1], mem[P], P)
         known == rel.type \in {"16", "PC16", "32", "PC32"}
         step == load' = [load EXCEPT !.k = @ + 1] /\ UNCHANGED <<at, held>>
     IN IF s.type # "REL" \/ (RelSectionGood(s) /\ load.k > Len(Elf.rels[load.i]))
        THEN load' = [load EXCEPT !.i = @ + 1, !.k = 1] /\ UNCHANGED <<at, held, mem>>
        ELSE IF ~RelSectionGood(s) \/ ~RelGood(s, rel) THEN Error
        ELSE \/ rel.type = "NONE" /\ step /\ UNCHANGED mem
             \/ known /\ Fits(rel.type, r) /\ step /\ mem' = [mem EXCEPT ![P] = r % Width(rel.type)]
             \/ known /\ ~Fits(rel.type, r) /\ Error
             \/ ~known /\ rel.type # "NONE" /\ Error
  /\ UNCHANGED <<archive, modules, outcome>>

(* The module is on the list before its init runs.                         *)
Value(j) == IF j = null THEN null ELSE load.values[j + 1]
Loaded ==
  /\ Phase("rels") /\ load.i = Shents
  /\ modules' = <<[file |-> load.file, base |-> load.base, name |-> mem[Value(load.name)],
                   init |-> Value(load.init), deinit |-> Value(load.deinit)]>> \o modules
  /\ held' = held \ {<<load.file, "sections", 0>>}
  /\ load' = null /\ Advance
  /\ UNCHANGED <<archive, mem, outcome>>
----------------------------------------------------------------------------
(* rmmod, from the shell: every file of the archive has been tried.  The   *)
(* name is read where the module has it.                                   *)
Started == outcome = "running" /\ load = null /\ Good /\ Entry.size = 0

Rmmod(k) ==
  /\ Started
  /\ k \in DOMAIN modules
  /\ LET m == modules[k]
         gone == {i \in DOMAIN m.base : <<m.file, "p", i>> \in held}
     IN /\ held' = {h \in held : h[1] # m.file}
        /\ mem' = Without(Cells(m.file, [i \in gone |-> m.base[i]]))
  /\ modules' = SubSeq(modules, 1, k - 1) \o SubSeq(modules, k + 1, Len(modules))
  /\ UNCHANGED <<archive, at, load, outcome>>
----------------------------------------------------------------------------
Init ==
  /\ archive \in Archives
  /\ at = [entry |-> 1, addr |-> archive.modoff]
  /\ load = null /\ held = {} /\ mem = <<>> /\ modules = <<>>
  /\ outcome = "running"

Next ==
  \/ Panic \/ Begin \/ Sections \/ SectionsDone \/ Symbols \/ SymbolsDone \/ Rels \/ Loaded
  \/ \E k \in DOMAIN modules : Rmmod(k)

Spec == Init /\ [][Next]_vars
----------------------------------------------------------------------------
(* A module on the list is linked as its file says: every relocated cell   *)
(* holds the address of its symbol, plus the addend, less the place for a  *)
(* relative one; it is known by its name and entered where it starts.      *)
Address(base, sym) ==
  IF sym.shidx = UNDEF /\ sym.name \in DOMAIN Exports THEN Exports[sym.name]
  ELSE (IF sym.shidx \in DOMAIN base THEN base[sym.shidx] ELSE 0) + sym.value
Named(f, base, n) ==
  {Address(base, Files[f].symbols[j]) :
     j \in {x \in DOMAIN Files[f].symbols : Files[f].symbols[x].name = n}}

Place(f, base, i, rel) == base[Files[f].sections[i].info] + rel.offset
Relocated(f, base, i, rel) ==
  LET addend == Files[f].sections[Files[f].sections[i].info].cells[rel.offset + 1]
      place == IF rel.type \in {"PC16", "PC32"} THEN Place(f, base, i, rel) ELSE 0
  IN (Address(base, Files[f].symbols[rel.sym + 1]) + addend - place) % Width(rel.type)

Link(m, cells) ==
  /\ \A i \in DOMAIN Files[m.file].rels : \A k \in DOMAIN Files[m.file].rels[i] :
       LET rel == Files[m.file].rels[i][k]
       IN rel.type # "NONE" => cells[Place(m.file, m.base, i, rel)] = Relocated(m.file, m.base, i, rel)
  /\ {m.name} = {cells[a] : a \in Named(m.file, m.base, "loom_mod_name")}
  /\ {m.init} \ {null} = Named(m.file, m.base, "loomModInit")
  /\ {m.deinit} \ {null} = Named(m.file, m.base, "loomModDeinit")

Linked == outcome = "running" => \A k \in DOMAIN modules : Link(modules[k], mem)

(* Between two files, and after the last, the blocks in use are those of   *)
(* the modules on the list, whatever failed and whatever was removed; all  *)
(* that is lost is a section of a file whose name lies outside the table   *)
(* of names, the first of its file.                                        *)
HeldBy(m) ==
  {<<m.file, "mod", 0>>} \cup {<<m.file, what, i>> : what \in {"section", "p"}, i \in DOMAIN m.base}
Lost(h) ==
  \E f \in DOMAIN Files : \E i \in Nameless(f) :
    h = <<f, "section", i>> /\ \A j \in Nameless(f) : i <= j

OnlyModulesHold ==
  load = null /\ outcome = "running" =>
    LET used == UNION {HeldBy(modules[k]) : k \in DOMAIN modules}
    IN used \subseteq held /\ \A h \in held \ used : Lost(h)
=============================================================================
