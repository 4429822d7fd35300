----------------------------- MODULE MCModules ------------------------------
(* ps2 has code, data that begins with the pointer to its name, and        *)
(* zeroed memory; hello has only data.  The others are ps2 with something  *)
(* wrong, or with 16-bit relocations.  Memory is on both sides of half.    *)
EXTENDS Modules

S(type, alloc, size, align, cells) ==
  [type |-> type, alloc |-> alloc, size |-> size, addralign |-> align, cells |-> cells,
   valid |-> TRUE, named |-> TRUE, link |-> 0, info |-> 0, entsize |-> TRUE]
Linked2(type, link, info) == [S(type, FALSE, 1, 0, <<>>) EXCEPT !.link = link, !.info = info]
Sym(n, type, shidx, value, size) ==
  [name |-> n, type |-> type, shidx |-> shidx, value |-> value, size |-> size]
Rel(offset, sym, type) == [offset |-> offset, sym |-> sym, type |-> type]

Ps2 ==
  [ehdr |-> TRUE, shstrtab |-> "ok",
   sections |->
     [i \in 0..7 |->
        <<S("NULL", FALSE, 0, 0, <<>>), S("PROGBITS", TRUE, 2, 1, <<63, 5>>),
          S("PROGBITS", TRUE, 2, 2, <<1, 7>>), S("NOBITS", TRUE, 1, 0, <<0>>),
          Linked2("SYMTAB", 5, 0), S("STRTAB", FALSE, 1, 1, <<>>),
          Linked2("REL", 4, 1), Linked2("REL", 4, 2)>>[i + 1]],
   symbols |->
     <<Sym("", "NOTYPE", 0, 0, 0), Sym("loom_mod_name", "OBJECT", 2, 0, 1),
       Sym("loomModInit", "FUNC", 1, 1, 1), Sym("loomAlloc", "NOTYPE", 0, 0, 0),
       Sym(".bss", "SECTION", 3, 0, 0), Sym(".data", "SECTION", 2, 0, 0)>>,
   rels |-> [i \in {6, 7} |-> IF i = 6 THEN <<Rel(0, 3, "PC32"), Rel(1, 4, "32")>>
                              ELSE <<Rel(0, 5, "32")>>]]

Hello ==
  [ehdr |-> TRUE, shstrtab |-> "none",
   sections |->
     [i \in 0..4 |->
        <<S("NULL", FALSE, 0, 0, <<>>), [S("PROGBITS", TRUE, 2, 2, <<1, 9>>) EXCEPT !.named = FALSE],
          Linked2("SYMTAB", 3, 0), S("STRTAB", FALSE, 1, 1, <<>>), Linked2("REL", 2, 1)>>[i + 1]],
   symbols |->
     <<Sym("", "NOTYPE", 0, 0, 0), Sym("loom_mod_name", "OBJECT", 1, 0, 1),
       Sym(".data", "SECTION", 1, 0, 0)>>,
   rels |-> [i \in {4} |-> <<Rel(0, 2, "NONE"), Rel(0, 2, "32")>>]]

MCFiles ==
  [ps2 |-> Ps2, hello |-> Hello,
   short |-> [Ps2 EXCEPT !.sections[5].named = FALSE, !.rels[6][1].type = "PC16", !.rels[6][2].type = "16"],
   ehdr |-> [Ps2 EXCEPT !.ehdr = FALSE],
   shstr |-> [Ps2 EXCEPT !.shstrtab = "bad"],
   invalid |-> [Ps2 EXCEPT !.sections[3].valid = FALSE],
   unnamed |-> [Ps2 EXCEPT !.sections[2].named = FALSE, !.sections[3].named = FALSE],
   first |-> [Ps2 EXCEPT !.sections[0].type = "NOBITS"],
   align |-> [Ps2 EXCEPT !.sections[3].addralign = 3],
   tables |-> [Ps2 EXCEPT !.sections[3] = Linked2("SYMTAB", 5, 0)],
   strtab |-> [Ps2 EXCEPT !.sections[4].link = 6],
   nosyms |-> [Ps2 EXCEPT !.sections[4].type = "PROGBITS"],
   noname |-> [Ps2 EXCEPT !.symbols[2].name = "other"],
   nameless |-> [Ps2 EXCEPT !.symbols[2].shidx = 5],
   unknown |-> [Ps2 EXCEPT !.symbols[4].name = "nowhere"],
   over |-> [Ps2 EXCEPT !.symbols[5].value = 2],
   outside |-> [Ps2 EXCEPT !.rels[7][1].offset = 2],
   unplaced |-> [Ps2 EXCEPT !.sections[7].info = 5],
   plt32 |-> [Ps2 EXCEPT !.rels[6][1].type = "PLT32"]]

(* The archive: the table at 4, its end at modoff, files of one cell each. *)
Archive(table) ==
  [magic |-> TRUE, taboff |-> 4, modoff |-> 8, size |-> 11, table |-> table]
F(f) == [size |-> 1, file |-> f]
End == [size |-> 0, file |-> null]
MCArchives ==
  {Archive(<<F(f), F("hello"), End>>) : f \in DOMAIN MCFiles \ {"hello"}}
  \cup {[Archive(<<F("hello"), End>>) EXCEPT !.magic = FALSE],
        [Archive(<<F("hello"), End>>) EXCEPT !.modoff = 4],
        [Archive(<<F("hello"), [F("ps2") EXCEPT !.size = 9], End>>) EXCEPT !.modoff = 8],
        [Archive(<<F("hello")>>) EXCEPT !.modoff = 5]}

MCExports == [loomAlloc |-> 3, loomFree |-> 5]
MCMemory == 8..13 \cup 34..37
=============================================================================
