------------------------------- MODULE GetOpts -------------------------------
(***************************************************************************)
(* loomGetOpts (core/commands/util.c): the arguments of a command are      *)
(* parsed one flag per call, and arguments that are no options are moved   *)
(* behind them.  A step is a turn of its loop; the commands call it until  *)
(* it returns -1.                                                          *)
(***************************************************************************)
EXTENDS Integers, Sequences, SequencesExt, FiniteSetsExt

CONSTANTS
  Words,        \* the arguments in use, sequences of characters
  Flags,        \* characters of optstring without an argument
  ArgFlags,     \* and with one
  MaxArgs

Dash == "-"
None == <<>>

ASSUME GetOptsAssumption ==
  /\ Words \subseteq Seq(STRING) /\ \A w \in Words : w # <<>>
  /\ Flags \cap ArgFlags = {}
  /\ MaxArgs \in Nat

VARIABLES
  given,        \* the arguments before parsing
  args,
  optind, ind, pos,
  returned,     \* what the calls have returned
  done          \* -1 is returned

optVars == <<given, args, optind, ind, pos, returned, done>>

argc == Len(given)
Argv(i) == args[i + 1]
----------------------------------------------------------------------------
(* shiftPositionalArgs: the option moves before the positionals.           *)
ShiftPositionalArgs_Swaps(a, from, n) ==
  [i \in DOMAIN a |-> IF i = from + 1 THEN a[from + 1 - n]
                      ELSE IF i = from + 1 - n THEN a[from + 1] ELSE a[i]]
ShiftPositionalArgs_TooFew(a, from, n) ==
  [i \in DOMAIN a |-> IF i = from + 1 - n THEN a[from + 1]
                      ELSE IF i \in (from + 2 - n)..from THEN a[i - 1] ELSE a[i]]
ShiftPositionalArgs(a, from, n) ==
  [i \in DOMAIN a |-> IF i = from + 1 - n THEN a[from + 1]
                      ELSE IF i \in (from + 2 - n)..(from + 1) THEN a[i - 1] ELSE a[i]]

Shift == args' = ShiftPositionalArgs(args, optind, pos)

IsOption(w) == w[1] = Dash /\ Len(w) > 1
Ends(w) == w = <<Dash, Dash>>

Looking == ~done /\ optind < argc /\ ind = 0
Inside == ~done /\ optind < argc /\ ind > 0

Positional ==
  /\ Looking /\ ~IsOption(Argv(optind))
  /\ pos' = pos + 1 /\ optind' = optind + 1
  /\ UNCHANGED <<given, args, ind, returned, done>>

OptionStart ==
  /\ Looking /\ IsOption(Argv(optind)) /\ ~Ends(Argv(optind))
  /\ ind' = 1
  /\ UNCHANGED <<given, args, optind, pos, returned, done>>

DoubleDash ==
  /\ Looking /\ Ends(Argv(optind))
  /\ Shift
  /\ pos' = pos + (argc - (optind + 1))
  /\ optind' = argc - pos'
  /\ done' = TRUE
  /\ UNCHANGED <<given, ind, returned>>

OptionEnd ==
  /\ Inside /\ ind = Len(Argv(optind))
  /\ Shift
  /\ optind' = optind + 1 /\ ind' = 0
  /\ UNCHANGED <<given, pos, returned, done>>

Return(flag, optarg) == returned' = Append(returned, [flag |-> flag, optarg |-> optarg])

Flag ==
  /\ Inside /\ ind < Len(Argv(optind))
  /\ LET flag == Argv(optind)[ind + 1] IN
     /\ flag \notin ArgFlags
     /\ Return(IF flag \in Flags THEN flag ELSE "?", None)
  /\ ind' = ind + 1
  /\ UNCHANGED <<given, args, optind, pos, done>>

Rest_FromFlag(w, off) == SubSeq(w, off, Len(w))
Rest(w, off) == SubSeq(w, off + 1, Len(w))

FlagWithArg ==
  /\ Inside /\ ind < Len(Argv(optind))
  /\ LET flag == Argv(optind)[ind + 1]
         rest == Rest(Argv(optind), ind + 1)
     IN
     /\ flag \in ArgFlags
     /\ \/ rest # <<>> /\ optind' = optind + 1 /\ Return(flag, rest)
        \/ rest = <<>> /\ optind + 1 = argc /\ optind' = argc /\ Return(":", None)
        \/ rest = <<>> /\ optind + 1 < argc /\ optind' = optind + 2
           /\ Return(flag, Argv(optind + 1))
  /\ Shift
  /\ ind' = 0
  /\ UNCHANGED <<given, pos, done>>

Finish ==
  /\ ~done /\ optind >= argc
  /\ optind' = argc - pos
  /\ done' = TRUE
  /\ UNCHANGED <<given, args, ind, pos, returned>>

OptInit ==
  /\ given \in UNION {[1..(n + 1) -> Words] : n \in 0..MaxArgs}
  /\ args = given
  /\ optind = 1 /\ ind = 0 /\ pos = 0
  /\ returned = <<>> /\ done = FALSE

OptNext == Positional \/ OptionStart \/ DoubleDash \/ OptionEnd \/ Flag \/ FlagWithArg \/ Finish

OptSpec == OptInit /\ [][OptNext]_optVars
----------------------------------------------------------------------------
(* What the arguments mean, read from left to right.                       *)
Takes(w) == {k \in 2..Len(w) : w[k] \in ArgFlags}
Alone(w) == (IF Takes(w) = {} THEN Len(w) + 1 ELSE Min(Takes(w))) - 2
Options(w, next) ==
  [k \in 1..Alone(w) |-> [flag |-> IF w[k + 1] \in Flags THEN w[k + 1] ELSE "?",
                          optarg |-> None]]
  \o CASE Takes(w) = {} -> <<>>
       [] Takes(w) # {} /\ Min(Takes(w)) < Len(w) ->
            <<[flag |-> w[Min(Takes(w))], optarg |-> SubSeq(w, Min(Takes(w)) + 1, Len(w))]>>
       [] Takes(w) # {} /\ Min(Takes(w)) = Len(w) ->
            <<[flag |-> IF next = <<>> THEN ":" ELSE Last(w), optarg |-> next]>>

TakesNext(words, i) ==
  LET w == words[i]
  IN i < Len(words) /\ IsOption(w) /\ Takes(w) # {} /\ Min(Takes(w)) = Len(w)

(* The words from some place on: one file, or the options of one word,     *)
(* and what is behind.  separate: an option takes the word behind it;      *)
(* late: one does that stands behind a file.                               *)
OnlyFiles(files) == [options |-> <<>>, files |-> files, separate |-> FALSE, late |-> FALSE]
FileThen(w, m) == [m EXCEPT !.files = <<w>> \o @, !.late = m.separate]
OptionsThen(os, takes, m) == [m EXCEPT !.options = os \o @, !.separate = @ \/ takes]

Meant(words, i, behind) ==
  LET w == words[i]
      n == Len(words)
  IN CASE Ends(w) -> OnlyFiles(SubSeq(words, i + 1, n))
       [] ~IsOption(w) -> FileThen(w, behind)
       [] IsOption(w) /\ ~Ends(w) ->
            OptionsThen(Options(w, IF i < n THEN words[i + 1] ELSE <<>>),
                        TakesNext(words, i), behind)

Reading(words) ==
  LET n == Len(words)
      from[i \in 2..(n + 1)] ==
        IF i > n THEN OnlyFiles(<<>>)
        ELSE Meant(words, i, from[IF TakesNext(words, i) THEN i + 2 ELSE i + 1])
  IN from

Meaning(words) == Reading(words)[2]
----------------------------------------------------------------------------
OptTypeOK ==
  /\ Len(args) = argc /\ \A i \in 1..argc : args[i] \in Words
  /\ optind \in 1..argc /\ ind \in Nat /\ pos \in 0..(argc - 1)
  /\ done \in BOOLEAN

(* util.c:17: shiftPositionalArgs stays behind the command's name.         *)
ShiftInRange == ~done => pos < optind

(* Options come in any order with other arguments: every flag is returned  *)
(* with the argument that belongs to it.                                   *)
OptionsRight == done => returned = Meaning(given).options

(* No argument is lost or doubled by the moves.                            *)
KeepsArgs ==
  \A w \in Words :
    Cardinality({i \in 1..argc : args[i] = w}) = Cardinality({i \in 1..argc : given[i] = w})

(* The commands take args from optind on for files: these are the          *)
(* positionals, in order, if no option behind one has a separate argument. *)
FilesLeft == SubSeq(args, optind + 1, argc)
FilesRight == done /\ ~Meaning(given).late => FilesLeft = Meaning(given).files
=============================================================================
