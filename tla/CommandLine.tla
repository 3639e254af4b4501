----------------------------- MODULE CommandLine -----------------------------
(***************************************************************************)
(* parse_opt of the three programs: what getopt hands over, one option     *)
(* after the other. An argument is a record: the letter, or "?" for what   *)
(* getopt does not know or finds without its value, and what atoi makes of *)
(* the value (0 of a text that is no number). Operands are passed over.    *)
(***************************************************************************)
EXTENDS Naturals, Sequences, SequencesExt

(* The letters of optstr, those that must be there, and the values main    *)
(* (or parse_opt) sets before it looks at any argument.                    *)
FileProgram ==
    [letters  |-> {"k", "d", "i", "o", "p", "s", "t"},
     required |-> {"i", "o"},
     defaults |-> [k |-> 0, d |-> 0, i |-> 0, o |-> 0, p |-> 2, s |-> 30, t |-> 300]]

StreamProgram ==
    [letters  |-> {"k", "i", "o", "s"},
     required |-> {"i", "o"},
     defaults |-> [k |-> 0, i |-> 0, o |-> 0, s |-> 30]]

ServerProgram ==
    [letters |-> {"t"}, required |-> {}, defaults |-> [t |-> 6]]

(* -h and what is not in optstr print the usage and end the parse. *)
Take(program, state, arg) ==
    IF state.usage \/ arg.letter \notin program.letters
    THEN [state EXCEPT !.usage = TRUE]
    ELSE [state EXCEPT !.val = @ \cup {arg.letter},
                       !.set = [@ EXCEPT ![arg.letter] = arg.value]]

ParseOpt(program, args) ==
    LET end == FoldLeft(LAMBDA state, arg : Take(program, state, arg),
                        [usage |-> FALSE, val |-> {}, set |-> program.defaults], args)
    IN  [accepted |-> ~end.usage /\ program.required \subseteq end.val,
         options  |-> end.set]

Flag(letter) == [letter |-> letter, value |-> 1]

Option(letter, value) == [letter |-> letter, value |-> value]

(* What demo_decode_file sees of an accepted command line. *)
SessionOptions(stream, parsed) ==
    [stream |-> stream, keyframe |-> parsed.options.k = 1,
     skip |-> parsed.options.s]

=============================================================================
