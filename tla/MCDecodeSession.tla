--------------------------- MODULE MCDecodeSession ---------------------------
(* Instances of DecodeSession for TLC. *)
EXTENDS DecodeSession, CommandLine

(* Five frames, three of them I frames, and a packet that is not video. *)
Video == <<"key", "audio", "delta", "delta", "key", "key">>

Paths == <<Option("i", 0), Option("o", 0)>>

(* -s 2, -s 0 and -k of the one program, -s 2 and -k of the other; the     *)
(* example of demo_stream_decoding.c:535, "-p 8 -k", and the example of    *)
(* demo_file_decoding.c:567, six operands, which get the usage.            *)
FileLines == {Paths \o <<Option("s", 2)>>, <<Option("s", 0)>> \o Paths,
              Paths \o <<Flag("k"), Option("s", 0)>>, <<>>}

StreamLines == {Paths \o <<Option("s", 2)>>, Paths \o <<Flag("k")>>,
                Paths \o <<Option("p", 8), Flag("k")>>}

Accepted(program, lines) ==
    {parsed \in {ParseOpt(program, args) : args \in lines} : parsed.accepted}

StartedWith ==
    {SessionOptions(FALSE, parsed) : parsed \in Accepted(FileProgram, FileLines)}
    \cup
    {SessionOptions(TRUE, parsed) : parsed \in Accepted(StreamProgram, StreamLines)}

(* parse_opt against what the usage says, for all three programs: the last *)
(* value of an option counts, or its default, in whatever order they come. *)
SomeArgs == {Option("i", 0), Option("o", 0), Option("s", 0), Option("s", 2),
             Option("t", 0), Option("p", 8), Flag("k"), Flag("h")}

LastValue(args, letter, default) ==
    LET at == {n \in DOMAIN args : args[n].letter = letter}
    IN  IF at = {} THEN default
        ELSE args[CHOOSE n \in at : \A m \in at : m <= n].value

ASSUME ParseOptAsDocumented ==
    \A program \in {FileProgram, StreamProgram, ServerProgram},
       args \in UNION {[1 .. n -> SomeArgs] : n \in 0 .. 4} :
       LET letters == {args[n].letter : n \in DOMAIN args}
           parsed  == ParseOpt(program, args)
       IN  /\ parsed.accepted <=> program.required \subseteq letters
                                  /\ letters \subseteq program.letters
           /\ parsed.accepted =>
                 parsed.options = [letter \in DOMAIN program.defaults |->
                    LastValue(args, letter, program.defaults[letter])]

=============================================================================
