--------------------------- MODULE MCRecordReplay ---------------------------
(* Two connections; commands that differ in case and in word boundaries     *)
(* only, and an admin one; replies of the kinds that are encoded apart.     *)
EXTENDS RecordReplay, TLC

MCTokens == {"get", "GET", "k", "incr", "n", "Hello", "hello", "3", "v", "5", "ERR"}
MCAppCommands == { <<<<"get">>, <<"k">>>>, <<<<"GET", "k">>>>, <<<<"incr">>, <<"n">>>>,
                   <<<<"Hello">>, <<"3">>>> }
\* "GET k" in one word is no command Redis knows.
MCRedisReplies(words) ==
    CASE words[1] = <<"get">> -> { Value("bulk", <<"v">>), Value("null", <<>>) }
      [] words[1] = <<"incr">> -> { Value("integer", <<"5">>) }
      [] words[1] = <<"Hello">> -> { Value("bulk", <<"hello">>) }
      [] OTHER -> { Value("error", <<"ERR">>) }

\* The connections are interchangeable.
MCSymmetry == Permutations(Conns)
=============================================================================
