------------------------------ MODULE MCSoldier -----------------------------
(***************************************************************************)
(* A small instance of Soldier: a request that is any of the jobs below,   *)
(* which take every way through every class of Soldier, and one beside it. *)
(***************************************************************************)
EXTENDS Soldier, TLC

Job(s, w) == [who |-> s, words |-> w]

JobsOfAllClasses ==
    {Job("research", w) : w \in {{"x"}, {"x", "?"}, {"play", "song", "x"}, {"open", "youtube"}}}
    \cup {Job("search", w) : w \in {{"x"}, {"find", "x"}}}
    \cup {Job("weather", {"x", "?"}), Job("maps", {"x"})}
    \cup {Job("video", w) : w \in {{"play", "song"}, {"movie", "?"}}}
    \cup {Job("movie_planner", w) : w \in {{"book", "movie"}, {"movie"}}}
    \cup {Job("long_term_memory", {"x"})}

\* No key, all keys, and a search or skills without a model of their own.
FourKeySets == {{}, {"web.search"}, {"skills.invoke"},
                {"llm.nvidia", "web.search", "skills.invoke"}}

\* The second request is there for the books it shares with the first.
TwoRequests == [first |-> JobsOfAllClasses, second |-> {Job("search", {"x"})}]

=============================================================================
