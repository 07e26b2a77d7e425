--------------------------- MODULE MCModQueries -----------------------------
(* Two mods and one jar that is rejected, beside forge and minecraft.     *)
EXTENDS ModQueries

Range(form, open, lo, hi, close) ==
  [form |-> form, open |-> open, lo |-> lo, hi |-> hi, close |-> close]

Jar(id, version, from, deps) ==
  [id |-> id, version |-> version, entries |-> 1, from |-> from, deps |-> deps]

Needs(id, range) == [id |-> id, range |-> range]

MCReserved == {2, 3}

MCBase == {Jar(2, 2, "toml", <<Needs(3, Range("none", "[", 0, 0, "]"))>>),
           Jar(3, 1, "toml", << >>)}

MCJars ==
  { \* the first mod: needs the fourth in [1,2), then in (,2] and minecraft in [1]
    Jar(1, 1, "toml", <<Needs(4, Range("pair", "[", 1, 2, ")")), Needs(1, Range("none", "[", 0, 0, "]"))>>),
    Jar(1, 2, "manifest", <<Needs(4, Range("pair", "(", 0, 2, "]")), Needs(3, Range("single", "[", 1, 0, "]"))>>),
    \* the fourth: with no version, then needing more than forge has, then the first
    Jar(4, 0, "toml", << >>),
    Jar(4, 1, "toml", <<Needs(2, Range("pair", "(", 1, 0, "]"))>>),
    Jar(4, 2, "toml", <<Needs(1, Range("pair", "[", 0, 2, ")"))>>),
    \* the fourth again: needs the first in a union whose second text sorts like 2
    Jar(4, 3, "toml", <<Needs(1, Range("union", "[", 1, 2, ")"))>>),
    \* the fifth: a version from a manifest it does not have, then a range in no brackets
    Jar(5, 1, "no manifest", << >>),
    Jar(5, 2, "toml", <<Needs(1, Range("pair", "?", 1, 2, ")"))>>) }
=============================================================================
