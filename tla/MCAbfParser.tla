----------------------------- MODULE MCAbfParser -----------------------------
(* AbfParser over small files of both formats.                             *)
EXTENDS AbfParser, FiniteSets

CONSTANTS MaxLength,       \* longest model
          Threads          \* thread layouts: <<heads, headBlocks, tails, tailBlocks>>

LogSize == BomSize + 1
VdirSize == 1

\* The three parts lie behind one another at the end of the model; `pad` bytes
\* may follow.
Parts(length) ==
    {<<at, size, pad>> \in (1..length) \X (1..length) \X {0, 1} :
        at + size + LogSize + VdirSize + pad = length}

FileOf(format, length, layout, part, damaged) ==
    LET logAt == part[1] + part[2]
    IN  [format |-> format, length |-> length,
         heads |-> layout[1], headBlocks |-> layout[2],
         tails |-> layout[3], tailBlocks |-> layout[4],
         damaged |-> damaged,
         sqlite |-> [at |-> part[1], size |-> part[2]],
         log |-> [at |-> logAt, size |-> LogSize],
         vdir |-> [at |-> logAt + LogSize, size |-> VdirSize]]

Blocks(length) == (length + BlockSize - 1) \div BlockSize

Damages(length) == {D \in SUBSET (1..Blocks(length)) : Cardinality(D) <= 1}

SingleFiles ==
    UNION {{FileOf("single", n, <<0, 0, 0, 0>>, part, D) :
              part \in Parts(n), D \in Damages(n)} : n \in 1..MaxLength}

MultiFiles ==
    UNION {{FileOf("multi", n, layout, part, D) :
              layout \in {t \in Threads :
                           t[1] * t[2] + t[3] * t[4] - Blocks(n) \in -2..1},
              part \in Parts(n), D \in Damages(n)} : n \in 1..MaxLength}

MCFiles == SingleFiles \cup MultiFiles

MCThreads == {<<1, 2, 1, 1>>, <<1, 1, 2, 2>>, <<2, 2, 1, 1>>, <<0, 1, 2, 2>>,
              <<2, 1, 1, 2>>, <<3, 1, 0, 1>>, <<1, 2, 2, 2>>}
MCTrailings == -1..6
=============================================================================
