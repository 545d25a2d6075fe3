---------------------------- MODULE MCPipeline -----------------------------
EXTENDS Pipeline

\* Files of 1..3 chunks: with two lanes per stage, three chunks make one
\* lane carry two while the other carries one, and segments can close
\* after any chunk.
MCFileSizes == 1 .. 3
\* The KM cloud does not influence the threads' control flow; MCCollector
\* checks every choice of it.
MCKMChoices == {1}
\* A zero-byte file: the chunking loop of main never runs.
EmptyFile == {0}
\* Traces of one or two lines, any of which may be over maxChunkSize_.
TraceSizes == 1 .. 2
\* Which trace lines are over maxChunkSize_: any of them, or any but the
\* last one.
AnyLines(n) == SUBSET (1 .. n)
LastLineFits(n) == SUBSET (1 .. n - 1)
====
