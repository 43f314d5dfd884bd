---- MODULE MCThreadpool ----
EXTENDS Threadpool

\* Two nodes: the first has more chunks than threads, the second few.
TwoNodes == <<3, 1>>
\* Two graphs one after the other for two threads, one for three.
Graphs == <<1, 2, 1>>
====
