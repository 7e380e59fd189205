-------------------------- MODULE MCMapReduceServer --------------------------
EXTENDS MapReduceServer

\* Two files: the largest number is in the first, behind a smaller one, so
\* neither the later result nor the first number of a file may win.
TwoFiles == {<< <<1, 3>>, <<2>> >>}

OneFile == {<< <<1>> >>}
=============================================================================
