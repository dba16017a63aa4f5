------------------------------ MODULE MCFatFs ------------------------------
\* Small instances of FatFs for TLC.
EXTENDS FatFs

NamesAreAlike == Permutations(Names)

\* A directory that has room for the files while the card may fail, and one
\* that must be stretched while it does not.
RoomOrNoFailure == {<<2, 1, 9>>, <<1, 0, 10>>}

\* A directory that must be stretched while the card may fail.
StretchAndFailure == {<<1, 1, 6>>}
=============================================================================
