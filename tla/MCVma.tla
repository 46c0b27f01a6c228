------------------------------- MODULE MCVma -------------------------------
EXTENDS Vma

\* Three areas, as vma_init adds them, in pages.
MCBootAreas == << <<10, 12>>, <<8, 9>>, <<4, 5>> >>
=============================================================================
