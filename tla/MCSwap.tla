------------------------------- MODULE MCSwap -------------------------------
\* Two pages more than frames (check_swap has one more), so that pages come
\* back in other frames than they left.
EXTENDS Swap
=============================================================================
