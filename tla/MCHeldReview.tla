----------------------------- MODULE MCHeldReview -----------------------------
EXTENDS HeldReview
=============================================================================
