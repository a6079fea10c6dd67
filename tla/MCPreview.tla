------------------------------ MODULE MCPreview ------------------------------
EXTENDS Preview
=============================================================================
