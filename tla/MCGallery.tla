------------------------------ MODULE MCGallery ------------------------------
EXTENDS Gallery
=============================================================================
