------------------------------ MODULE MCFileData ------------------------------
EXTENDS FileData
==============================================================================
