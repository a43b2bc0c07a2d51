------------------------------- MODULE MCBoard -------------------------------
\* Values of Board's constants for TLC.
EXTENDS Board, TLC

SomePresses == {{1}, {3}, {5}, {2, 3}}
OnePress == {{1}}
SomeAnswers == {{1}}
=============================================================================
