\* A quiet stream: no event, 1025 connections that end.
SPECIFICATION Spec
CONSTANTS
    MaxEvents = 0
    MaxDrops = 1025
    MaxExponent = 1023
CHECK_DEADLOCK FALSE
INVARIANT OnlyHttpErrorsEndIt
