SPECIFICATION Spec
CONSTANTS Caller = {c1, c2}
          Form <- MCForm
          Start <- MCStart
          Payload <- MCPayload
          Address <- MCAddress
          Pointer <- MCPointer
          Ranges <- MCRanges
          Fits <- MCFits
          MaxWrites = 2
SYMMETRY Callers
INVARIANT ContentsOK
INVARIANT EditsStayAtAddress
INVARIANT MovesKeepValues
INVARIANT RangesReplaced
INVARIANT RowDescribesFile
PROPERTY ReplacedAreCopied
CHECK_DEADLOCK FALSE
