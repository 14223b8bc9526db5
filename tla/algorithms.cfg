SPECIFICATION Spec
INVARIANTS PatchMakesWhatItDeclares OtherLinesKept ReplaysAlone AnswersFollow RebuiltAsSent
CHECK_DEADLOCK FALSE
