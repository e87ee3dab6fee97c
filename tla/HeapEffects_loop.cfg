SPECIFICATION Spec
CONSTANT Programs <- LoopPrograms
PROPERTY EvaluationEnds
CHECK_DEADLOCK FALSE
