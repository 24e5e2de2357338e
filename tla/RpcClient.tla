----------------------------- MODULE RpcClient -----------------------------
(***************************************************************************)
(* The client stubs of rpc.cpp, one row per OpenXR function: its function  *)
(* id, what the stub serializes, what it deserializes of the answer after  *)
(* the result and the runtime's duration, and the parameters the OpenXR    *)
(* signature lets the runtime write (pointers to non-const).               *)
(*                                                                         *)
(* One definition per #ifdef XRTRANSPORT_EXT_... block (several where the  *)
(* block is long), in the order of the file; the core functions come last. *)
(* The name of a member of a structure is written "parameter.member".      *)
(***************************************************************************)
EXTENDS WireFields, TLC

\* A stub.  Its request starts with the id, its answer with the XrResult and the
\* duration, which every stub reads and which carry no parameter.
Call(id, request, reply, outs) ==
  [id |-> id, request |-> request, reply |-> reply, outs |-> outs]


Client_XR_ALMALENCE_digital_lens_control ==
  [xrSetDigitalLensControlALMALENCE |-> Call(197001, <<Val("session"),
        Chain("digitalLensControl")>>, <<>>, {})]

Client_XR_BD_body_tracking ==
  [xrCreateBodyTrackerBD |-> Call(386001, <<Val("session"), Chain("createInfo"),
        Ptr("bodyTracker")>>, <<Ptr("bodyTracker")>>, {"bodyTracker"}),
   xrDestroyBodyTrackerBD |-> Call(386002, <<Val("bodyTracker")>>, <<>>, {}),
   xrLocateBodyJointsBD |-> Call(386003, <<Val("bodyTracker"), Chain("locateInfo"),
        Chain("locations")>>, <<Ptr("locations")>>, {"locations"})]

Client_XR_BD_spatial_anchor_1 ==
  [xrCreateSpatialAnchorAsyncBD |-> Call(391001, <<Val("provider"), Chain("info"),
        Ptr("future")>>, <<Ptr("future")>>, {"future"}),
   xrCreateSpatialAnchorCompleteBD |-> Call(391002, <<Val("provider"), Val("future"),
        Chain("completion")>>, <<Ptr("completion")>>, {"completion"}),
   xrPersistSpatialAnchorAsyncBD |-> Call(391003, <<Val("provider"), Chain("info"),
        Ptr("future")>>, <<Ptr("future")>>, {"future"}),
   xrPersistSpatialAnchorCompleteBD |-> Call(391004, <<Val("provider"), Val("future"),
        Chain("completion")>>, <<Ptr("completion")>>, {"completion"})]

Client_XR_BD_spatial_anchor_2 ==
  [xrUnpersistSpatialAnchorAsyncBD |-> Call(391005, <<Val("provider"), Chain("info"),
        Ptr("future")>>, <<Ptr("future")>>, {"future"}),
   xrUnpersistSpatialAnchorCompleteBD |-> Call(391006, <<Val("provider"), Val("future"),
        Chain("completion")>>, <<Ptr("completion")>>, {"completion"})]

Client_XR_BD_spatial_anchor_sharing ==
  [xrDownloadSharedSpatialAnchorAsyncBD |-> Call(392001, <<Val("provider"), Chain("info"),
        Ptr("future")>>, <<Ptr("future")>>, {"future"}),
   xrDownloadSharedSpatialAnchorCompleteBD |-> Call(392002, <<Val("provider"), Val("future"),
        Chain("completion")>>, <<Ptr("completion")>>, {"completion"}),
   xrShareSpatialAnchorAsyncBD |-> Call(392003, <<Val("provider"), Chain("info"),
        Ptr("future")>>, <<Ptr("future")>>, {"future"}),
   xrShareSpatialAnchorCompleteBD |-> Call(392004, <<Val("provider"), Val("future"),
        Chain("completion")>>, <<Ptr("completion")>>, {"completion"})]

Client_XR_BD_spatial_scene ==
  [xrCaptureSceneAsyncBD |-> Call(393001, <<Val("provider"), Chain("info"), Ptr("future")>>,
        <<Ptr("future")>>, {"future"}),
   xrCaptureSceneCompleteBD |-> Call(393002, <<Val("provider"), Val("future"),
        Chain("completion")>>, <<Ptr("completion")>>, {"completion"})]

Client_XR_BD_spatial_sensing_1 ==
  [xrCreateAnchorSpaceBD |-> Call(390001, <<Val("session"), Chain("createInfo"),
        Ptr("space")>>, <<Ptr("space")>>, {"space"}),
   xrCreateSenseDataProviderBD |-> Call(390002, <<Val("session"), Chain("createInfo"),
        Ptr("provider")>>, <<Ptr("provider")>>, {"provider"}),
   xrCreateSpatialEntityAnchorBD |-> Call(390003, <<Val("provider"), Chain("createInfo"),
        Ptr("anchor")>>, <<Ptr("anchor")>>, {"anchor"}),
   xrDestroyAnchorBD |-> Call(390004, <<Val("anchor")>>, <<>>, {})]

Client_XR_BD_spatial_sensing_2 ==
  [xrDestroySenseDataProviderBD |-> Call(390005, <<Val("provider")>>, <<>>, {}),
   xrDestroySenseDataSnapshotBD |-> Call(390006, <<Val("snapshot")>>, <<>>, {}),
   xrEnumerateSpatialEntityComponentTypesBD |-> Call(390007, <<Val("snapshot"),
        Val("entityId"), Val("componentTypeCapacityInput"), Ptr("componentTypeCountOutput"),
        PtrN("componentTypes", "componentTypeCapacityInput")>>,
        <<Ptr("componentTypeCountOutput"), Ptr("componentTypes")>>,
        {"componentTypeCountOutput", "componentTypes"}),
   xrGetAnchorUuidBD |-> Call(390008, <<Val("anchor"), Ptr("uuid")>>, <<Ptr("uuid")>>,
        {"uuid"})]

Client_XR_BD_spatial_sensing_3 ==
  [xrGetQueriedSenseDataBD |-> Call(390009, <<Val("snapshot"), Chain("getInfo"),
        Chain("queriedSenseData")>>, <<Ptr("getInfo"), Ptr("queriedSenseData")>>,
        {"getInfo", "queriedSenseData"}),
   xrGetSenseDataProviderStateBD |-> Call(390010, <<Val("provider"), Ptr("state")>>,
        <<Ptr("state")>>, {"state"}),
   xrGetSpatialEntityComponentDataBD |-> Call(390011, <<Val("snapshot"), Chain("getInfo"),
        Xr("componentData")>>, <<Xr("componentData")>>, {"componentData"}),
   xrGetSpatialEntityUuidBD |-> Call(390012, <<Val("snapshot"), Val("entityId"), Ptr("uuid")>>,
        <<Ptr("uuid")>>, {"uuid"})]

Client_XR_BD_spatial_sensing_4 ==
  [xrQuerySenseDataAsyncBD |-> Call(390013, <<Val("provider"), Chain("queryInfo"),
        Ptr("future")>>, <<Ptr("future")>>, {"future"}),
   xrQuerySenseDataCompleteBD |-> Call(390014, <<Val("provider"), Val("future"),
        Chain("completion")>>, <<Ptr("completion")>>, {"completion"}),
   xrStartSenseDataProviderAsyncBD |-> Call(390015, <<Val("provider"), Chain("startInfo"),
        Ptr("future")>>, <<Ptr("future")>>, {"future"}),
   xrStartSenseDataProviderCompleteBD |-> Call(390016, <<Val("session"), Val("future"),
        Chain("completion")>>, <<Ptr("completion")>>, {"completion"})]

Client_XR_BD_spatial_sensing_5 ==
  [xrStopSenseDataProviderBD |-> Call(390017, <<Val("provider")>>, <<>>, {})]

Client_XR_EXT_conformance_automation_1 ==
  [xrSetInputDeviceActiveEXT |-> Call(48001, <<Val("session"), Val("interactionProfile"),
        Val("topLevelPath"), Val("isActive")>>, <<>>, {}),
   xrSetInputDeviceLocationEXT |-> Call(48002, <<Val("session"), Val("topLevelPath"),
        Val("inputSourcePath"), Val("space"), Val("pose")>>, <<>>, {}),
   xrSetInputDeviceStateBoolEXT |-> Call(48003, <<Val("session"), Val("topLevelPath"),
        Val("inputSourcePath"), Val("state")>>, <<>>, {}),
   xrSetInputDeviceStateFloatEXT |-> Call(48004, <<Val("session"), Val("topLevelPath"),
        Val("inputSourcePath"), Val("state")>>, <<>>, {})]

Client_XR_EXT_conformance_automation_2 ==
  [xrSetInputDeviceStateVector2fEXT |-> Call(48005, <<Val("session"), Val("topLevelPath"),
        Val("inputSourcePath"), Val("state")>>, <<>>, {})]

Client_XR_EXT_debug_utils_1 ==
  [xrCreateDebugUtilsMessengerEXT |-> Call(20001, <<Val("instance"), Chain("createInfo"),
        Ptr("messenger")>>, <<Ptr("createInfo.userData"), Ptr("messenger")>>, {"messenger"}),
   xrDestroyDebugUtilsMessengerEXT |-> Call(20002, <<Val("messenger")>>, <<>>, {}),
   xrSessionBeginDebugUtilsLabelRegionEXT |-> Call(20003, <<Val("session"),
        Chain("labelInfo")>>, <<>>, {}),
   xrSessionEndDebugUtilsLabelRegionEXT |-> Call(20004, <<Val("session")>>, <<>>, {})]

Client_XR_EXT_debug_utils_2 ==
  [xrSessionInsertDebugUtilsLabelEXT |-> Call(20005, <<Val("session"), Chain("labelInfo")>>,
        <<>>, {}),
   xrSetDebugUtilsObjectNameEXT |-> Call(20006, <<Val("instance"), Chain("nameInfo")>>, <<>>,
        {}),
   xrSubmitDebugUtilsMessageEXT |-> Call(20007, <<Val("instance"), Val("messageSeverity"),
        Val("messageTypes"), Chain("callbackData")>>, <<Ptr("callbackData.objects"),
        Ptr("callbackData.sessionLabels")>>, {})]

Client_XR_EXT_future ==
  [xrCancelFutureEXT |-> Call(470001, <<Val("instance"), Chain("cancelInfo")>>, <<>>, {}),
   xrPollFutureEXT |-> Call(470002, <<Val("instance"), Chain("pollInfo"),
        Chain("pollResult")>>, <<Ptr("pollResult")>>, {"pollResult"})]

Client_XR_EXT_hand_tracking ==
  [xrCreateHandTrackerEXT |-> Call(52001, <<Val("session"), Chain("createInfo"),
        Ptr("handTracker")>>, <<Ptr("handTracker")>>, {"handTracker"}),
   xrDestroyHandTrackerEXT |-> Call(52002, <<Val("handTracker")>>, <<>>, {}),
   xrLocateHandJointsEXT |-> Call(52003, <<Val("handTracker"), Chain("locateInfo"),
        Chain("locations")>>, <<Ptr("locations")>>, {"locations"})]

Client_XR_EXT_performance_settings ==
  [xrPerfSettingsSetPerformanceLevelEXT |-> Call(16001, <<Val("session"), Val("domain"),
        Val("level")>>, <<>>, {})]

Client_XR_EXT_plane_detection_1 ==
  [xrBeginPlaneDetectionEXT |-> Call(430001, <<Val("planeDetector"), Chain("beginInfo")>>,
        <<>>, {}),
   xrCreatePlaneDetectorEXT |-> Call(430002, <<Val("session"), Chain("createInfo"),
        Ptr("planeDetector")>>, <<Ptr("planeDetector")>>, {"planeDetector"}),
   xrDestroyPlaneDetectorEXT |-> Call(430003, <<Val("planeDetector")>>, <<>>, {}),
   xrGetPlaneDetectionStateEXT |-> Call(430004, <<Val("planeDetector"), Ptr("state")>>,
        <<Ptr("state")>>, {"state"})]

Client_XR_EXT_plane_detection_2 ==
  [xrGetPlaneDetectionsEXT |-> Call(430005, <<Val("planeDetector"), Chain("info"),
        Chain("locations")>>, <<Ptr("locations")>>, {"locations"}),
   xrGetPlanePolygonBufferEXT |-> Call(430006, <<Val("planeDetector"), Val("planeId"),
        Val("polygonBufferIndex"), Chain("polygonBuffer")>>, <<Ptr("polygonBuffer")>>,
        {"polygonBuffer"})]

Client_XR_EXT_thermal_query ==
  [xrThermalGetTemperatureTrendEXT |-> Call(17001, <<Val("session"), Val("domain"),
        Ptr("notificationLevel"), Ptr("tempHeadroom"), Ptr("tempSlope")>>,
        <<Ptr("notificationLevel"), Ptr("tempHeadroom"), Ptr("tempSlope")>>,
        {"notificationLevel", "tempHeadroom", "tempSlope"})]

Client_XR_FB_body_tracking ==
  [xrCreateBodyTrackerFB |-> Call(77001, <<Val("session"), Chain("createInfo"),
        Ptr("bodyTracker")>>, <<Ptr("bodyTracker")>>, {"bodyTracker"}),
   xrDestroyBodyTrackerFB |-> Call(77002, <<Val("bodyTracker")>>, <<>>, {}),
   xrGetBodySkeletonFB |-> Call(77003, <<Val("bodyTracker"), Chain("skeleton")>>,
        <<Ptr("skeleton")>>, {"skeleton"}),
   xrLocateBodyJointsFB |-> Call(77004, <<Val("bodyTracker"), Chain("locateInfo"),
        Chain("locations")>>, <<Ptr("locations")>>, {"locations"})]

Client_XR_FB_color_space ==
  [xrEnumerateColorSpacesFB |-> Call(109001, <<Val("session"), Val("colorSpaceCapacityInput"),
        Ptr("colorSpaceCountOutput"), PtrN("colorSpaces", "colorSpaceCapacityInput")>>,
        <<Ptr("colorSpaceCountOutput"), Ptr("colorSpaces")>>, {"colorSpaceCountOutput",
        "colorSpaces"}),
   xrSetColorSpaceFB |-> Call(109002, <<Val("session"), Val("colorSpace")>>, <<>>, {})]

Client_XR_FB_display_refresh_rate ==
  [xrEnumerateDisplayRefreshRatesFB |-> Call(102001, <<Val("session"),
        Val("displayRefreshRateCapacityInput"), Ptr("displayRefreshRateCountOutput"),
        PtrN("displayRefreshRates", "displayRefreshRateCapacityInput")>>,
        <<Ptr("displayRefreshRateCountOutput"), Ptr("displayRefreshRates")>>,
        {"displayRefreshRateCountOutput", "displayRefreshRates"}),
   xrGetDisplayRefreshRateFB |-> Call(102002, <<Val("session"), Ptr("displayRefreshRate")>>,
        <<Ptr("displayRefreshRate")>>, {"displayRefreshRate"}),
   xrRequestDisplayRefreshRateFB |-> Call(102003, <<Val("session"),
        Val("displayRefreshRate")>>, <<>>, {})]

Client_XR_FB_eye_tracking_social ==
  [xrCreateEyeTrackerFB |-> Call(203001, <<Val("session"), Chain("createInfo"),
        Ptr("eyeTracker")>>, <<Ptr("eyeTracker")>>, {"eyeTracker"}),
   xrDestroyEyeTrackerFB |-> Call(203002, <<Val("eyeTracker")>>, <<>>, {}),
   xrGetEyeGazesFB |-> Call(203003, <<Val("eyeTracker"), Chain("gazeInfo"),
        Chain("eyeGazes")>>, <<Ptr("eyeGazes")>>, {"eyeGazes"})]

Client_XR_FB_face_tracking ==
  [xrCreateFaceTrackerFB |-> Call(202001, <<Val("session"), Chain("createInfo"),
        Ptr("faceTracker")>>, <<Ptr("faceTracker")>>, {"faceTracker"}),
   xrDestroyFaceTrackerFB |-> Call(202002, <<Val("faceTracker")>>, <<>>, {}),
   xrGetFaceExpressionWeightsFB |-> Call(202003, <<Val("faceTracker"), Chain("expressionInfo"),
        Chain("expressionWeights")>>, <<Ptr("expressionWeights")>>, {"expressionWeights"})]

Client_XR_FB_face_tracking2 ==
  [xrCreateFaceTracker2FB |-> Call(288001, <<Val("session"), Chain("createInfo"),
        Ptr("faceTracker")>>, <<Ptr("createInfo.requestedDataSources"),
        Ptr("faceTracker")>>, {"faceTracker"}),
   xrDestroyFaceTracker2FB |-> Call(288002, <<Val("faceTracker")>>, <<>>, {}),
   xrGetFaceExpressionWeights2FB |-> Call(288003, <<Val("faceTracker"),
        Chain("expressionInfo"), Chain("expressionWeights")>>, <<Ptr("expressionWeights")>>,
        {"expressionWeights"})]

Client_XR_FB_foveation ==
  [xrCreateFoveationProfileFB |-> Call(115001, <<Val("session"), Chain("createInfo"),
        Ptr("profile")>>, <<Xr("createInfo.next"), Ptr("profile")>>, {"profile"}),
   xrDestroyFoveationProfileFB |-> Call(115002, <<Val("profile")>>, <<>>, {})]

Client_XR_FB_hand_tracking_mesh ==
  [xrGetHandMeshFB |-> Call(111001, <<Val("handTracker"), Chain("mesh")>>, <<Ptr("mesh")>>,
        {"mesh"})]

Client_XR_FB_haptic_pcm ==
  [xrGetDeviceSampleRateFB |-> Call(210001, <<Val("session"), Chain("hapticActionInfo"),
        Ptr("deviceSampleRate")>>, <<Ptr("deviceSampleRate")>>, {"deviceSampleRate"})]

Client_XR_FB_keyboard_tracking ==
  [xrCreateKeyboardSpaceFB |-> Call(117001, <<Val("session"), Chain("createInfo"),
        Ptr("keyboardSpace")>>, <<Xr("createInfo.next"), Ptr("keyboardSpace")>>,
        {"keyboardSpace"}),
   xrQuerySystemTrackedKeyboardFB |-> Call(117002, <<Val("session"), Chain("queryInfo"),
        Ptr("keyboard")>>, <<Xr("queryInfo.next"), Ptr("keyboard")>>, {"keyboard"})]

Client_XR_FB_passthrough_1 ==
  [xrCreateGeometryInstanceFB |-> Call(119001, <<Val("session"), Chain("createInfo"),
        Ptr("outGeometryInstance")>>, <<Ptr("outGeometryInstance")>>,
        {"outGeometryInstance"}),
   xrCreatePassthroughFB |-> Call(119002, <<Val("session"), Chain("createInfo"),
        Ptr("outPassthrough")>>, <<Ptr("outPassthrough")>>, {"outPassthrough"}),
   xrCreatePassthroughLayerFB |-> Call(119003, <<Val("session"), Chain("createInfo"),
        Ptr("outLayer")>>, <<Ptr("outLayer")>>, {"outLayer"}),
   xrDestroyGeometryInstanceFB |-> Call(119004, <<Val("instance")>>, <<>>, {})]

Client_XR_FB_passthrough_2 ==
  [xrDestroyPassthroughFB |-> Call(119005, <<Val("passthrough")>>, <<>>, {}),
   xrDestroyPassthroughLayerFB |-> Call(119006, <<Val("layer")>>, <<>>, {}),
   xrGeometryInstanceSetTransformFB |-> Call(119007, <<Val("instance"),
        Chain("transformation")>>, <<>>, {}),
   xrPassthroughLayerPauseFB |-> Call(119008, <<Val("layer")>>, <<>>, {})]

Client_XR_FB_passthrough_3 ==
  [xrPassthroughLayerResumeFB |-> Call(119009, <<Val("layer")>>, <<>>, {}),
   xrPassthroughLayerSetStyleFB |-> Call(119010, <<Val("layer"), Chain("style")>>, <<>>, {}),
   xrPassthroughPauseFB |-> Call(119011, <<Val("passthrough")>>, <<>>, {}),
   xrPassthroughStartFB |-> Call(119012, <<Val("passthrough")>>, <<>>, {})]

Client_XR_FB_passthrough_keyboard_hands ==
  [xrPassthroughLayerSetKeyboardHandsIntensityFB |-> Call(204001, <<Val("layer"),
        Chain("intensity")>>, <<>>, {})]

Client_XR_FB_render_model ==
  [xrEnumerateRenderModelPathsFB |-> Call(120001, <<Val("session"), Val("pathCapacityInput"),
        Ptr("pathCountOutput"), ChainN("paths", "pathCapacityInput")>>,
        <<Ptr("pathCountOutput"), Ptr("paths")>>, {"pathCountOutput", "paths"}),
   xrGetRenderModelPropertiesFB |-> Call(120002, <<Val("session"), Val("path"),
        Chain("properties")>>, <<Ptr("properties")>>, {"properties"}),
   xrLoadRenderModelFB |-> Call(120003, <<Val("session"), Chain("info"), Chain("buffer")>>,
        <<Xr("info.next"), Ptr("buffer")>>, {"buffer"})]

Client_XR_FB_scene_1 ==
  [xrGetSpaceBoundary2DFB |-> Call(176001, <<Val("session"), Val("space"),
        Chain("boundary2DOutput")>>, <<Ptr("boundary2DOutput")>>, {"boundary2DOutput"}),
   xrGetSpaceBoundingBox2DFB |-> Call(176002, <<Val("session"), Val("space"),
        Ptr("boundingBox2DOutput")>>, <<Ptr("boundingBox2DOutput")>>,
        {"boundingBox2DOutput"}),
   xrGetSpaceBoundingBox3DFB |-> Call(176003, <<Val("session"), Val("space"),
        Ptr("boundingBox3DOutput")>>, <<Ptr("boundingBox3DOutput")>>,
        {"boundingBox3DOutput"}),
   xrGetSpaceRoomLayoutFB |-> Call(176004, <<Val("session"), Val("space"),
        Chain("roomLayoutOutput")>>, <<Ptr("roomLayoutOutput")>>, {"roomLayoutOutput"})]

Client_XR_FB_scene_2 ==
  [xrGetSpaceSemanticLabelsFB |-> Call(176005, <<Val("session"), Val("space"),
        Chain("semanticLabelsOutput")>>, <<Ptr("semanticLabelsOutput")>>,
        {"semanticLabelsOutput"})]

Client_XR_FB_scene_capture ==
  [xrRequestSceneCaptureFB |-> Call(199001, <<Val("session"), Chain("info"),
        Ptr("requestId")>>, <<Ptr("requestId")>>, {"requestId"})]

Client_XR_FB_spatial_entity_1 ==
  [xrCreateSpatialAnchorFB |-> Call(114001, <<Val("session"), Chain("info"),
        Ptr("requestId")>>, <<Ptr("requestId")>>, {"requestId"}),
   xrEnumerateSpaceSupportedComponentsFB |-> Call(114002, <<Val("space"),
        Val("componentTypeCapacityInput"), Ptr("componentTypeCountOutput"),
        PtrN("componentTypes", "componentTypeCapacityInput")>>,
        <<Ptr("componentTypeCountOutput"), Ptr("componentTypes")>>,
        {"componentTypeCountOutput", "componentTypes"}),
   xrGetSpaceComponentStatusFB |-> Call(114003, <<Val("space"), Val("componentType"),
        Chain("status")>>, <<Ptr("status")>>, {"status"}),
   xrGetSpaceUuidFB |-> Call(114004, <<Val("space"), Ptr("uuid")>>, <<Ptr("uuid")>>, {"uuid"})]

Client_XR_FB_spatial_entity_2 ==
  [xrSetSpaceComponentStatusFB |-> Call(114005, <<Val("space"), Chain("info"),
        Ptr("requestId")>>, <<Ptr("requestId")>>, {"requestId"})]

Client_XR_FB_spatial_entity_container ==
  [xrGetSpaceContainerFB |-> Call(200001, <<Val("session"), Val("space"),
        Chain("spaceContainerOutput")>>, <<Ptr("spaceContainerOutput")>>,
        {"spaceContainerOutput"})]

Client_XR_FB_spatial_entity_query ==
  [xrQuerySpacesFB |-> Call(157001, <<Val("session"), Xr("info"), Ptr("requestId")>>,
        <<Ptr("requestId")>>, {"requestId"}),
   xrRetrieveSpaceQueryResultsFB |-> Call(157002, <<Val("session"), Val("requestId"),
        Chain("results")>>, <<Ptr("results")>>, {"results"})]

Client_XR_FB_spatial_entity_sharing ==
  [xrShareSpacesFB |-> Call(170001, <<Val("session"), Chain("info"), Ptr("requestId")>>,
        <<Ptr("info.spaces"), Ptr("info.users"), Ptr("requestId")>>, {"requestId"})]

Client_XR_FB_spatial_entity_storage ==
  [xrEraseSpaceFB |-> Call(159001, <<Val("session"), Chain("info"), Ptr("requestId")>>,
        <<Ptr("requestId")>>, {"requestId"}),
   xrSaveSpaceFB |-> Call(159002, <<Val("session"), Chain("info"), Ptr("requestId")>>,
        <<Ptr("requestId")>>, {"requestId"})]

Client_XR_FB_spatial_entity_storage_batch ==
  [xrSaveSpaceListFB |-> Call(239001, <<Val("session"), Chain("info"), Ptr("requestId")>>,
        <<Ptr("info.spaces"), Ptr("requestId")>>, {"requestId"})]

Client_XR_FB_spatial_entity_user ==
  [xrCreateSpaceUserFB |-> Call(242001, <<Val("session"), Chain("info"), Ptr("user")>>,
        <<Ptr("user")>>, {"user"}),
   xrDestroySpaceUserFB |-> Call(242002, <<Val("user")>>, <<>>, {}),
   xrGetSpaceUserIdFB |-> Call(242003, <<Val("user"), Ptr("userId")>>, <<Ptr("userId")>>,
        {"userId"})]

Client_XR_FB_swapchain_update_state ==
  [xrGetSwapchainStateFB |-> Call(72001, <<Val("swapchain"), Xr("state")>>, <<Xr("state")>>,
        {"state"}),
   xrUpdateSwapchainFB |-> Call(72002, <<Val("swapchain"), Xr("state")>>, <<>>, {})]

Client_XR_FB_triangle_mesh_1 ==
  [xrCreateTriangleMeshFB |-> Call(118001, <<Val("session"), Chain("createInfo"),
        Ptr("outTriangleMesh")>>, <<Ptr("outTriangleMesh")>>, {"outTriangleMesh"}),
   xrDestroyTriangleMeshFB |-> Call(118002, <<Val("mesh")>>, <<>>, {}),
   xrTriangleMeshBeginUpdateFB |-> Call(118003, <<Val("mesh")>>, <<>>, {}),
   xrTriangleMeshBeginVertexBufferUpdateFB |-> Call(118004, <<Val("mesh"),
        Ptr("outVertexCount")>>, <<Ptr("outVertexCount")>>, {"outVertexCount"})]

Client_XR_FB_triangle_mesh_2 ==
  [xrTriangleMeshEndUpdateFB |-> Call(118005, <<Val("mesh"), Val("vertexCount"),
        Val("triangleCount")>>, <<>>, {}),
   xrTriangleMeshEndVertexBufferUpdateFB |-> Call(118006, <<Val("mesh")>>, <<>>, {}),
   xrTriangleMeshGetIndexBufferFB |-> Call(118007, <<Val("mesh"),
        NotGenerated("outIndexBuffer")>>, <<Ptr("outIndexBuffer")>>, {"outIndexBuffer"}),
   xrTriangleMeshGetVertexBufferFB |-> Call(118008, <<Val("mesh"),
        NotGenerated("outVertexBuffer")>>, <<Ptr("outVertexBuffer")>>, {"outVertexBuffer"})]

Client_XR_HTCX_vive_tracker_interaction ==
  [xrEnumerateViveTrackerPathsHTCX |-> Call(104001, <<Val("instance"),
        Val("pathCapacityInput"), Ptr("pathCountOutput"), ChainN("paths",
        "pathCapacityInput")>>, <<Ptr("pathCountOutput"), Ptr("paths")>>,
        {"pathCountOutput", "paths"})]

Client_XR_HTC_anchor ==
  [xrCreateSpatialAnchorHTC |-> Call(320001, <<Val("session"), Chain("createInfo"),
        Ptr("anchor")>>, <<Ptr("anchor")>>, {"anchor"}),
   xrGetSpatialAnchorNameHTC |-> Call(320002, <<Val("anchor"), Ptr("name")>>, <<Ptr("name")>>,
        {"name"})]

Client_XR_HTC_body_tracking ==
  [xrCreateBodyTrackerHTC |-> Call(321001, <<Val("session"), Chain("createInfo"),
        Ptr("bodyTracker")>>, <<Ptr("bodyTracker")>>, {"bodyTracker"}),
   xrDestroyBodyTrackerHTC |-> Call(321002, <<Val("bodyTracker")>>, <<>>, {}),
   xrGetBodySkeletonHTC |-> Call(321003, <<Val("bodyTracker"), Val("baseSpace"),
        Val("skeletonGenerationId"), Chain("skeleton")>>, <<Ptr("skeleton")>>, {"skeleton"}),
   xrLocateBodyJointsHTC |-> Call(321004, <<Val("bodyTracker"), Chain("locateInfo"),
        Chain("locations")>>, <<Ptr("locations")>>, {"locations"})]

Client_XR_HTC_facial_tracking ==
  [xrCreateFacialTrackerHTC |-> Call(105001, <<Val("session"), Chain("createInfo"),
        Ptr("facialTracker")>>, <<Ptr("facialTracker")>>, {"facialTracker"}),
   xrDestroyFacialTrackerHTC |-> Call(105002, <<Val("facialTracker")>>, <<>>, {}),
   xrGetFacialExpressionsHTC |-> Call(105003, <<Val("facialTracker"),
        Chain("facialExpressions")>>, <<Ptr("facialExpressions")>>, {"facialExpressions"})]

Client_XR_HTC_foveation ==
  [xrApplyFoveationHTC |-> Call(319001, <<Val("session"), Chain("applyInfo")>>,
        <<Ptr("applyInfo.subImages")>>, {})]

Client_XR_HTC_passthrough ==
  [xrCreatePassthroughHTC |-> Call(318001, <<Val("session"), Chain("createInfo"),
        Ptr("passthrough")>>, <<Ptr("passthrough")>>, {"passthrough"}),
   xrDestroyPassthroughHTC |-> Call(318002, <<Val("passthrough")>>, <<>>, {})]

Client_XR_KHR_D3D11_enable ==
  [xrGetD3D11GraphicsRequirementsKHR |-> Call(28001, <<Val("instance"), Val("systemId"),
        Chain("graphicsRequirements")>>, <<Ptr("graphicsRequirements")>>,
        {"graphicsRequirements"})]

Client_XR_KHR_D3D12_enable ==
  [xrGetD3D12GraphicsRequirementsKHR |-> Call(29001, <<Val("instance"), Val("systemId"),
        Chain("graphicsRequirements")>>, <<Ptr("graphicsRequirements")>>,
        {"graphicsRequirements"})]

Client_XR_KHR_android_surface_swapchain ==
  [xrCreateSwapchainAndroidSurfaceKHR |-> Call(5001, <<Val("session"), Chain("info"),
        Ptr("swapchain"), Ptr("surface")>>, <<Ptr("swapchain"), Ptr("surface")>>,
        {"swapchain", "surface"})]

Client_XR_KHR_android_thread_settings ==
  [xrSetAndroidApplicationThreadKHR |-> Call(4001, <<Val("session"), Val("threadType"),
        Val("threadId")>>, <<>>, {})]

Client_XR_KHR_convert_timespec_time ==
  [xrConvertTimeToTimespecTimeKHR |-> Call(37001, <<Val("instance"), Time("time"),
        Ptr("timespecTime")>>, <<Ptr("timespecTime")>>, {"timespecTime"}),
   xrConvertTimespecTimeToTimeKHR |-> Call(37002, <<Val("instance"), Ptr("timespecTime"),
        Ptr("time")>>, <<Ptr("timespecTime"), Ptr("time")>>, {"time"})]

Client_XR_KHR_extended_struct_name_lengths ==
  [xrStructureTypeToString2KHR |-> Call(149001, <<Val("instance"), Val("value"),
        Arr("buffer")>>, <<Ptr("buffer")>>, {"buffer"})]

Client_XR_KHR_loader_init ==
  [xrInitializeLoaderKHR |-> Call(89001, <<Xr("loaderInitInfo")>>, <<>>, {})]

Client_XR_KHR_metal_enable ==
  [xrGetMetalGraphicsRequirementsKHR |-> Call(30001, <<Val("instance"), Val("systemId"),
        Chain("graphicsRequirements")>>, <<Ptr("graphicsRequirements")>>,
        {"graphicsRequirements"})]

Client_XR_KHR_opengl_enable ==
  [xrGetOpenGLGraphicsRequirementsKHR |-> Call(24001, <<Val("instance"), Val("systemId"),
        Chain("graphicsRequirements")>>, <<Ptr("graphicsRequirements")>>,
        {"graphicsRequirements"})]

Client_XR_KHR_opengl_es_enable ==
  [xrGetOpenGLESGraphicsRequirementsKHR |-> Call(25001, <<Val("instance"), Val("systemId"),
        Chain("graphicsRequirements")>>, <<Ptr("graphicsRequirements")>>,
        {"graphicsRequirements"})]

Client_XR_KHR_visibility_mask ==
  [xrGetVisibilityMaskKHR |-> Call(32001, <<Val("session"), Val("viewConfigurationType"),
        Val("viewIndex"), Val("visibilityMaskType"), Chain("visibilityMask")>>,
        <<Ptr("visibilityMask")>>, {"visibilityMask"})]

Client_XR_KHR_vulkan_enable_1 ==
  [xrGetVulkanDeviceExtensionsKHR |-> Call(26001, <<Val("instance"), Val("systemId"),
        Val("bufferCapacityInput"), Ptr("bufferCountOutput"), PtrN("buffer",
        "bufferCapacityInput")>>, <<Ptr("bufferCountOutput"), Ptr("buffer")>>,
        {"bufferCountOutput", "buffer"}),
   xrGetVulkanGraphicsDeviceKHR |-> Call(26002, <<Val("instance"), Val("systemId"),
        Val("vkInstance"), Ptr("vkPhysicalDevice")>>, <<Ptr("vkPhysicalDevice")>>,
        {"vkPhysicalDevice"}),
   xrGetVulkanGraphicsRequirementsKHR |-> Call(26003, <<Val("instance"), Val("systemId"),
        Chain("graphicsRequirements")>>, <<Ptr("graphicsRequirements")>>,
        {"graphicsRequirements"})]

Client_XR_KHR_vulkan_enable_2 ==
  [xrGetVulkanInstanceExtensionsKHR |-> Call(26004, <<Val("instance"), Val("systemId"),
        Val("bufferCapacityInput"), Ptr("bufferCountOutput"), PtrN("buffer",
        "bufferCapacityInput")>>, <<Ptr("bufferCountOutput"), Ptr("buffer")>>,
        {"bufferCountOutput", "buffer"})]

Client_XR_KHR_vulkan_enable2 ==
  [xrCreateVulkanDeviceKHR |-> Call(91001, <<Val("instance"), Chain("createInfo"),
        Ptr("vulkanDevice"), Ptr("vulkanResult")>>, <<Ptr("vulkanDevice"),
        Ptr("vulkanResult")>>, {"vulkanDevice", "vulkanResult"}),
   xrCreateVulkanInstanceKHR |-> Call(91002, <<Val("instance"), Chain("createInfo"),
        Ptr("vulkanInstance"), Ptr("vulkanResult")>>, <<Ptr("vulkanInstance"),
        Ptr("vulkanResult")>>, {"vulkanInstance", "vulkanResult"}),
   xrGetVulkanGraphicsDevice2KHR |-> Call(91003, <<Val("instance"), Chain("getInfo"),
        Ptr("vulkanPhysicalDevice")>>, <<Ptr("vulkanPhysicalDevice")>>,
        {"vulkanPhysicalDevice"})]

Client_XR_KHR_win32_convert_performance_counter_time ==
  [xrConvertTimeToWin32PerformanceCounterKHR |-> Call(36001, <<Val("instance"), Time("time"),
        Ptr("performanceCounter")>>, <<Ptr("performanceCounter")>>, {"performanceCounter"}),
   xrConvertWin32PerformanceCounterToTimeKHR |-> Call(36002, <<Val("instance"),
        Ptr("performanceCounter"), Ptr("time")>>, <<Ptr("time")>>, {"time"})]

Client_XR_META_colocation_discovery ==
  [xrStartColocationAdvertisementMETA |-> Call(572001, <<Val("session"), Chain("info"),
        Ptr("advertisementRequestId")>>, <<Ptr("info.buffer"),
        Ptr("advertisementRequestId")>>, {"advertisementRequestId"}),
   xrStartColocationDiscoveryMETA |-> Call(572002, <<Val("session"), Chain("info"),
        Ptr("discoveryRequestId")>>, <<Ptr("discoveryRequestId")>>, {"discoveryRequestId"}),
   xrStopColocationAdvertisementMETA |-> Call(572003, <<Val("session"), Chain("info"),
        Ptr("requestId")>>, <<Ptr("requestId")>>, {"requestId"}),
   xrStopColocationDiscoveryMETA |-> Call(572004, <<Val("session"), Chain("info"),
        Ptr("requestId")>>, <<Ptr("requestId")>>, {"requestId"})]

Client_XR_META_environment_depth_1 ==
  [xrAcquireEnvironmentDepthImageMETA |-> Call(292001, <<Val("environmentDepthProvider"),
        Chain("acquireInfo"), Chain("environmentDepthImage")>>,
        <<Ptr("environmentDepthImage")>>, {"environmentDepthImage"}),
   xrCreateEnvironmentDepthProviderMETA |-> Call(292002, <<Val("session"), Chain("createInfo"),
        Ptr("environmentDepthProvider")>>, <<Ptr("environmentDepthProvider")>>,
        {"environmentDepthProvider"}),
   xrCreateEnvironmentDepthSwapchainMETA |-> Call(292003, <<Val("environmentDepthProvider"),
        Chain("createInfo"), Ptr("swapchain")>>, <<Ptr("swapchain")>>, {"swapchain"}),
   xrDestroyEnvironmentDepthProviderMETA |-> Call(292004, <<Val("environmentDepthProvider")>>,
        <<>>, {})]

Client_XR_META_environment_depth_2 ==
  [xrDestroyEnvironmentDepthSwapchainMETA |-> Call(292005, <<Val("swapchain")>>, <<>>, {}),
   xrEnumerateEnvironmentDepthSwapchainImagesMETA |-> Call(292006, <<Val("swapchain"),
        Val("imageCapacityInput"), Ptr("imageCountOutput"), XrArr("images",
        "imageCapacityInput")>>, <<Ptr("imageCountOutput"), XrArrIn("images")>>,
        {"imageCountOutput", "images"}),
   xrGetEnvironmentDepthSwapchainStateMETA |-> Call(292007, <<Val("swapchain"),
        Chain("state")>>, <<Ptr("state")>>, {"state"}),
   xrSetEnvironmentDepthHandRemovalMETA |-> Call(292008, <<Val("environmentDepthProvider"),
        Chain("setInfo")>>, <<>>, {})]

Client_XR_META_environment_depth_3 ==
  [xrStartEnvironmentDepthProviderMETA |-> Call(292009, <<Val("environmentDepthProvider")>>,
        <<>>, {}),
   xrStopEnvironmentDepthProviderMETA |-> Call(292010, <<Val("environmentDepthProvider")>>,
        <<>>, {})]

Client_XR_META_foveation_eye_tracked ==
  [xrGetFoveationEyeTrackedStateMETA |-> Call(201001, <<Val("session"),
        Chain("foveationState")>>, <<Ptr("foveationState")>>, {"foveationState"})]

Client_XR_META_passthrough_color_lut ==
  [xrCreatePassthroughColorLutMETA |-> Call(267001, <<Val("passthrough"), Chain("createInfo"),
        Ptr("colorLut")>>, <<Ptr("colorLut")>>, {"colorLut"}),
   xrDestroyPassthroughColorLutMETA |-> Call(267002, <<Val("colorLut")>>, <<>>, {}),
   xrUpdatePassthroughColorLutMETA |-> Call(267003, <<Val("colorLut"), Chain("updateInfo")>>,
        <<>>, {})]

Client_XR_META_passthrough_preferences ==
  [xrGetPassthroughPreferencesMETA |-> Call(218001, <<Val("session"), Chain("preferences")>>,
        <<Ptr("preferences")>>, {"preferences"})]

Client_XR_META_performance_metrics ==
  [xrEnumeratePerformanceMetricsCounterPathsMETA |-> Call(233001, <<Val("instance"),
        Val("counterPathCapacityInput"), Ptr("counterPathCountOutput"), PtrN("counterPaths",
        "counterPathCapacityInput")>>, <<Ptr("counterPathCountOutput"),
        Ptr("counterPaths")>>, {"counterPathCountOutput", "counterPaths"}),
   xrGetPerformanceMetricsStateMETA |-> Call(233002, <<Val("session"), Chain("state")>>,
        <<Ptr("state")>>, {"state"}),
   xrQueryPerformanceMetricsCounterMETA |-> Call(233003, <<Val("session"), Val("counterPath"),
        Chain("counter")>>, <<Ptr("counter")>>, {"counter"}),
   xrSetPerformanceMetricsStateMETA |-> Call(233004, <<Val("session"), Chain("state")>>, <<>>,
        {})]

Client_XR_META_recommended_layer_resolution ==
  [xrGetRecommendedLayerResolutionMETA |-> Call(255001, <<Val("session"), Chain("info"),
        Chain("resolution")>>, <<Ptr("resolution")>>, {"resolution"})]

Client_XR_META_simultaneous_hands_and_controllers ==
  [xrPauseSimultaneousHandsAndControllersTrackingMETA |-> Call(533001, <<Val("session"),
        Chain("pauseInfo")>>, <<>>, {}),
   xrResumeSimultaneousHandsAndControllersTrackingMETA |-> Call(533002, <<Val("session"),
        Chain("resumeInfo")>>, <<>>, {})]

Client_XR_META_spatial_entity_mesh ==
  [xrGetSpaceTriangleMeshMETA |-> Call(270001, <<Val("space"), Chain("getInfo"),
        Chain("triangleMeshOutput")>>, <<Ptr("triangleMeshOutput")>>,
        {"triangleMeshOutput"})]

Client_XR_META_spatial_entity_sharing ==
  [xrShareSpacesMETA |-> Call(291001, <<Val("session"), Chain("info"), Ptr("requestId")>>,
        <<Ptr("info.spaces"), Ptr("requestId")>>, {"requestId"})]

Client_XR_META_virtual_keyboard_1 ==
  [xrChangeVirtualKeyboardTextContextMETA |-> Call(220001, <<Val("keyboard"),
        Chain("changeInfo")>>, <<>>, {}),
   xrCreateVirtualKeyboardMETA |-> Call(220002, <<Val("session"), Chain("createInfo"),
        Ptr("keyboard")>>, <<Ptr("keyboard")>>, {"keyboard"}),
   xrCreateVirtualKeyboardSpaceMETA |-> Call(220003, <<Val("session"), Val("keyboard"),
        Chain("createInfo"), Ptr("keyboardSpace")>>, <<Ptr("keyboardSpace")>>,
        {"keyboardSpace"}),
   xrDestroyVirtualKeyboardMETA |-> Call(220004, <<Val("keyboard")>>, <<>>, {})]

Client_XR_META_virtual_keyboard_2 ==
  [xrGetVirtualKeyboardDirtyTexturesMETA |-> Call(220005, <<Val("keyboard"),
        Val("textureIdCapacityInput"), Ptr("textureIdCountOutput"), PtrN("textureIds",
        "textureIdCapacityInput")>>, <<Ptr("textureIdCountOutput"), Ptr("textureIds")>>,
        {"textureIdCountOutput", "textureIds"}),
   xrGetVirtualKeyboardModelAnimationStatesMETA |-> Call(220006, <<Val("keyboard"),
        Chain("animationStates")>>, <<Ptr("animationStates")>>, {"animationStates"}),
   xrGetVirtualKeyboardScaleMETA |-> Call(220007, <<Val("keyboard"), Ptr("scale")>>,
        <<Ptr("scale")>>, {"scale"}),
   xrGetVirtualKeyboardTextureDataMETA |-> Call(220008, <<Val("keyboard"), Val("textureId"),
        Chain("textureData")>>, <<Ptr("textureData")>>, {"textureData"})]

Client_XR_META_virtual_keyboard_3 ==
  [xrSendVirtualKeyboardInputMETA |-> Call(220009, <<Val("keyboard"), Chain("info"),
        Ptr("interactorRootPose")>>, <<Ptr("interactorRootPose")>>, {"interactorRootPose"}),
   xrSetVirtualKeyboardModelVisibilityMETA |-> Call(220010, <<Val("keyboard"),
        Chain("modelVisibility")>>, <<>>, {}),
   xrSuggestVirtualKeyboardLocationMETA |-> Call(220011, <<Val("keyboard"),
        Chain("locationInfo")>>, <<>>, {})]

Client_XR_ML_compat ==
  [xrCreateSpaceFromCoordinateFrameUIDML |-> Call(138001, <<Val("session"),
        Chain("createInfo"), Ptr("space")>>, <<Ptr("space")>>, {"space"})]

Client_XR_ML_facial_expression ==
  [xrCreateFacialExpressionClientML |-> Call(483001, <<Val("session"), Chain("createInfo"),
        Ptr("facialExpressionClient")>>, <<Ptr("facialExpressionClient")>>,
        {"facialExpressionClient"}),
   xrDestroyFacialExpressionClientML |-> Call(483002, <<Val("facialExpressionClient")>>, <<>>,
        {}),
   xrGetFacialExpressionBlendShapePropertiesML |-> Call(483003,
        <<Val("facialExpressionClient"), Chain("blendShapeGetInfo"), Val("blendShapeCount"),
        ChainN("blendShapes", "blendShapeCount")>>, <<Ptr("blendShapes")>>, {"blendShapes"})]

Client_XR_ML_localization_map_1 ==
  [xrCreateExportedLocalizationMapML |-> Call(140001, <<Val("session"), Ptr("mapUuid"),
        Ptr("map")>>, <<Ptr("map")>>, {"map"}),
   xrDestroyExportedLocalizationMapML |-> Call(140002, <<Val("map")>>, <<>>, {}),
   xrEnableLocalizationEventsML |-> Call(140003, <<Val("session"), Chain("info")>>, <<>>, {}),
   xrGetExportedLocalizationMapDataML |-> Call(140004, <<Val("map"),
        Val("bufferCapacityInput"), Ptr("bufferCountOutput"), PtrN("buffer",
        "bufferCapacityInput")>>, <<Ptr("bufferCountOutput"), Ptr("buffer")>>,
        {"bufferCountOutput", "buffer"})]

Client_XR_ML_localization_map_2 ==
  [xrImportLocalizationMapML |-> Call(140005, <<Val("session"), Chain("importInfo"),
        Ptr("mapUuid")>>, <<Ptr("importInfo.data"), Ptr("mapUuid")>>, {"mapUuid"}),
   xrQueryLocalizationMapsML |-> Call(140006, <<Val("session"), Xr("queryInfo"),
        Val("mapCapacityInput"), Ptr("mapCountOutput"), ChainN("maps",
        "mapCapacityInput")>>, <<Ptr("mapCountOutput"), Ptr("maps")>>, {"mapCountOutput",
        "maps"}),
   xrRequestMapLocalizationML |-> Call(140007, <<Val("session"), Chain("requestInfo")>>, <<>>,
        {})]

Client_XR_ML_marker_understanding_1 ==
  [xrCreateMarkerDetectorML |-> Call(139001, <<Val("session"), Chain("createInfo"),
        Ptr("markerDetector")>>, <<Ptr("markerDetector")>>, {"markerDetector"}),
   xrCreateMarkerSpaceML |-> Call(139002, <<Val("session"), Chain("createInfo"),
        Ptr("space")>>, <<Ptr("space")>>, {"space"}),
   xrDestroyMarkerDetectorML |-> Call(139003, <<Val("markerDetector")>>, <<>>, {}),
   xrGetMarkerDetectorStateML |-> Call(139004, <<Val("markerDetector"), Chain("state")>>,
        <<Ptr("state")>>, {"state"})]

Client_XR_ML_marker_understanding_2 ==
  [xrGetMarkerLengthML |-> Call(139005, <<Val("markerDetector"), Val("marker"),
        Ptr("meters")>>, <<Ptr("meters")>>, {"meters"}),
   xrGetMarkerNumberML |-> Call(139006, <<Val("markerDetector"), Val("marker"),
        Ptr("number")>>, <<Ptr("number")>>, {"number"}),
   xrGetMarkerReprojectionErrorML |-> Call(139007, <<Val("markerDetector"), Val("marker"),
        Ptr("reprojectionErrorMeters")>>, <<Ptr("reprojectionErrorMeters")>>,
        {"reprojectionErrorMeters"}),
   xrGetMarkerStringML |-> Call(139008, <<Val("markerDetector"), Val("marker"),
        Val("bufferCapacityInput"), Ptr("bufferCountOutput"), PtrN("buffer",
        "bufferCapacityInput")>>, <<Ptr("bufferCountOutput"), Ptr("buffer")>>,
        {"bufferCountOutput", "buffer"})]

Client_XR_ML_marker_understanding_3 ==
  [xrGetMarkersML |-> Call(139009, <<Val("markerDetector"), Val("markerCapacityInput"),
        Ptr("markerCountOutput"), PtrN("markers", "markerCapacityInput")>>,
        <<Ptr("markerCountOutput"), Ptr("markers")>>, {"markerCountOutput", "markers"}),
   xrSnapshotMarkerDetectorML |-> Call(139010, <<Val("markerDetector"),
        Chain("snapshotInfo")>>, <<Ptr("snapshotInfo")>>, {"snapshotInfo"})]

Client_XR_ML_spatial_anchors ==
  [xrCreateSpatialAnchorsAsyncML |-> Call(141001, <<Val("session"), Xr("createInfo"),
        Ptr("future")>>, <<Ptr("future")>>, {"future"}),
   xrCreateSpatialAnchorsCompleteML |-> Call(141002, <<Val("session"), Val("future"),
        Chain("completion")>>, <<Ptr("completion")>>, {"completion"}),
   xrGetSpatialAnchorStateML |-> Call(141003, <<Val("anchor"), Chain("state")>>,
        <<Ptr("state")>>, {"state"})]

Client_XR_ML_spatial_anchors_storage_1 ==
  [xrCreateSpatialAnchorsStorageML |-> Call(142001, <<Val("session"), Chain("createInfo"),
        Ptr("storage")>>, <<Ptr("storage")>>, {"storage"}),
   xrDeleteSpatialAnchorsAsyncML |-> Call(142002, <<Val("storage"), Chain("deleteInfo"),
        Ptr("future")>>, <<Ptr("future")>>, {"future"}),
   xrDeleteSpatialAnchorsCompleteML |-> Call(142003, <<Val("storage"), Val("future"),
        Chain("completion")>>, <<Ptr("completion")>>, {"completion"}),
   xrDestroySpatialAnchorsStorageML |-> Call(142004, <<Val("storage")>>, <<>>, {})]

Client_XR_ML_spatial_anchors_storage_2 ==
  [xrPublishSpatialAnchorsAsyncML |-> Call(142005, <<Val("storage"), Chain("publishInfo"),
        Ptr("future")>>, <<Ptr("future")>>, {"future"}),
   xrPublishSpatialAnchorsCompleteML |-> Call(142006, <<Val("storage"), Val("future"),
        Chain("completion")>>, <<Ptr("completion")>>, {"completion"}),
   xrQuerySpatialAnchorsAsyncML |-> Call(142007, <<Val("storage"), Xr("queryInfo"),
        Ptr("future")>>, <<Ptr("future")>>, {"future"}),
   xrQuerySpatialAnchorsCompleteML |-> Call(142008, <<Val("storage"), Val("future"),
        Chain("completion")>>, <<Ptr("completion")>>, {"completion"})]

Client_XR_ML_spatial_anchors_storage_3 ==
  [xrUpdateSpatialAnchorsExpirationAsyncML |-> Call(142009, <<Val("storage"),
        Chain("updateInfo"), Ptr("future")>>, <<Ptr("future")>>, {"future"}),
   xrUpdateSpatialAnchorsExpirationCompleteML |-> Call(142010, <<Val("storage"), Val("future"),
        Chain("completion")>>, <<Ptr("completion")>>, {"completion"})]

Client_XR_ML_system_notifications ==
  [xrSetSystemNotificationsML |-> Call(474001, <<Val("instance"), Chain("info")>>, <<>>, {})]

Client_XR_ML_user_calibration ==
  [xrEnableUserCalibrationEventsML |-> Call(473001, <<Val("instance"), Chain("enableInfo")>>,
        <<>>, {})]

Client_XR_ML_world_mesh_detection_1 ==
  [xrAllocateWorldMeshBufferML |-> Call(475001, <<Val("detector"), Chain("size"),
        Chain("buffer")>>, <<Xr("size.next"), Ptr("buffer")>>, {"buffer"}),
   xrCreateWorldMeshDetectorML |-> Call(475002, <<Val("session"), Chain("createInfo"),
        Ptr("detector")>>, <<Ptr("detector")>>, {"detector"}),
   xrDestroyWorldMeshDetectorML |-> Call(475003, <<Val("detector")>>, <<>>, {}),
   xrFreeWorldMeshBufferML |-> Call(475004, <<Val("detector"), Chain("buffer")>>,
        <<Xr("buffer.next"), Ptr("buffer.buffer")>>, {})]

Client_XR_ML_world_mesh_detection_2 ==
  [xrGetWorldMeshBufferRecommendSizeML |-> Call(475005, <<Val("detector"), Chain("sizeInfo"),
        Chain("size")>>, <<Ptr("size")>>, {"size"}),
   xrRequestWorldMeshAsyncML |-> Call(475006, <<Val("detector"), Chain("getInfo"),
        Chain("buffer"), Ptr("future")>>, <<Ptr("getInfo.blocks"), Ptr("buffer"),
        Ptr("future")>>, {"buffer", "future"}),
   xrRequestWorldMeshCompleteML |-> Call(475007, <<Val("detector"), Chain("completionInfo"),
        Val("future"), Chain("completion")>>, <<Ptr("completion")>>, {"completion"})]

Client_XR_ML_world_mesh_detection_3 ==
  [xrRequestWorldMeshStateAsyncML |-> Call(475008, <<Val("detector"), Chain("stateRequest"),
        Ptr("future")>>, <<Ptr("future")>>, {"future"}),
   xrRequestWorldMeshStateCompleteML |-> Call(475009, <<Val("detector"), Val("future"),
        Chain("completion")>>, <<Ptr("completion")>>, {"completion"})]

Client_XR_MNDX_force_feedback_curl ==
  [xrApplyForceFeedbackCurlMNDX |-> Call(376001, <<Val("handTracker"), Chain("locations")>>,
        <<Ptr("locations.locations")>>, {})]

Client_XR_MSFT_composition_layer_reprojection ==
  [xrEnumerateReprojectionModesMSFT |-> Call(67001, <<Val("instance"), Val("systemId"),
        Val("viewConfigurationType"), Val("modeCapacityInput"), Ptr("modeCountOutput"),
        PtrN("modes", "modeCapacityInput")>>, <<Ptr("modeCountOutput"), Ptr("modes")>>,
        {"modeCountOutput", "modes"})]

Client_XR_MSFT_controller_model ==
  [xrGetControllerModelKeyMSFT |-> Call(56001, <<Val("session"), Val("topLevelUserPath"),
        Chain("controllerModelKeyState")>>, <<Ptr("controllerModelKeyState")>>,
        {"controllerModelKeyState"}),
   xrGetControllerModelPropertiesMSFT |-> Call(56002, <<Val("session"), Val("modelKey"),
        Chain("properties")>>, <<Ptr("properties")>>, {"properties"}),
   xrGetControllerModelStateMSFT |-> Call(56003, <<Val("session"), Val("modelKey"),
        Chain("state")>>, <<Ptr("state")>>, {"state"}),
   xrLoadControllerModelMSFT |-> Call(56004, <<Val("session"), Val("modelKey"),
        Val("bufferCapacityInput"), Ptr("bufferCountOutput"), PtrN("buffer",
        "bufferCapacityInput")>>, <<Ptr("bufferCountOutput"), Ptr("buffer")>>,
        {"bufferCountOutput", "buffer"})]

Client_XR_MSFT_hand_tracking_mesh ==
  [xrCreateHandMeshSpaceMSFT |-> Call(53001, <<Val("handTracker"), Chain("createInfo"),
        Ptr("space")>>, <<Ptr("space")>>, {"space"}),
   xrUpdateHandMeshMSFT |-> Call(53002, <<Val("handTracker"), Chain("updateInfo"),
        Chain("handMesh")>>, <<Ptr("handMesh")>>, {"handMesh"})]

Client_XR_MSFT_perception_anchor_interop ==
  [xrCreateSpatialAnchorFromPerceptionAnchorMSFT |-> Call(57001, <<Val("session"),
        Ptr("perceptionAnchor"), Ptr("anchor")>>, <<Ptr("perceptionAnchor"),
        Ptr("anchor")>>, {"perceptionAnchor", "anchor"}),
   xrTryGetPerceptionAnchorFromSpatialAnchorMSFT |-> Call(57002, <<Val("session"),
        Val("anchor"), NotGenerated("perceptionAnchor")>>, <<Ptr("perceptionAnchor")>>,
        {"perceptionAnchor"})]

Client_XR_MSFT_scene_marker ==
  [xrGetSceneMarkerDecodedStringMSFT |-> Call(148001, <<Val("scene"), Ptr("markerId"),
        Val("bufferCapacityInput"), Ptr("bufferCountOutput"), PtrN("buffer",
        "bufferCapacityInput")>>, <<Ptr("bufferCountOutput"), Ptr("buffer")>>,
        {"bufferCountOutput", "buffer"}),
   xrGetSceneMarkerRawDataMSFT |-> Call(148002, <<Val("scene"), Ptr("markerId"),
        Val("bufferCapacityInput"), Ptr("bufferCountOutput"), PtrN("buffer",
        "bufferCapacityInput")>>, <<Ptr("bufferCountOutput"), Ptr("buffer")>>,
        {"bufferCountOutput", "buffer"})]

Client_XR_MSFT_scene_understanding_1 ==
  [xrComputeNewSceneMSFT |-> Call(98001, <<Val("sceneObserver"), Chain("computeInfo")>>, <<>>,
        {}),
   xrCreateSceneMSFT |-> Call(98002, <<Val("sceneObserver"), Chain("createInfo"),
        Ptr("scene")>>, <<Ptr("scene")>>, {"scene"}),
   xrCreateSceneObserverMSFT |-> Call(98003, <<Val("session"), Chain("createInfo"),
        Ptr("sceneObserver")>>, <<Ptr("sceneObserver")>>, {"sceneObserver"}),
   xrDestroySceneMSFT |-> Call(98004, <<Val("scene")>>, <<>>, {})]

Client_XR_MSFT_scene_understanding_2 ==
  [xrDestroySceneObserverMSFT |-> Call(98005, <<Val("sceneObserver")>>, <<>>, {}),
   xrEnumerateSceneComputeFeaturesMSFT |-> Call(98006, <<Val("instance"), Val("systemId"),
        Val("featureCapacityInput"), Ptr("featureCountOutput"), PtrN("features",
        "featureCapacityInput")>>, <<Ptr("featureCountOutput"), Ptr("features")>>,
        {"featureCountOutput", "features"}),
   xrGetSceneComponentsMSFT |-> Call(98007, <<Val("scene"), Chain("getInfo"),
        Chain("components")>>, <<Ptr("components")>>, {"components"}),
   xrGetSceneComputeStateMSFT |-> Call(98008, <<Val("sceneObserver"), Ptr("state")>>,
        <<Ptr("state")>>, {"state"})]

Client_XR_MSFT_scene_understanding_3 ==
  [xrGetSceneMeshBuffersMSFT |-> Call(98009, <<Val("scene"), Chain("getInfo"),
        Chain("buffers")>>, <<Ptr("buffers")>>, {"buffers"}),
   xrLocateSceneComponentsMSFT |-> Call(98010, <<Val("scene"), Chain("locateInfo"),
        Chain("locations")>>, <<Ptr("locations")>>, {"locations"})]

Client_XR_MSFT_scene_understanding_serialization ==
  [xrDeserializeSceneMSFT |-> Call(99001, <<Val("sceneObserver"), Chain("deserializeInfo")>>,
        <<>>, {}),
   xrGetSerializedSceneFragmentDataMSFT |-> Call(99002, <<Val("scene"), Chain("getInfo"),
        Val("countInput"), Ptr("readOutput"), PtrN("buffer", "countInput")>>,
        <<Ptr("readOutput"), Ptr("buffer")>>, {"readOutput", "buffer"})]

Client_XR_MSFT_spatial_anchor ==
  [xrCreateSpatialAnchorMSFT |-> Call(40001, <<Val("session"), Chain("createInfo"),
        Ptr("anchor")>>, <<Ptr("anchor")>>, {"anchor"}),
   xrCreateSpatialAnchorSpaceMSFT |-> Call(40002, <<Val("session"), Chain("createInfo"),
        Ptr("space")>>, <<Ptr("space")>>, {"space"}),
   xrDestroySpatialAnchorMSFT |-> Call(40003, <<Val("anchor")>>, <<>>, {})]

Client_XR_MSFT_spatial_anchor_persistence_1 ==
  [xrClearSpatialAnchorStoreMSFT |-> Call(143001, <<Val("spatialAnchorStore")>>, <<>>, {}),
   xrCreateSpatialAnchorFromPersistedNameMSFT |-> Call(143002, <<Val("session"),
        Chain("spatialAnchorCreateInfo"), Ptr("spatialAnchor")>>, <<Ptr("spatialAnchor")>>,
        {"spatialAnchor"}),
   xrCreateSpatialAnchorStoreConnectionMSFT |-> Call(143003, <<Val("session"),
        Ptr("spatialAnchorStore")>>, <<Ptr("spatialAnchorStore")>>, {"spatialAnchorStore"}),
   xrDestroySpatialAnchorStoreConnectionMSFT |-> Call(143004, <<Val("spatialAnchorStore")>>,
        <<>>, {})]

Client_XR_MSFT_spatial_anchor_persistence_2 ==
  [xrEnumeratePersistedSpatialAnchorNamesMSFT |-> Call(143005, <<Val("spatialAnchorStore"),
        Val("spatialAnchorNameCapacityInput"), Ptr("spatialAnchorNameCountOutput"),
        PtrN("spatialAnchorNames", "spatialAnchorNameCapacityInput")>>,
        <<Ptr("spatialAnchorNameCountOutput"), Ptr("spatialAnchorNames")>>,
        {"spatialAnchorNameCountOutput", "spatialAnchorNames"}),
   xrPersistSpatialAnchorMSFT |-> Call(143006, <<Val("spatialAnchorStore"),
        Chain("spatialAnchorPersistenceInfo")>>, <<>>, {}),
   xrUnpersistSpatialAnchorMSFT |-> Call(143007, <<Val("spatialAnchorStore"),
        Ptr("spatialAnchorPersistenceName")>>, <<>>, {})]

Client_XR_MSFT_spatial_graph_bridge ==
  [xrCreateSpatialGraphNodeSpaceMSFT |-> Call(50001, <<Val("session"), Chain("createInfo"),
        Ptr("space")>>, <<Ptr("space")>>, {"space"}),
   xrDestroySpatialGraphNodeBindingMSFT |-> Call(50002, <<Val("nodeBinding")>>, <<>>, {}),
   xrGetSpatialGraphNodeBindingPropertiesMSFT |-> Call(50003, <<Val("nodeBinding"),
        Chain("getInfo"), Chain("properties")>>, <<Ptr("properties")>>, {"properties"}),
   xrTryCreateSpatialGraphStaticNodeBindingMSFT |-> Call(50004, <<Val("session"),
        Chain("createInfo"), Ptr("nodeBinding")>>, <<Ptr("nodeBinding")>>, {"nodeBinding"})]

Client_XR_OCULUS_audio_device_guid ==
  [xrGetAudioInputDeviceGuidOculus |-> Call(160001, <<Val("instance"), Arr("buffer")>>,
        <<Ptr("buffer")>>, {"buffer"}),
   xrGetAudioOutputDeviceGuidOculus |-> Call(160002, <<Val("instance"), Arr("buffer")>>,
        <<Ptr("buffer")>>, {"buffer"})]

Client_XR_OCULUS_external_camera ==
  [xrEnumerateExternalCamerasOCULUS |-> Call(227001, <<Val("session"),
        Val("cameraCapacityInput"), Ptr("cameraCountOutput"), ChainN("cameras",
        "cameraCapacityInput")>>, <<Ptr("cameraCountOutput"), Ptr("cameras")>>,
        {"cameraCountOutput", "cameras"})]

Client_XR_QCOM_tracking_optimization_settings ==
  [xrSetTrackingOptimizationSettingsHintQCOM |-> Call(307001, <<Val("session"), Val("domain"),
        Val("hint")>>, <<>>, {})]

Client_XR_VARJO_environment_depth_estimation ==
  [xrSetEnvironmentDepthEstimationVARJO |-> Call(124001, <<Val("session"), Val("enabled")>>,
        <<>>, {})]

Client_XR_VARJO_marker_tracking_1 ==
  [xrCreateMarkerSpaceVARJO |-> Call(125001, <<Val("session"), Chain("createInfo"),
        Ptr("space")>>, <<Ptr("space")>>, {"space"}),
   xrGetMarkerSizeVARJO |-> Call(125002, <<Val("session"), Val("markerId"), Ptr("size")>>,
        <<Ptr("size")>>, {"size"}),
   xrSetMarkerTrackingPredictionVARJO |-> Call(125003, <<Val("session"), Val("markerId"),
        Val("enable")>>, <<>>, {}),
   xrSetMarkerTrackingTimeoutVARJO |-> Call(125004, <<Val("session"), Val("markerId"),
        Val("timeout")>>, <<>>, {})]

Client_XR_VARJO_marker_tracking_2 ==
  [xrSetMarkerTrackingVARJO |-> Call(125005, <<Val("session"), Val("enabled")>>, <<>>, {})]

Client_XR_VARJO_view_offset ==
  [xrSetViewOffsetVARJO |-> Call(126001, <<Val("session"), Val("offset")>>, <<>>, {})]

Client_core_1 ==
  [xrAcquireSwapchainImage |-> Call(1, <<Val("swapchain"), Chain("acquireInfo"),
        Ptr("index")>>, <<Ptr("index")>>, {"index"}),
   xrApplyHapticFeedback |-> Call(2, <<Val("session"), Chain("hapticActionInfo"),
        Xr("hapticFeedback")>>, <<>>, {}),
   xrAttachSessionActionSets |-> Call(3, <<Val("session"), Chain("attachInfo")>>, <<>>, {}),
   xrBeginFrame |-> Call(4, <<Val("session"), Chain("frameBeginInfo")>>, <<>>, {})]

Client_core_2 ==
  [xrBeginSession |-> Call(5, <<Val("session"), Chain("beginInfo")>>, <<>>, {}),
   xrCreateAction |-> Call(6, <<Val("actionSet"), Chain("createInfo"), Ptr("action")>>,
        <<Ptr("action")>>, {"action"}),
   xrCreateActionSet |-> Call(7, <<Val("instance"), Chain("createInfo"), Ptr("actionSet")>>,
        <<Ptr("actionSet")>>, {"actionSet"}),
   xrCreateActionSpace |-> Call(8, <<Val("session"), Chain("createInfo"), Ptr("space")>>,
        <<Ptr("space")>>, {"space"})]

Client_core_3 ==
  [xrCreateInstance |-> Call(9, <<Chain("createInfo"), Ptr("instance")>>, <<Ptr("instance")>>,
        {"instance"}),
   xrCreateReferenceSpace |-> Call(10, <<Val("session"), Chain("createInfo"), Ptr("space")>>,
        <<Ptr("space")>>, {"space"}),
   xrCreateSession |-> Call(11, <<Val("instance"), Chain("createInfo"), Ptr("session")>>,
        <<Ptr("session")>>, {"session"}),
   xrCreateSwapchain |-> Call(12, <<Val("session"), Chain("createInfo"), Ptr("swapchain")>>,
        <<Ptr("swapchain")>>, {"swapchain"})]

Client_core_4 ==
  [xrDestroyAction |-> Call(13, <<Val("action")>>, <<>>, {}),
   xrDestroyActionSet |-> Call(14, <<Val("actionSet")>>, <<>>, {}),
   xrDestroyInstance |-> Call(15, <<Val("instance")>>, <<>>, {}),
   xrDestroySession |-> Call(16, <<Val("session")>>, <<>>, {})]

Client_core_5 ==
  [xrDestroySpace |-> Call(17, <<Val("space")>>, <<>>, {}),
   xrDestroySwapchain |-> Call(18, <<Val("swapchain")>>, <<>>, {}),
   xrEndFrame |-> Call(19, <<Val("session"), Chain("frameEndInfo")>>, <<>>, {}),
   xrEndSession |-> Call(20, <<Val("session")>>, <<>>, {})]

Client_core_6 ==
  [xrEnumerateApiLayerProperties |-> Call(21, <<Val("propertyCapacityInput"),
        Ptr("propertyCountOutput"), ChainN("properties", "propertyCapacityInput")>>,
        <<Ptr("propertyCountOutput"), Ptr("properties")>>, {"propertyCountOutput",
        "properties"}),
   xrEnumerateBoundSourcesForAction |-> Call(22, <<Val("session"), Chain("enumerateInfo"),
        Val("sourceCapacityInput"), Ptr("sourceCountOutput"), PtrN("sources",
        "sourceCapacityInput")>>, <<Ptr("sourceCountOutput"), Ptr("sources")>>,
        {"sourceCountOutput", "sources"}),
   xrEnumerateEnvironmentBlendModes |-> Call(23, <<Val("instance"), Val("systemId"),
        Val("viewConfigurationType"), Val("environmentBlendModeCapacityInput"),
        Ptr("environmentBlendModeCountOutput"), PtrN("environmentBlendModes",
        "environmentBlendModeCapacityInput")>>, <<Ptr("environmentBlendModeCountOutput"),
        Ptr("environmentBlendModes")>>, {"environmentBlendModeCountOutput",
        "environmentBlendModes"})]

Client_core_7 ==
  [xrEnumerateInstanceExtensionProperties |-> Call(24, <<Str("layerName"),
        Val("propertyCapacityInput"), Ptr("propertyCountOutput"), ChainN("properties",
        "propertyCapacityInput")>>, <<Ptr("propertyCountOutput"), Ptr("properties")>>,
        {"propertyCountOutput", "properties"}),
   xrEnumerateReferenceSpaces |-> Call(25, <<Val("session"), Val("spaceCapacityInput"),
        Ptr("spaceCountOutput"), PtrN("spaces", "spaceCapacityInput")>>,
        <<Ptr("spaceCountOutput"), Ptr("spaces")>>, {"spaceCountOutput", "spaces"}),
   xrEnumerateSwapchainFormats |-> Call(26, <<Val("session"), Val("formatCapacityInput"),
        Ptr("formatCountOutput"), PtrN("formats", "formatCapacityInput")>>,
        <<Ptr("formatCountOutput"), Ptr("formats")>>, {"formatCountOutput", "formats"})]

Client_core_8 ==
  [xrEnumerateSwapchainImages |-> Call(27, <<Val("swapchain"), Val("imageCapacityInput"),
        Ptr("imageCountOutput"), XrArr("images", "imageCapacityInput")>>,
        <<Ptr("imageCountOutput"), XrArrIn("images")>>, {"imageCountOutput", "images"}),
   xrEnumerateViewConfigurationViews |-> Call(28, <<Val("instance"), Val("systemId"),
        Val("viewConfigurationType"), Val("viewCapacityInput"), Ptr("viewCountOutput"),
        ChainN("views", "viewCapacityInput")>>, <<Ptr("viewCountOutput"), Ptr("views")>>,
        {"viewCountOutput", "views"}),
   xrEnumerateViewConfigurations |-> Call(29, <<Val("instance"), Val("systemId"),
        Val("viewConfigurationTypeCapacityInput"), Ptr("viewConfigurationTypeCountOutput"),
        PtrN("viewConfigurationTypes", "viewConfigurationTypeCapacityInput")>>,
        <<Ptr("viewConfigurationTypeCountOutput"), Ptr("viewConfigurationTypes")>>,
        {"viewConfigurationTypeCountOutput", "viewConfigurationTypes"})]

Client_core_9 ==
  [xrGetActionStateBoolean |-> Call(30, <<Val("session"), Chain("getInfo"), Chain("state")>>,
        <<Ptr("state")>>, {"state"}),
   xrGetActionStateFloat |-> Call(31, <<Val("session"), Chain("getInfo"), Chain("state")>>,
        <<Ptr("state")>>, {"state"}),
   xrGetActionStatePose |-> Call(32, <<Val("session"), Chain("getInfo"), Chain("state")>>,
        <<Ptr("state")>>, {"state"}),
   xrGetActionStateVector2f |-> Call(33, <<Val("session"), Chain("getInfo"), Chain("state")>>,
        <<Ptr("state")>>, {"state"})]

Client_core_10 ==
  [xrGetCurrentInteractionProfile |-> Call(34, <<Val("session"), Val("topLevelUserPath"),
        Chain("interactionProfile")>>, <<Ptr("interactionProfile")>>,
        {"interactionProfile"}),
   xrGetInputSourceLocalizedName |-> Call(35, <<Val("session"), Chain("getInfo"),
        Val("bufferCapacityInput"), Ptr("bufferCountOutput"), PtrN("buffer",
        "bufferCapacityInput")>>, <<Ptr("bufferCountOutput"), Ptr("buffer")>>,
        {"bufferCountOutput", "buffer"}),
   xrGetInstanceProperties |-> Call(36, <<Val("instance"), Chain("instanceProperties")>>,
        <<Ptr("instanceProperties")>>, {"instanceProperties"}),
   xrGetReferenceSpaceBoundsRect |-> Call(37, <<Val("session"), Val("referenceSpaceType"),
        Ptr("bounds")>>, <<Ptr("bounds")>>, {"bounds"})]

Client_core_11 ==
  [xrGetSystem |-> Call(38, <<Val("instance"), Chain("getInfo"), Ptr("systemId")>>,
        <<Ptr("systemId")>>, {"systemId"}),
   xrGetSystemProperties |-> Call(39, <<Val("instance"), Val("systemId"),
        Chain("properties")>>, <<Ptr("properties")>>, {"properties"}),
   xrGetViewConfigurationProperties |-> Call(40, <<Val("instance"), Val("systemId"),
        Val("viewConfigurationType"), Chain("configurationProperties")>>,
        <<Ptr("configurationProperties")>>, {"configurationProperties"}),
   xrLocateSpace |-> Call(41, <<Val("space"), Val("baseSpace"), Time("time"),
        Chain("location")>>, <<Ptr("location")>>, {"location"})]

Client_core_12 ==
  [xrLocateSpaces |-> Call(42, <<Val("session"), Chain("locateInfo"),
        Chain("spaceLocations")>>, <<Ptr("spaceLocations")>>, {"spaceLocations"}),
   xrLocateViews |-> Call(43, <<Val("session"), Chain("viewLocateInfo"), Chain("viewState"),
        Val("viewCapacityInput"), Ptr("viewCountOutput"), ChainN("views",
        "viewCapacityInput")>>, <<Ptr("viewState"), Ptr("viewCountOutput"), Ptr("views")>>,
        {"viewState", "viewCountOutput", "views"}),
   xrPathToString |-> Call(44, <<Val("instance"), Val("path"), Val("bufferCapacityInput"),
        Ptr("bufferCountOutput"), PtrN("buffer", "bufferCapacityInput")>>,
        <<Ptr("bufferCountOutput"), Ptr("buffer")>>, {"bufferCountOutput", "buffer"})]

Client_core_13 ==
  [xrPollEvent |-> Call(45, <<Val("instance"), Chain("eventData")>>, <<Ptr("eventData")>>,
        {"eventData"}),
   xrReleaseSwapchainImage |-> Call(46, <<Val("swapchain"), Chain("releaseInfo")>>, <<>>, {}),
   xrRequestExitSession |-> Call(47, <<Val("session")>>, <<>>, {}),
   xrResultToString |-> Call(48, <<Val("instance"), Val("value"), Arr("buffer")>>,
        <<Ptr("buffer")>>, {"buffer"})]

Client_core_14 ==
  [xrStopHapticFeedback |-> Call(49, <<Val("session"), Chain("hapticActionInfo")>>, <<>>, {}),
   xrStringToPath |-> Call(50, <<Val("instance"), Str("pathString"), Ptr("path")>>,
        <<Ptr("path")>>, {"path"}),
   xrStructureTypeToString |-> Call(51, <<Val("instance"), Val("value"), Arr("buffer")>>,
        <<Ptr("buffer")>>, {"buffer"}),
   xrSuggestInteractionProfileBindings |-> Call(52, <<Val("instance"),
        Chain("suggestedBindings")>>, <<>>, {})]

Client_core_15 ==
  [xrSyncActions |-> Call(53, <<Val("session"), Chain("syncInfo")>>, <<>>, {}),
   xrWaitFrame |-> Call(54, <<Val("session"), Chain("frameWaitInfo"), Chain("frameState")>>,
        <<Ptr("frameState")>>, {"frameState"}),
   xrWaitSwapchainImage |-> Call(55, <<Val("swapchain"), Chain("waitInfo")>>, <<>>, {})]

-----------------------------------------------------------------------------
\* rpc.cpp with every extension.
ClientCalls ==
  Client_XR_ALMALENCE_digital_lens_control @@ Client_XR_BD_body_tracking @@
  Client_XR_BD_spatial_anchor_1 @@ Client_XR_BD_spatial_anchor_2 @@
  Client_XR_BD_spatial_anchor_sharing @@ Client_XR_BD_spatial_scene @@
  Client_XR_BD_spatial_sensing_1 @@ Client_XR_BD_spatial_sensing_2 @@
  Client_XR_BD_spatial_sensing_3 @@ Client_XR_BD_spatial_sensing_4 @@
  Client_XR_BD_spatial_sensing_5 @@ Client_XR_EXT_conformance_automation_1 @@
  Client_XR_EXT_conformance_automation_2 @@ Client_XR_EXT_debug_utils_1 @@
  Client_XR_EXT_debug_utils_2 @@ Client_XR_EXT_future @@ Client_XR_EXT_hand_tracking @@
  Client_XR_EXT_performance_settings @@ Client_XR_EXT_plane_detection_1 @@
  Client_XR_EXT_plane_detection_2 @@ Client_XR_EXT_thermal_query @@
  Client_XR_FB_body_tracking @@ Client_XR_FB_color_space @@
  Client_XR_FB_display_refresh_rate @@ Client_XR_FB_eye_tracking_social @@
  Client_XR_FB_face_tracking @@ Client_XR_FB_face_tracking2 @@ Client_XR_FB_foveation @@
  Client_XR_FB_hand_tracking_mesh @@ Client_XR_FB_haptic_pcm @@
  Client_XR_FB_keyboard_tracking @@ Client_XR_FB_passthrough_1 @@
  Client_XR_FB_passthrough_2 @@ Client_XR_FB_passthrough_3 @@
  Client_XR_FB_passthrough_keyboard_hands @@ Client_XR_FB_render_model @@
  Client_XR_FB_scene_1 @@ Client_XR_FB_scene_2 @@ Client_XR_FB_scene_capture @@
  Client_XR_FB_spatial_entity_1 @@ Client_XR_FB_spatial_entity_2 @@
  Client_XR_FB_spatial_entity_container @@ Client_XR_FB_spatial_entity_query @@
  Client_XR_FB_spatial_entity_sharing @@ Client_XR_FB_spatial_entity_storage @@
  Client_XR_FB_spatial_entity_storage_batch @@ Client_XR_FB_spatial_entity_user @@
  Client_XR_FB_swapchain_update_state @@ Client_XR_FB_triangle_mesh_1 @@
  Client_XR_FB_triangle_mesh_2 @@ Client_XR_HTCX_vive_tracker_interaction @@
  Client_XR_HTC_anchor @@ Client_XR_HTC_body_tracking @@ Client_XR_HTC_facial_tracking
  @@ Client_XR_HTC_foveation @@ Client_XR_HTC_passthrough @@ Client_XR_KHR_D3D11_enable
  @@ Client_XR_KHR_D3D12_enable @@ Client_XR_KHR_android_surface_swapchain @@
  Client_XR_KHR_android_thread_settings @@ Client_XR_KHR_convert_timespec_time @@
  Client_XR_KHR_extended_struct_name_lengths @@ Client_XR_KHR_loader_init @@
  Client_XR_KHR_metal_enable @@ Client_XR_KHR_opengl_enable @@
  Client_XR_KHR_opengl_es_enable @@ Client_XR_KHR_visibility_mask @@
  Client_XR_KHR_vulkan_enable_1 @@ Client_XR_KHR_vulkan_enable_2 @@
  Client_XR_KHR_vulkan_enable2 @@ Client_XR_KHR_win32_convert_performance_counter_time
  @@ Client_XR_META_colocation_discovery @@ Client_XR_META_environment_depth_1 @@
  Client_XR_META_environment_depth_2 @@ Client_XR_META_environment_depth_3 @@
  Client_XR_META_foveation_eye_tracked @@ Client_XR_META_passthrough_color_lut @@
  Client_XR_META_passthrough_preferences @@ Client_XR_META_performance_metrics @@
  Client_XR_META_recommended_layer_resolution @@
  Client_XR_META_simultaneous_hands_and_controllers @@
  Client_XR_META_spatial_entity_mesh @@ Client_XR_META_spatial_entity_sharing @@
  Client_XR_META_virtual_keyboard_1 @@ Client_XR_META_virtual_keyboard_2 @@
  Client_XR_META_virtual_keyboard_3 @@ Client_XR_ML_compat @@
  Client_XR_ML_facial_expression @@ Client_XR_ML_localization_map_1 @@
  Client_XR_ML_localization_map_2 @@ Client_XR_ML_marker_understanding_1 @@
  Client_XR_ML_marker_understanding_2 @@ Client_XR_ML_marker_understanding_3 @@
  Client_XR_ML_spatial_anchors @@ Client_XR_ML_spatial_anchors_storage_1 @@
  Client_XR_ML_spatial_anchors_storage_2 @@ Client_XR_ML_spatial_anchors_storage_3 @@
  Client_XR_ML_system_notifications @@ Client_XR_ML_user_calibration @@
  Client_XR_ML_world_mesh_detection_1 @@ Client_XR_ML_world_mesh_detection_2 @@
  Client_XR_ML_world_mesh_detection_3 @@ Client_XR_MNDX_force_feedback_curl @@
  Client_XR_MSFT_composition_layer_reprojection @@ Client_XR_MSFT_controller_model @@
  Client_XR_MSFT_hand_tracking_mesh @@ Client_XR_MSFT_perception_anchor_interop @@
  Client_XR_MSFT_scene_marker @@ Client_XR_MSFT_scene_understanding_1 @@
  Client_XR_MSFT_scene_understanding_2 @@ Client_XR_MSFT_scene_understanding_3 @@
  Client_XR_MSFT_scene_understanding_serialization @@ Client_XR_MSFT_spatial_anchor @@
  Client_XR_MSFT_spatial_anchor_persistence_1 @@
  Client_XR_MSFT_spatial_anchor_persistence_2 @@ Client_XR_MSFT_spatial_graph_bridge @@
  Client_XR_OCULUS_audio_device_guid @@ Client_XR_OCULUS_external_camera @@
  Client_XR_QCOM_tracking_optimization_settings @@
  Client_XR_VARJO_environment_depth_estimation @@ Client_XR_VARJO_marker_tracking_1 @@
  Client_XR_VARJO_marker_tracking_2 @@ Client_XR_VARJO_view_offset @@ Client_core_1 @@
  Client_core_2 @@ Client_core_3 @@ Client_core_4 @@ Client_core_5 @@ Client_core_6 @@
  Client_core_7 @@ Client_core_8 @@ Client_core_9 @@ Client_core_10 @@ Client_core_11 @@
  Client_core_12 @@ Client_core_13 @@ Client_core_14 @@ Client_core_15
=============================================================================
